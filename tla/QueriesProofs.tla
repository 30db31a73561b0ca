---------------------------- MODULE QueriesProofs ----------------------------
(***************************************************************************)
(* What the HTTP API answers with is what it promises, for any requests,   *)
(* clients, tables, rights and limits: nobody waits for an answer that     *)
(* cannot come; feeds hold what was reported and nothing whitelisted;      *)
(* searches find what they are for, all of it, and leave a trace.          *)
(*                                                                         *)
(* The second invariant has three parts. The table (TableInv) holds rows   *)
(* that were reported when they say so, except for what searches left. The *)
(* line (LineInv) holds what each client that waits has asked for, once.   *)
(* A job (JobInv) knows what its answers so far have given: this stays     *)
(* true whatever others write, since the table only grows (Grows).         *)
(***************************************************************************)
EXTENDS Queries, Induction, SequenceTheorems, TLAPS

\* Whoever waits has a message in line, and what has been answered tells it
\* from what has not.
Waits(c) == job[c] # Nobody /\ job[c].answer = Nobody
InLine(c) == \E n \in DOMAIN inbox : inbox[n].client = c

\* Nobody is no record, and no answer.
NobodyIsNoAnswer ==
    \A outcome, data : Nobody # [outcome |-> outcome, data |-> data]

Stages == {"search", "feed", "whitelist"}
IsJob(j) == /\ j = [f \in DOMAIN j |-> j[f]] /\ {"answer", "stage"} \subseteq DOMAIN j
            /\ j.stage \in Stages

IInv ==
    /\ \E M : inbox \in Seq(M)
    /\ job = [c \in Clients |-> job[c]]
    /\ \A c \in Clients : job[c] # Nobody => IsJob(job[c])
    /\ NobodyForgotten

-----------------------------------------------------------------------------
(* What a step does to a client and to the line.                           *)

\* Client c is told, and has nothing in line.
ToldNow(c) == job' = [job EXCEPT ![c] = Nobody] /\ inbox' = inbox

\* Client c asks.
AsksNow(c) ==
    \E j, m : /\ IsJob(j) /\ m.client = c
              /\ job' = [job EXCEPT ![c] = j] /\ inbox' = Append(inbox, m)

\* Telling a client, and asking for it, keep everybody in line.
LEMMA TellsOrAsks ==
    ASSUME IInv, NEW c \in Clients, ToldNow(c) \/ AsksNow(c)
    PROVE  IInv'
<1>1. PICK M : inbox \in Seq(M)
  BY DEF IInv
<1>2. CASE ToldNow(c)
  <2>1. job' = [job EXCEPT ![c] = Nobody] /\ inbox' = inbox
    BY <1>2 DEF ToldNow
  <2>2. NobodyForgotten'
    BY <2>1 DEF IInv, NobodyForgotten
  <2>3. QED
    BY <1>1, <2>1, <2>2 DEF IInv
<1>3. CASE AsksNow(c)
  <2>1. PICK j, m : /\ IsJob(j) /\ m.client = c
                    /\ job' = [job EXCEPT ![c] = j] /\ inbox' = Append(inbox, m)
    BY <1>3 DEF AsksNow
  <2> DEFINE n == Len(inbox) + 1
  <2>2. /\ DOMAIN inbox' = DOMAIN inbox \cup {n}
        /\ inbox'[n] = m /\ \A k \in DOMAIN inbox : inbox'[k] = inbox[k]
    BY <1>1, <2>1
  <2>3. inbox' \in Seq(M \cup {m})
    BY <1>1, <2>1
  <2> HIDE DEF n
  <2>4. NobodyForgotten'
    <3> SUFFICES ASSUME NEW b \in Clients, job'[b] # Nobody, job'[b].answer = Nobody
                 PROVE  \E k \in DOMAIN inbox' : inbox'[k].client = b
      BY DEF NobodyForgotten
    <3>1. CASE b = c
      BY <2>1, <2>2, <3>1
    <3>2. CASE b # c
      BY <2>1, <2>2, <3>2 DEF IInv, NobodyForgotten
    <3>3. QED
      BY <3>1, <3>2
  <2>5. QED
    BY <2>1, <2>3, <2>4 DEF IInv
<1>4. QED
  BY <1>2, <1>3

\* How a client is told, and how it asks.
LEMMA Respondent ==
    ASSUME NEW c, NEW j, NEW s, NEW data, Respond(c, j, s, data), inbox' = inbox
    PROVE  ToldNow(c)
BY DEF Respond, ToldNow

\* Ask is such an asking.
LEMMA Asker ==
    ASSUME NEW c, NEW j, IsJob(j), NEW f, Ask(c, j, f)
    PROVE  AsksNow(c)
<1> DEFINE k == [j EXCEPT !.answer = Nobody]
           m == [client |-> c, token |-> TokenOf(j.req), mtype |-> j.req.endpoint,
                 body |-> f, asked |-> now]
<1>1. IsJob(k)
  BY DEF IsJob
<1>2. m.client = c
  OBVIOUS
<1>3. job' = [job EXCEPT ![c] = k] /\ inbox' = Append(inbox, m)
  BY DEF Ask
<1>4. QED
  BY <1>1, <1>2, <1>3, Zenon DEF AsksNow

\* A new job is one.
LEMMA JobIs ==
    ASSUME NEW req
    PROVE  /\ IsJob(Job(req))
           /\ \A f, l : IsJob([Job(req) EXCEPT !.filters = f, !.left = l])
           /\ \A f : IsJob([Job(req) EXCEPT !.filters = f, !.stage = "feed"])
BY DEF Job, IsJob, Stages

\* A request that comes in keeps everybody in line.
LEMMA StepArrive ==
    ASSUME IInv, NEW c \in Clients, NEW req \in Requests, Arrive(c, req)
    PROVE  IInv'
<1>1. CASE TokenOf(req) = NoToken
  BY <1>1, Respondent, TellsOrAsks DEF Arrive
<1>2. CASE ArriveSearch(c, req)
  <2> DEFINE f == Cleaned(req.args)
             g == Without(f, {"no_feed"})
             first == Limited(IF "indicator" \in DOMAIN g
                              THEN Aimed(g, g.indicator[1]) ELSE g)
             left == IF "indicator" \in DOMAIN g THEN Tail(g.indicator) ELSE <<>>
  <2>1. \/ Respond(c, Job(req), 400, {}) /\ UNCHANGED inbox
        \/ Ask(c, [Job(req) EXCEPT !.filters = first, !.left = left], first)
        \/ Ask(c, [Job(req) EXCEPT !.filters = FeedFilters(f), !.stage = "feed"],
               FeedFilters(f))
        \/ Respond(c, Job(req), 500, {}) /\ UNCHANGED inbox
    BY <1>2 DEF ArriveSearch
  <2> HIDE DEF f, g, first, left
  <2>2. CASE Respond(c, Job(req), 400, {}) /\ UNCHANGED inbox
    BY <2>2, Respondent, TellsOrAsks
  <2>3. CASE Ask(c, [Job(req) EXCEPT !.filters = first, !.left = left], first)
    BY <2>3, JobIs, Asker, TellsOrAsks
  <2>4. CASE Ask(c, [Job(req) EXCEPT !.filters = FeedFilters(f), !.stage = "feed"],
                 FeedFilters(f))
    BY <2>4, JobIs, Asker, TellsOrAsks
  <2>5. CASE Respond(c, Job(req), 500, {}) /\ UNCHANGED inbox
    BY <2>5, Respondent, TellsOrAsks
  <2>6. QED
    BY <2>1, <2>2, <2>3, <2>4, <2>5
<1>3. CASE ArriveOther(c, req)
  <2>1. CASE Respond(c, Job(req), 500, {}) /\ UNCHANGED inbox
    BY <2>1, Respondent, TellsOrAsks
  <2>2. CASE Ask(c, Job(req), req.args)
    BY <2>2, JobIs, Asker, TellsOrAsks
  <2>3. QED
    BY <1>3, <2>1, <2>2 DEF ArriveOther
<1>4. QED
  BY <1>1, <1>2, <1>3 DEF Arrive

\* So does an answer that is taken,
LEMMA StepContinue ==
    ASSUME IInv, NEW c \in Clients, Continue(c)
    PROVE  IInv'
<1> DEFINE j == job[c]
<1>1. IsJob(j)
  BY DEF Continue, IInv
<1>2. \/ Respond(c, j, StatusOf(j.req.endpoint, j.answer.outcome), {}) /\ UNCHANGED inbox
      \/ GoOn(c, j) \/ FeedPulled(c, j) \/ WhitelistPulled(c, j)
  BY <1>1 DEF Continue, IsJob, Stages
<1> HIDE DEF j
<1>3. CASE Respond(c, j, StatusOf(j.req.endpoint, j.answer.outcome), {}) /\ UNCHANGED inbox
  BY <1>3, Respondent, TellsOrAsks
<1>4. CASE GoOn(c, j)
  <2> DEFINE k == [j EXCEPT !.got = @ \cup j.answer.data]
             next == Aimed(j.filters, Head(j.left))
             l == [k EXCEPT !.left = Tail(@), !.filters = next]
             status == IF j.req.endpoint = "create" THEN 201 ELSE 200
  <2>1. \/ Respond(c, j, status, k.got) /\ UNCHANGED inbox
        \/ Ask(c, l, next)
    BY <1>4 DEF GoOn
  <2>2. IsJob(l)
    BY <1>1 DEF IsJob
  <2> HIDE DEF k, next, l, status
  <2>3. CASE Respond(c, j, status, k.got) /\ UNCHANGED inbox
    BY <2>3, Respondent, TellsOrAsks
  <2>4. CASE Ask(c, l, next)
    BY <2>2, <2>4, Asker, TellsOrAsks
  <2>5. QED
    BY <2>1, <2>3, <2>4
<1>5. CASE FeedPulled(c, j)
  <2> DEFINE l == [j EXCEPT !.got = j.answer.data, !.stage = "whitelist"]
             white == WhitelistFilters(j.filters)
  <2>1. \/ Respond(c, j, 200, j.answer.data) /\ UNCHANGED inbox
        \/ Ask(c, l, white)
    BY <1>5 DEF FeedPulled
  <2>2. IsJob(l)
    BY <1>1 DEF IsJob, Stages
  <2> HIDE DEF l, white
  <2>3. CASE Respond(c, j, 200, j.answer.data) /\ UNCHANGED inbox
    BY <2>3, Respondent, TellsOrAsks
  <2>4. CASE Ask(c, l, white)
    BY <2>2, <2>4, Asker, TellsOrAsks
  <2>5. QED
    BY <2>1, <2>3, <2>4
<1>6. CASE WhitelistPulled(c, j)
  BY <1>6, Respondent, TellsOrAsks DEF WhitelistPulled
<1>7. QED
  BY <1>2, <1>3, <1>4, <1>5, <1>6

\* a client that gives up,
LEMMA StepGiveUp ==
    ASSUME IInv, NEW c \in Clients, GiveUp(c)
    PROVE  IInv'
<1>1. job' = [job EXCEPT ![c] = Nobody] /\ inbox' = Orphaned(c)
  BY DEF GiveUp, Respond
<1>2. PICK M : inbox \in Seq(M)
  BY DEF IInv
<1>3. /\ DOMAIN inbox' = DOMAIN inbox
      /\ \A n \in DOMAIN inbox : inbox[n].client # c => inbox'[n] = inbox[n]
  BY <1>1, <1>2 DEF Orphaned
<1>4. inbox' \in Seq(M \cup {[m EXCEPT !.client = Nobody] : m \in M})
  BY <1>1, <1>2 DEF Orphaned
<1>5. NobodyForgotten'
  BY <1>1, <1>3 DEF IInv, NobodyForgotten
<1>6. QED
  BY <1>1, <1>4, <1>5 DEF IInv

\* and the store, which answers whatever it takes.
LEMMA StepHandle ==
    ASSUME NobodyIsNoAnswer, IInv, Handle
    PROVE  IInv'
<1> DEFINE m == Head(inbox)
<1>1. inbox # <<>> /\ inbox' = Tail(inbox)
  BY DEF Handle
<1>2. PICK answer : answer # Nobody /\ Reply(m, answer)
  <2>1. /\ \A data : Ok(data) # Nobody
        /\ \A outcome : Failed(outcome) # Nobody
    BY DEF NobodyIsNoAnswer, Ok, Failed
  <2>2. Refuse(m) \/ SearchRows(m) \/ CreateRows(m) \/ AnswerOther(m)
    BY DEF Handle
  <2> HIDE DEF m
  <2>3. CASE Refuse(m)
    BY <2>1, <2>3 DEF Refuse
  <2>4. CASE SearchRows(m)
    BY <2>1, <2>4 DEF SearchRows
  <2>5. CASE CreateRows(m)
    BY <2>1, <2>5 DEF CreateRows
  <2>6. CASE AnswerOther(m)
    BY <2>1, <2>6 DEF AnswerOther
  <2>7. QED
    BY <2>2, <2>3, <2>4, <2>5, <2>6
<1>3. PICK M : inbox \in Seq(M)
  BY DEF IInv
<1>4. inbox' \in Seq(M)
  BY <1>1, <1>3
<1>5. /\ m = inbox[1]
      /\ \A n \in DOMAIN inbox : n # 1 => n - 1 \in DOMAIN inbox' /\ inbox'[n - 1] = inbox[n]
  BY <1>1, <1>3
<1> HIDE DEF m
<1>6. ASSUME NEW c \in Clients
      PROVE  /\ job'[c] # Nobody => job[c] # Nobody /\ IsJob(job'[c])
             /\ c # m.client => job'[c] = job[c]
             /\ c = m.client /\ job'[c] # Nobody => job'[c].answer = answer
  <2>1. job[c] # Nobody => IsJob(job[c])
    BY DEF IInv
  <2>2. CASE m.client = Nobody \/ job[m.client] = Nobody
    BY <1>2, <2>1, <2>2, QueriesAssumption DEF Reply
  <2>3. CASE ~(m.client = Nobody \/ job[m.client] = Nobody)
    <3> DEFINE known == IF job[m.client].stage = "feed" THEN rows ELSE job[m.client].known
    <3>1. \E k : job' = [job EXCEPT ![m.client] = [@ EXCEPT !.answer = answer, !.known = k]]
      BY <1>2, <2>3 DEF Reply
    <3>2. QED
      BY <2>1, <2>3, <3>1 DEF IsJob, IInv
  <2>4. QED
    BY <2>2, <2>3
<1>7. job' = [c \in Clients |-> job'[c]]
  BY <1>2 DEF Reply, IInv
<1>8. NobodyForgotten'
  <2> SUFFICES ASSUME NEW c \in Clients, job'[c] # Nobody, job'[c].answer = Nobody
               PROVE  \E n \in DOMAIN inbox' : inbox'[n].client = c
    BY DEF NobodyForgotten
  <2>1. c # m.client
    BY <1>2, <1>6
  <2>2. PICK n \in DOMAIN inbox : inbox[n].client = c
    BY <1>6, <2>1 DEF IInv, NobodyForgotten
  <2>3. QED
    BY <1>5, <2>1, <2>2
<1>9. QED
  BY <1>4, <1>6, <1>7, <1>8 DEF IInv

\* Whatever goes wrong at the store is answered, whichever client gives up:
\* whoever waits has a message there (store/__init__.py: handle_message).
THEOREM NobodyWaitsInVain == NobodyIsNoAnswer /\ Spec => []NobodyForgotten
<1>1. Init => IInv
  BY DEF Init, IInv, NobodyForgotten
<1>2. NobodyIsNoAnswer /\ IInv /\ [Next]_vars => IInv'
  <2> SUFFICES ASSUME NobodyIsNoAnswer, IInv, [Next]_vars PROVE IInv'
    OBVIOUS
  <2>1. CASE UNCHANGED <<inbox, job>>
    BY <2>1 DEF IInv, NobodyForgotten
  <2>2. CASE \E c \in Clients, req \in Requests : Arrive(c, req)
    BY <2>2, StepArrive
  <2>3. CASE \E c \in Clients : Continue(c) \/ GiveUp(c)
    BY <2>3, StepContinue, StepGiveUp
  <2>4. CASE Handle
    BY <2>4, StepHandle
  <2>5. QED
    BY <2>1, <2>2, <2>3, <2>4 DEF Next, Tick, vars
<1>3. NobodyIsNoAnswer => NobodyIsNoAnswer'
  BY DEF NobodyIsNoAnswer
<1>4. IInv => NobodyForgotten
  BY DEF IInv
<1>5. QED
  BY <1>1, <1>2, <1>3, <1>4, PTL DEF Spec
-----------------------------------------------------------------------------
(* What a query answers with.                                              *)

\* The smaller of two.
LEMMA MinOf ==
    ASSUME NEW m \in Int, NEW n \in Int
    PROVE  Min({m, n}) = IF m <= n THEN m ELSE n
<1> DEFINE k == IF m <= n THEN m ELSE n
<1>1. k \in {m, n} /\ \A y \in {m, n} : k <= y
  OBVIOUS
<1>2. \A x \in {m, n} : (\A y \in {m, n} : x <= y) => x = k
  OBVIOUS
<1> HIDE DEF k
<1>3. (CHOOSE x \in {m, n} : \A y \in {m, n} : x <= y) = k
  BY <1>1, <1>2
<1>4. QED
  BY <1>3 DEF Min, k

\* Pairs of rows that have a time, which does not go on for ever.
Dated(pairs, bound) == IsFiniteSet(pairs) /\ \A p \in pairs : p[1].reported_at \in 0..bound

\* What is surely among the first n are n at most.
LEMMA SureFew ==
    ASSUME NEW pairs, NEW bound \in Nat, Dated(pairs, bound), NEW n \in Nat
    PROVE  /\ IsFiniteSet(Sure(pairs, n)) /\ Cardinality(Sure(pairs, n)) \in 0..n
           /\ Sure(pairs, n) \subseteq First(pairs, n) /\ First(pairs, n) \subseteq pairs
<1> DEFINE S == Sure(pairs, n)
           Around(p) == {q \in pairs : ~Later(p, q)}
<1>1. S \subseteq pairs /\ First(pairs, n) \subseteq pairs
  BY DEF Sure, First
<1>2. \A T \in SUBSET pairs : IsFiniteSet(T) /\ Cardinality(T) \in Nat
  BY FS_Subset, FS_CardinalityType DEF Dated
<1>3. \A p \in S : Around(p) \in SUBSET pairs /\ Cardinality(Around(p)) <= n
  BY DEF Sure
<1>4. Cardinality(S) <= n
  <2>1. CASE S = {}
    BY <2>1, FS_EmptySet
  <2>2. CASE S # {}
    <3> DEFINE T == {p[1].reported_at : p \in S}
    <3>1. T \subseteq Nat /\ T # {}
      BY <1>1, <2>2 DEF Dated
    <3>2. PICK t \in T : \A u \in T : t <= u
      BY <3>1, NatLeast
    <3>3. PICK p \in S : t = p[1].reported_at
      OBVIOUS
    <3>4. \A q \in S : ~Later(p, q)
      BY <1>1, <3>1, <3>2, <3>3 DEF Later
    <3>5. S \in SUBSET Around(p)
      BY <1>1, <3>4
    <3>6. Cardinality(S) <= Cardinality(Around(p))
      BY <1>2, <1>3, <3>5, FS_Subset
    <3>7. QED
      BY <1>1, <1>2, <1>3, <3>6
  <2>3. QED
    BY <2>1, <2>2
<1>5. ASSUME NEW p \in S PROVE p \in First(pairs, n)
  <2> DEFINE B == {q \in pairs : Later(q, p)}
  <2>1. p \in Around(p) /\ B \in SUBSET (Around(p) \ {p})
    BY <1>1 DEF Later, Dated
  <2>2. Cardinality(Around(p) \ {p}) = Cardinality(Around(p)) - 1
        /\ IsFiniteSet(Around(p) \ {p})
    BY <1>2, <1>3, <2>1, FS_RemoveElement
  <2>3. Cardinality(B) <= Cardinality(Around(p)) - 1
    BY <2>1, <2>2, FS_Subset
  <2>4. Cardinality(B) \in Nat /\ Cardinality(Around(p)) \in Nat
    BY <1>2, <1>3
  <2>5. Cardinality(B) < n
    BY <1>3, <2>3, <2>4
  <2>6. QED
    BY <1>1, <2>5 DEF First
<1>6. IsFiniteSet(S) /\ Cardinality(S) \in Nat
  BY <1>1, <1>2
<1>7. QED
  BY <1>1, <1>4, <1>5, <1>6

\* If fewer than n may be among the first n, those are all there are.
LEMMA FirstAll ==
    ASSUME NEW pairs, NEW bound \in Nat, Dated(pairs, bound), NEW n \in Nat,
           Cardinality(First(pairs, n)) < n
    PROVE  First(pairs, n) = pairs
<1> DEFINE F == First(pairs, n)
           D == pairs \ F
<1>1. F \subseteq pairs
  BY DEF First
<1>2. \A T \in SUBSET pairs : IsFiniteSet(T) /\ Cardinality(T) \in Nat
  BY FS_Subset, FS_CardinalityType DEF Dated
<1>3. ASSUME D # {} PROVE FALSE
  <2> DEFINE T == {bound - p[1].reported_at : p \in D}
  <2>1. T \subseteq Nat /\ T # {}
    BY <1>3 DEF Dated
  <2>2. PICK t \in T : \A u \in T : t <= u
    BY <2>1, NatLeast
  <2>3. PICK p \in D : t = bound - p[1].reported_at
    OBVIOUS
  <2> DEFINE B == {q \in pairs : Later(q, p)}
  <2>4. B \subseteq F
    <3> SUFFICES ASSUME NEW q \in pairs, Later(q, p), q \in D PROVE FALSE
      OBVIOUS
    <3>1. t <= bound - q[1].reported_at
      BY <2>2
    <3>2. q[1].reported_at \in 0..bound /\ p[1].reported_at \in 0..bound
      BY DEF Dated
    <3>3. QED
      BY <2>3, <3>1, <3>2 DEF Later
  <2>5. ~(Cardinality(B) < n)
    BY <2>3 DEF First
  <2>6. Cardinality(B) <= Cardinality(F)
    BY <1>1, <1>2, <2>4, FS_Subset
  <2>7. Cardinality(B) \in Nat /\ Cardinality(F) \in Nat
    BY <1>1, <1>2
  <2>8. QED
    BY <2>5, <2>6, <2>7
<1>4. QED
  BY <1>1, <1>3

\* A query is answered with everything it finds, if that is no more than the
\* limit, or if the answer is below it.
LEMMA LatestAre ==
    ASSUME NEW pairs, NEW bound \in Nat, Dated(pairs, bound), NEW n \in Nat,
           NEW s \in Latest(pairs, n)
    PROVE  /\ s \subseteq pairs /\ IsFiniteSet(s)
           /\ Cardinality(pairs) <= n => s = pairs
           /\ Cardinality(s) < n => s = pairs
<1> DEFINE S == Sure(pairs, n)
           F == First(pairs, n)
           tied == F \ S
           rest == n - Cardinality(S)
<1>1. IsFiniteSet(S) /\ Cardinality(S) \in 0..n /\ S \subseteq F /\ F \subseteq pairs
  BY SureFew
<1>2. \A T \in SUBSET pairs : IsFiniteSet(T) /\ Cardinality(T) \in Nat
  BY FS_Subset, FS_CardinalityType DEF Dated
<1>3. PICK u \in SUBSET tied : s = S \cup u /\ Cardinality(u) = Min({rest, Cardinality(tied)})
  BY DEF Latest, kSubset
<1>4. s \subseteq pairs /\ IsFiniteSet(s)
  BY <1>1, <1>2, <1>3
<1>5. ASSUME Cardinality(pairs) <= n PROVE s = pairs
  <2>1. ASSUME NEW p \in pairs PROVE p \in S
    <3>1. {q \in pairs : ~Later(p, q)} \in SUBSET pairs
      OBVIOUS
    <3>2. Cardinality({q \in pairs : ~Later(p, q)}) <= Cardinality(pairs)
      BY <3>1, FS_Subset DEF Dated
    <3>3. Cardinality({q \in pairs : ~Later(p, q)}) <= n
      BY <1>2, <1>5, <3>1, <3>2
    <3>4. QED
      BY <3>3 DEF Sure
  <2>2. QED
    BY <1>3, <1>4, <2>1
<1>6. ASSUME Cardinality(s) < n PROVE s = pairs
  <2>1. S \cap u = {} /\ u \in SUBSET pairs /\ tied \in SUBSET pairs
    BY <1>1
  <2>2. Cardinality(s) = Cardinality(S) + Cardinality(u)
    <3>1. IsFiniteSet(u) /\ IsFiniteSet(S)
      BY <1>1, <1>2, <2>1
    <3>2. Cardinality(S \cup u) = Cardinality(S) + Cardinality(u) - Cardinality(S \cap u)
      BY <3>1, FS_Union
    <3>3. Cardinality(S \cap u) = 0
      BY <2>1, FS_EmptySet
    <3>4. Cardinality(S) \in Nat /\ Cardinality(u) \in Nat
      BY <1>1, <1>2, <2>1
    <3>5. QED
      BY <1>3, <3>2, <3>3, <3>4
  <2>3. rest \in Int /\ Cardinality(tied) \in Int /\ Cardinality(u) \in Nat
        /\ Cardinality(S) \in Nat
    BY <1>1, <1>2, <2>1
  <2> HIDE DEF rest, tied, S
  <2>4. Cardinality(u) = IF rest <= Cardinality(tied) THEN rest ELSE Cardinality(tied)
    BY <1>3, <2>3, MinOf
  <2>5. Cardinality(u) # rest
    BY <1>6, <2>2, <2>3 DEF rest
  <2>6. Cardinality(u) = Cardinality(tied)
    BY <2>4, <2>5
  <2>7. u = tied
    BY <1>2, <1>3, <2>1, <2>6, FS_Subset
  <2>8. s = F
    BY <1>1, <1>3, <2>7 DEF tied
  <2>9. QED
    BY <1>6, <2>8, FirstAll
<1>7. QED
  BY <1>4, <1>5, <1>6

\* What a query finds, of a row: as often as its tags and messages join.
Hits(table, f, groups) == {r \in table : Passes(r, f, groups) /\ Joined(r, f) # {}}

\* A pair that is found is a row that passes, and what it is joined to.
LEMMA FoundIs ==
    ASSUME NEW table, NEW f, NEW groups
    PROVE  /\ \A p \in Found(table, f, groups) :
                 /\ p = <<p[1], p[2]>> /\ p[1] \in Hits(table, f, groups)
                 /\ p[2] \in Joined(p[1], f)
           /\ \A r \in Hits(table, f, groups) : \E p \in Found(table, f, groups) : p[1] = r
<1>1. ASSUME NEW p \in Found(table, f, groups)
      PROVE  /\ p = <<p[1], p[2]>> /\ p[1] \in Hits(table, f, groups)
             /\ p[2] \in Joined(p[1], f)
  <2>1. PICK r \in table : Passes(r, f, groups) /\ p \in {r} \X Joined(r, f)
    BY DEF Found
  <2> HIDE DEF Found
  <2>2. PICK t \in Joined(r, f) : p = <<r, t>>
    BY <2>1
  <2>3. QED
    BY <2>1, <2>2 DEF Hits
<1>2. ASSUME NEW r \in Hits(table, f, groups)
      PROVE  \E p \in Found(table, f, groups) : p[1] = r
  <2>1. PICK t : t \in Joined(r, f)
    BY DEF Hits
  <2>2. <<r, t>> \in {r} \X Joined(r, f)
    BY <2>1
  <2>3. <<r, t>> \in Found(table, f, groups)
    BY <2>2 DEF Found, Hits
  <2>4. QED
    BY <2>3
<1>3. QED
  BY <1>1, <1>2

\* A row has finitely many tags and messages to join.
Joinable(r) == IsFiniteSet(r.tags) /\ \E M : r.messages \in Seq(M)

LEMMA JoinedFinite ==
    ASSUME NEW r, Joinable(r), NEW f
    PROVE  IsFiniteSet(Joined(r, f))
<1>1. IsFiniteSet(Tagged(r, f))
  <2>1. CASE "tags" \in DOMAIN f
    BY <2>1, FS_Intersection DEF Tagged, Joinable
  <2>2. CASE "tags" \notin DOMAIN f /\ "indicator" \in DOMAIN f
    BY <2>2, FS_Singleton DEF Tagged
  <2>3. CASE "tags" \notin DOMAIN f /\ "indicator" \notin DOMAIN f
    BY <2>3, FS_Difference DEF Tagged, Ordinary, Joinable
  <2>4. QED
    BY <2>1, <2>2, <2>3
<1>2. IsFiniteSet(Noted(r, f))
  <2>1. PICK M : r.messages \in Seq(M)
    BY DEF Joinable
  <2>2. DOMAIN r.messages = 1..Len(r.messages) /\ Len(r.messages) \in Nat
    BY <2>1
  <2>3. IsFiniteSet(DOMAIN r.messages)
    BY <2>2, FS_Interval
  <2>4. Finds(f.indicator, r) \subseteq DOMAIN r.messages
    BY DEF Finds
  <2>5. IsFiniteSet(Finds(f.indicator, r))
    BY <2>3, <2>4, FS_Subset
  <2>6. QED
    BY <2>5, FS_Singleton DEF Noted
<1>3. QED
  BY <1>1, <1>2, FS_Product DEF Joined

\* A finite table gives finitely many pairs.
LEMMA FoundFinite ==
    ASSUME NEW table, IsFiniteSet(table), \A r \in table : Joinable(r),
           NEW f, NEW groups
    PROVE  IsFiniteSet(Found(table, f, groups))
<1> DEFINE P == {r \in table : Passes(r, f, groups)}
           Of == [r \in P |-> {r} \X Joined(r, f)]
<1>1. IsFiniteSet(P)
  BY FS_Subset
<1>2. ASSUME NEW r \in P PROVE IsFiniteSet(Of[r])
  <2>1. IsFiniteSet(Joined(r, f))
    BY JoinedFinite
  <2>2. QED
    BY <2>1, FS_Singleton, FS_Product
<1> HIDE DEF Of, P
<1>3. IsFiniteSet({Of[r] : r \in P})
  BY <1>1, FiniteImage
<1>4. IsFiniteSet(UNION {Of[r] : r \in P})
  BY <1>2, <1>3, FS_UNION
<1>5. Found(table, f, groups) = UNION {Of[r] : r \in P}
  BY DEF Found, Of, P
<1>6. QED
  BY <1>4, <1>5

\* The only pair of two values.
LEMMA OnlyPair ==
    ASSUME NEW t, NEW n, NEW p \in {t} \X {n}
    PROVE  p = <<t, n>>
OBVIOUS

\* The answer to a search.
LEMMA AnswerIs ==
    ASSUME NEW table, IsFiniteSet(table), NEW bound \in Nat,
           \A r \in table : Joinable(r) /\ r.reported_at \in 0..bound,
           NEW f, LimitOf(f) \in Nat, NEW groups, NEW a \in SearchAnswers(table, f, groups)
    PROVE  /\ a \subseteq Hits(table, f, groups) /\ IsFiniteSet(a)
           /\ Cardinality(Found(table, f, groups)) <= LimitOf(f)
              => a = Hits(table, f, groups)
           /\ /\ "tags" \notin DOMAIN f /\ "indicator" \in DOMAIN f
              /\ f.indicator.kind # "text" /\ Cardinality(a) < LimitOf(f)
              => a = Hits(table, f, groups)
<1> DEFINE P == Found(table, f, groups)
           H == Hits(table, f, groups)
<1>1. PICK s \in Latest(P, LimitOf(f)) : a = {p[1] : p \in s}
  BY DEF SearchAnswers
<1>2. Dated(P, bound)
  BY FoundFinite, FoundIs DEF Dated, Hits
<1> HIDE DEF P
<1>3. /\ s \subseteq P /\ IsFiniteSet(s)
      /\ Cardinality(P) <= LimitOf(f) => s = P
      /\ Cardinality(s) < LimitOf(f) => s = P
  BY <1>2, LatestAre
<1>4. s = P => a = H
  BY <1>1, FoundIs DEF P
<1>5. a \subseteq H /\ H \subseteq table
  BY <1>1, <1>3, FoundIs DEF P, Hits
<1>6. IsFiniteSet(a)
  BY <1>5, FS_Subset
<1>7. ASSUME "tags" \notin DOMAIN f, "indicator" \in DOMAIN f, f.indicator.kind # "text",
             Cardinality(a) < LimitOf(f)
      PROVE  a = H
  <2> DEFINE row == [p \in s |-> p[1]]
  <2>1. \A p \in s : row[p] \in a
    BY <1>1
  <2>2. ASSUME NEW p \in s PROVE p = <<p[1], <<"not joined", "not joined">>>>
    <3>1. p \in Found(table, f, groups)
      BY <1>3 DEF P
    <3>2. p = <<p[1], p[2]>> /\ p[2] \in Joined(p[1], f)
      BY <3>1, FoundIs
    <3>3. p[2] \in {"not joined"} \X {"not joined"}
      BY <1>7, <3>2 DEF Joined, Tagged, Noted
    <3>3a. p[2] = <<"not joined", "not joined">>
      BY <3>3, OnlyPair
    <3>4. QED
      BY <3>2, <3>3a
  <2>3. \A p, q \in s : row[p] = row[q] => p = q
    BY <2>2
  <2> HIDE DEF row
  <2>4. Cardinality(s) <= Cardinality(a)
    BY <1>6, <2>1, <2>3, InjectionBound
  <2>5. Cardinality(s) \in Nat /\ Cardinality(a) \in Nat
    BY <1>3, <1>6, FS_CardinalityType
  <2>6. QED
    BY <1>3, <1>4, <1>7, <2>4, <2>5
<1>8. QED
  BY <1>3, <1>4, <1>5, <1>6, <1>7 DEF P
-----------------------------------------------------------------------------
(* Addresses.                                                              *)

\* Powers of two are what they are called.
LEMMA Powers ==
    /\ PowerOfTwo \in [Nat -> Nat \ {0}] /\ PowerOfTwo[0] = 1
    /\ \A n \in Nat : PowerOfTwo[n + 1] = 2 * PowerOfTwo[n]
<1> DEFINE step == [p \in Nat \X (Nat \ {0}) |-> 2 * p[2]]
           P == Nat \ {0}
           Is(f) == f = [n \in Nat |-> IF n = 0 THEN 1 ELSE 2 * f[n - 1]]
<1>1. step \in [Nat \X P -> P]
  OBVIOUS
<1>2. 1 \in P
  OBVIOUS
<1> HIDE DEF step, P, Is
<1>3. PICK f \in [Nat -> P] : Recursive(f, 1, step)
  BY <1>1, <1>2, Recursion
<1>4. \A n \in Nat : f[n + 1] = 2 * f[n]
  BY <1>3 DEF step, P, Recursive
<1>5. ASSUME NEW n \in Nat PROVE f[n] = IF n = 0 THEN 1 ELSE 2 * f[n - 1]
  <2>1. CASE n = 0
    BY <1>3, <2>1 DEF Recursive
  <2>2. CASE n # 0
    <3>1. n - 1 \in Nat /\ n - 1 + 1 = n
      BY <2>2
    <3>2. QED
      BY <1>4, <2>2, <3>1
  <2>3. QED
    BY <2>1, <2>2
<1>6. Is(f)
  BY <1>3, <1>5 DEF Is
<1>7. Is(PowerOfTwo)
  <2>1. \E g : Is(g)
    BY <1>6
  <2>2. PowerOfTwo = CHOOSE g : Is(g)
    BY DEF PowerOfTwo, Is
  <2>3. QED
    BY <2>1, <2>2
<1> USE DEF Is
<1>8. PowerOfTwo[0] = 1
  BY <1>7
<1>9. ASSUME NEW n \in Nat PROVE PowerOfTwo[n + 1] = 2 * PowerOfTwo[n]
  BY <1>7, n + 1 \in Nat, n + 1 # 0, n + 1 - 1 = n
<1>10. DOMAIN PowerOfTwo = Nat /\ PowerOfTwo = [n \in Nat |-> PowerOfTwo[n]]
  BY <1>7
<1>11. \A n \in Nat : PowerOfTwo[n] \in Nat \ {0}
  <2> DEFINE T == {n \in Nat : PowerOfTwo[n] \in Nat \ {0}}
  <2>1. 0 \in T
    BY <1>8
  <2>2. ASSUME NEW n \in Nat, n \in T PROVE n + 1 \in T
    BY <1>9, <2>2
  <2> HIDE DEF T
  <2>3. Nat \subseteq T
    BY <2>1, <2>2, NatAll
  <2>4. QED
    BY <2>3 DEF T
<1>12. QED
  BY <1>8, <1>9, <1>10, <1>11

\* A power of a sum.
LEMMA PowerSum ==
    ASSUME NEW m \in Nat
    PROVE  \A n \in Nat : PowerOfTwo[m + n] = PowerOfTwo[m] * PowerOfTwo[n]
<1> DEFINE T == {n \in Nat : PowerOfTwo[m + n] = PowerOfTwo[m] * PowerOfTwo[n]}
<1>1. 0 \in T
  BY Powers
<1>2. ASSUME NEW n \in Nat, n \in T PROVE n + 1 \in T
  <2>1. m + n \in Nat /\ m + (n + 1) = (m + n) + 1
    OBVIOUS
  <2>2. /\ PowerOfTwo[m + (n + 1)] = 2 * PowerOfTwo[m + n]
        /\ PowerOfTwo[n + 1] = 2 * PowerOfTwo[n]
    BY <2>1, Powers
  <2>3. PowerOfTwo[m] \in Nat /\ PowerOfTwo[n] \in Nat
    BY Powers
  <2>4. PowerOfTwo[m + n] = PowerOfTwo[m] * PowerOfTwo[n]
    BY <1>2
  <2>5. \A x, y \in Nat : 2 * (x * y) = x * (2 * y)
    OBVIOUS
  <2>6. QED
    BY <2>2, <2>3, <2>4, <2>5
<1> HIDE DEF T
<1>3. Nat \subseteq T
  BY <1>1, <1>2, NatAll
<1>4. QED
  BY <1>3 DEF T

\* Dividing twice is dividing once.
LEMMA QuotientOfQuotient ==
    ASSUME NEW n \in Nat, NEW s \in Nat \ {0}, NEW t \in Nat \ {0}
    PROVE  n \div (s * t) = (n \div s) \div t
OBVIOUS

\* A number lies in one block of s numbers, that of its quotient.
LEMMA Quotients ==
    ASSUME NEW n \in Nat, NEW s \in Nat \ {0}
    PROVE  /\ n \div s \in Nat
           /\ n \in (n \div s) * s..(n \div s) * s + s - 1
           /\ \A q \in Nat : n \in q * s..q * s + s - 1 => q = n \div s
<1>1. n \div s \in Nat
  OBVIOUS
<1>2. n \in (n \div s) * s..(n \div s) * s + s - 1
  OBVIOUS
<1>3. \A q \in Nat : n \in q * s..q * s + s - 1 => q = n \div s
  OBVIOUS
<1>4. QED
  BY <1>1, <1>2, <1>3

\* The addresses of a network are those that begin as its own does.
LEMMA InNetworkIs ==
    ASSUME NEW q, IsIndicator(q), NEW v, IsIndicator(v), q.kind \in Networks, v.kind = q.kind
    PROVE  InNetwork(q, v) <=> SamePrefix(v, q, q.len)
<1> DEFINE s == PowerOfTwo[Width[q.kind] - q.len]
<1>1. Width[q.kind] \in Nat /\ q.len \in 0..Width[q.kind] /\ q.addr \in Nat /\ v.addr \in Nat
  BY SearchAssumption DEF IsIndicator
<1>2. s \in Nat \ {0}
  BY <1>1, Powers
<1>3. /\ NetworkAddress(q) = (q.addr \div s) * s
      /\ BroadcastAddress(q) = (q.addr \div s) * s + s - 1
  BY DEF NetworkAddress, BroadcastAddress, Size
<1> HIDE DEF s
<1>4. v.addr \in (q.addr \div s) * s..(q.addr \div s) * s + s - 1
      <=> v.addr \div s = q.addr \div s
  <2>1. q.addr \div s \in Nat
    BY <1>1, <1>2, Quotients
  <2>2. v.addr \in (v.addr \div s) * s..(v.addr \div s) * s + s - 1
    BY <1>1, <1>2, Quotients
  <2>3. v.addr \in (q.addr \div s) * s..(q.addr \div s) * s + s - 1
        => q.addr \div s = v.addr \div s
    BY <1>1, <1>2, <2>1, Quotients
  <2>4. QED
    BY <2>2, <2>3
<1>5. QED
  BY <1>3, <1>4 DEF InNetwork, SamePrefix, s

\* What a search finds, by address or name, has to do with what it is for.
LEMMA MatchConcerns ==
    ASSUME NEW q, IsIndicator(q), NEW r, IsIndicator(r.value), Matches(q, r), NEW f
    PROVE  Concerns(r, q, f)
<1> DEFINE v == r.value
<1>1. CASE q.kind \in Networks /\ InNetwork(q, v)
  <2>1. v.kind = q.kind
    BY <1>1 DEF InNetwork
  <2>2. SamePrefix(v, q, q.len)
    BY <1>1, <2>1, InNetworkIs
  <2>3. CASE v.len >= q.len
    BY <1>1, <2>1, <2>2, <2>3 DEF Concerns, Overlap, Inside
  <2>4. CASE ~(v.len >= q.len)
    <3> DEFINE s == PowerOfTwo[Width[q.kind] - q.len]
               t == PowerOfTwo[q.len - v.len]
    <3>1. /\ Width[q.kind] \in Nat /\ q.len \in 0..Width[q.kind] /\ v.len \in 0..Width[q.kind]
          /\ q.addr \in Nat /\ v.addr \in Nat
      BY <1>1, <2>1, SearchAssumption DEF IsIndicator
    <3>2. /\ Width[q.kind] - q.len \in Nat /\ q.len - v.len \in Nat
          /\ (Width[q.kind] - q.len) + (q.len - v.len) = Width[q.kind] - v.len
      BY <2>4, <3>1
    <3>3. s \in Nat \ {0} /\ t \in Nat \ {0}
      BY <3>2, Powers
    <3>4. PowerOfTwo[Width[q.kind] - v.len] = s * t
      BY <3>2, PowerSum
    <3>5. v.addr \div s = q.addr \div s
      BY <2>1, <2>2 DEF SamePrefix
    <3> HIDE DEF s, t
    <3>6. q.addr \div (s * t) = v.addr \div (s * t)
      <4>1. /\ q.addr \div (s * t) = (q.addr \div s) \div t
            /\ v.addr \div (s * t) = (v.addr \div s) \div t
        BY <3>1, <3>3, QuotientOfQuotient, Zenon
      <4>2. QED
        BY <3>5, <4>1
    <3>7. SamePrefix(q, v, v.len)
      BY <2>1, <3>4, <3>6 DEF SamePrefix
    <3>8. q.len >= v.len
      BY <2>4, <3>1
    <3>9. Inside(q, v)
      BY <1>1, <2>1, <3>7, <3>8 DEF Inside
    <3>10. QED
      BY <3>9 DEF Concerns, Overlap
  <2>5. QED
    BY <2>3, <2>4
<1>2. CASE q.kind = "fqdn" /\ LikeName(q, v)
  BY <1>2 DEF LikeName, UnderName, Concerns, Overlap, Inside
<1>3. CASE v = q
  BY <1>3 DEF Concerns, Overlap, Inside
<1>4. CASE q.kind = "text" /\ Finds(q, r) # {}
  BY <1>4 DEF Concerns
<1>5. QED
  BY <1>1, <1>2, <1>3, <1>4 DEF Matches

\* A search finds whatever lies in what it is for, but for the types that it
\* has no table for.
LEMMA InsideMatches ==
    ASSUME NEW q, IsIndicator(q), Searchable(q), q.kind \notin Hashes \cup {"email"},
           NEW r, IsIndicator(r.value), r.value.kind # "text", Inside(r.value, q)
    PROVE  Matches(q, r)
<1> DEFINE v == r.value
<1>1. q.kind \in Networks \cup {"fqdn", "url", "text"}
  BY DEF IsIndicator, Searchable, Texts
<1>2. CASE v = q
  <2>1. CASE q.kind \in Networks
    BY <1>2, <2>1, InNetworkIs DEF Matches, SamePrefix
  <2>2. CASE q.kind = "fqdn"
    BY <1>2, <2>2 DEF Matches, LikeName, UnderName, IsPrefix
  <2>3. CASE q.kind = "url"
    BY <1>2, <2>3 DEF Matches
  <2>4. QED
    BY <1>1, <1>2, <2>1, <2>2, <2>3
<1>3. CASE q.kind \in Networks /\ v.kind = q.kind /\ SamePrefix(v, q, q.len)
  BY <1>3, InNetworkIs DEF Matches
<1>4. CASE q.kind = "fqdn" /\ v.kind = "fqdn" /\ IsPrefix(q.labels, v.labels)
  BY <1>4 DEF Matches, LikeName, UnderName
<1>5. QED
  BY <1>2, <1>3, <1>4 DEF Inside
-----------------------------------------------------------------------------
(* The table.                                                              *)

\* A row and what becomes of it when it is reported again.
Newer(o, r) == /\ DOMAIN o = DOMAIN r
               /\ \A f \in DOMAIN r \ {"reported_at", "messages"} : o[f] = r[f]
               /\ o.reported_at \in 0..r.reported_at

Whitelisted(table) == {r \in table : "whitelist" \in r.tags}

\* A row is a record at some time.
IsRow(r, time) == IsRecord(r) /\ "reported_at" \in DOMAIN r /\ r.reported_at \in 0..time

IsTable(table, time) ==
    IsFiniteSet(table) /\ (\A r \in table : IsRow(r, time)) /\ IsUnique(table)

\* Searches may have moved a row, by a log that failed or that it was taken for.
Disturbed(r) == r.value \in unlogged \/ ("search" \in r.tags /\ r.tags # {"search"})

\* Whatever a query for no tags can show was reported when it says it was.
TrueTimes == \A r \in rows : Ordinary(r.tags) # {} =>
                                <<r.value, r.reported_at>> \in reported \/ Disturbed(r)

TableInv == now \in 0..MaxNow /\ IsTable(rows, now) /\ TrueTimes

\* What upsert does to a table, as far as one can tell from the rows it had: none
\* is lost, and the whitelist does not shrink.
Grown(table, new, time) ==
    /\ IsTable(new, time)
    /\ \A o \in table : \E r \in new : Newer(o, r)
    /\ Cardinality(Whitelisted(table)) <= Cardinality(Whitelisted(new))

\* What the other clients' steps do to the table.
Grows == /\ now' \in Nat /\ now <= now' /\ Grown(rows, rows', now')
         /\ reported \subseteq reported' /\ unlogged \subseteq unlogged'

\* Records that differ in their times and messages at most are found by the
\* same reports.
SameElse(o, p) == /\ IsRecord(o) /\ IsRecord(p)
                  /\ DOMAIN o \cup {"reported_at"} = DOMAIN p \cup {"reported_at"}
                  /\ \A f \in DOMAIN p \ {"reported_at", "messages"} : o[f] = p[f]

LEMMA FoundAlike ==
    ASSUME NEW o, NEW p, SameElse(o, p), NEW q
    PROVE  (Again(o, q) <=> Again(p, q)) /\ (Again(q, o) <=> Again(q, p))
<1>1. /\ {"value", "provider", "tags"} \subseteq DOMAIN o \cap DOMAIN p
      /\ o.value = p.value /\ o.provider = p.provider /\ o.tags = p.tags
  BY DEF SameElse, IsRecord, HasValue
<1>2. ("rdata" \in DOMAIN o <=> "rdata" \in DOMAIN p) /\ ("rdata" \in DOMAIN o => o.rdata = p.rdata)
  BY DEF SameElse
<1>3. o.tags # {} => o.first = p.first
  BY <1>1 DEF SameElse, IsRecord, HasTags
<1>4. QED
  BY <1>1, <1>2, <1>3 DEF Again

\* Messages after messages.
LEMMA MessagesAre ==
    ASSUME NEW s \in Seq(Messages), NEW t \in Seq(Messages)
    PROVE  s \o t \in Seq(Messages)
OBVIOUS

\* A row that moves to a later time, and takes a message.
LEMMA RenewedIs ==
    ASSUME NEW time \in Nat, NEW o, IsRow(o, time), NEW b, IsRow(b, time),
           b.reported_at = time, NEW p, p = Renewed(o, b)
    PROVE  IsRow(p, time) /\ Newer(o, p) /\ SameElse(o, p) /\ p.reported_at = time
<1>1. /\ DOMAIN p = DOMAIN o /\ p = [k \in DOMAIN p |-> p[k]]
      /\ \A f \in DOMAIN p \ {"reported_at", "messages"} : p[f] = o[f]
      /\ p.reported_at = time /\ p.messages = o.messages \o b.messages
  BY DEF IsRow, IsRecord, Renewed
<1>1a. p.messages \in Seq(Messages)
  BY <1>1, MessagesAre DEF IsRow, IsRecord
<1>2. IsRecord(p)
  BY <1>1, <1>1a DEF IsRow, IsRecord, HasValue, HasTags
<1>3. IsRow(p, time)
  BY <1>1, <1>2 DEF IsRow
<1>4. Newer(o, p)
  BY <1>1 DEF IsRow, Newer
<1>5. SameElse(o, p)
  BY <1>1, <1>2 DEF IsRow, SameElse
<1>6. QED
  BY <1>1, <1>3, <1>4, <1>5

\* A row stands for a report of this time.
AsNow(r, b, time) == /\ r.value = b.value /\ r.provider = b.provider /\ r.reported_at = time
                     /\ b.tags # {} => b.first \in r.tags

\* One report is written.
LEMMA UpsertGrows ==
    ASSUME NEW time \in Nat, NEW table, IsTable(table, time),
           NEW b, IsRow(b, time), b.reported_at = time, NEW new \in Upsert(table, b)
    PROVE  /\ Grown(table, new, time)
           /\ \A r \in new : r \in table \/ AsNow(r, b, time)
           /\ \E r \in new : AsNow(r, b, time)
<1> DEFINE known == {o \in table : Again(o, b)}
<1>1. IsFiniteSet(table) /\ (\A r \in table : IsRow(r, time) /\ Newer(r, r)) /\ IsUnique(table)
  BY DEF IsTable, IsRow, Newer
<1>2. CASE known = {}
  <2>1. new = table \cup {b}
    BY <1>2 DEF Upsert
  <2>2. \A r \in new : IsRow(r, time)
    BY <1>1, <2>1
  <2>3. IsFiniteSet(new)
    BY <1>1, <2>1, FS_AddElement
  <2>4. IsUnique(new)
    BY <1>1, <1>2, <2>1 DEF IsUnique
  <2>5. Cardinality(Whitelisted(table)) <= Cardinality(Whitelisted(new))
    <3>1. IsFiniteSet(Whitelisted(new)) /\ Whitelisted(table) \subseteq Whitelisted(new)
      BY <2>1, <2>3, FS_Subset DEF Whitelisted
    <3>2. QED
      BY <3>1, FS_Subset
  <2>6. AsNow(b, b, time)
    BY DEF AsNow, IsRow, IsRecord, HasTags
  <2>7. QED
    BY <1>1, <2>1, <2>2, <2>3, <2>4, <2>5, <2>6 DEF Grown, IsTable
<1>3. CASE known # {}
  <2>1. PICK o \in known : new = (table \ {o}) \cup {Renewed(o, b)}
    BY <1>3 DEF Upsert
  <2>2. PICK p : p = Renewed(o, b)
    OBVIOUS
  <2>3. new = (table \ {o}) \cup {p} /\ o \in table /\ Again(o, b)
    BY <2>1, <2>2
  <2> HIDE DEF known
  <2>4. IsRow(o, time) /\ IsRow(p, time) /\ Newer(o, p) /\ SameElse(o, p) /\ p.reported_at = time
    BY <1>1, <2>2, <2>3, RenewedIs
  <2>5. \A q : (Again(o, q) <=> Again(p, q)) /\ (Again(q, o) <=> Again(q, p))
    BY <2>4, FoundAlike
\* Nothing stands where the row moves to.
  <2>6. p \notin table \ {o}
    <3>1. Again(o, o)
      BY <2>3, <2>4 DEF Again, IsRow, IsRecord, HasTags
    <3>2. Again(o, p) /\ Again(p, o)
      BY <2>5, <3>1
    <3>3. QED
      BY <1>1, <2>3, <3>2 DEF IsUnique
  <2>7. IsFiniteSet(new)
    BY <1>1, <2>3, FS_RemoveElement, FS_AddElement
  <2>8. IsUnique(new)
    BY <1>1, <2>3, <2>5 DEF IsUnique
  <2>9. o.tags = p.tags /\ o.value = p.value /\ o.provider = p.provider
    BY <2>4 DEF SameElse, IsRecord, HasValue
  <2>10. Cardinality(Whitelisted(table)) <= Cardinality(Whitelisted(new))
    <3> DEFINE f == [x \in Whitelisted(table) |-> IF x = o THEN p ELSE x]
    <3>1. IsFiniteSet(Whitelisted(new))
      BY <2>7, FS_Subset DEF Whitelisted
    <3>2. \A x \in Whitelisted(table) : f[x] \in Whitelisted(new)
      BY <2>3, <2>9 DEF Whitelisted
    <3>3. \A x, y \in Whitelisted(table) : f[x] = f[y] => x = y
      BY <2>6 DEF Whitelisted
    <3> HIDE DEF f
    <3>4. QED
      BY <3>1, <3>2, <3>3, InjectionBound
  <2>11. AsNow(p, b, time)
    BY <2>3, <2>4, <2>9 DEF AsNow, Again
  <2>12. \A r \in new : IsRow(r, time)
    BY <1>1, <2>3, <2>4
  <2>13. \A x \in table : \E r \in new : Newer(x, r)
    BY <1>1, <2>3, <2>4
  <2>14. QED
    BY <2>3, <2>7, <2>8, <2>10, <2>11, <2>12, <2>13 DEF Grown, IsTable
<1>4. QED
  BY <1>2, <1>3

\* Growing is reflexive and transitive.
LEMMA GrownSelf ==
    ASSUME NEW time \in Nat, NEW table, IsTable(table, time)
    PROVE  Grown(table, table, time)
<1>1. \A r \in table : Newer(r, r)
  BY DEF IsTable, IsRow, Newer
<1>2. IsFiniteSet(Whitelisted(table))
  BY FS_Subset DEF Whitelisted, IsTable
<1>3. QED
  BY <1>1, <1>2, FS_CardinalityType DEF Grown

\* What is newer than the newer is newer.
LEMMA NewerStill ==
    ASSUME NEW k, NEW o, NEW r, Newer(k, o), Newer(o, r), o.reported_at \in Nat,
           r.reported_at \in Nat
    PROVE  Newer(k, r)
BY DEF Newer

LEMMA GrownTwice ==
    ASSUME NEW time \in Nat, NEW table, NEW mid, NEW new, IsTable(table, time),
           Grown(table, mid, time), Grown(mid, new, time)
    PROVE  Grown(table, new, time)
<1>1. /\ \A r \in mid : r.reported_at \in Nat
      /\ \A r \in new : r.reported_at \in Nat
  BY DEF Grown, IsTable, IsRow
<1>2. \A o \in table : \E r \in new : Newer(o, r)
  BY <1>1, NewerStill DEF Grown
<1>3. /\ Cardinality(Whitelisted(table)) \in Nat /\ Cardinality(Whitelisted(mid)) \in Nat
      /\ Cardinality(Whitelisted(new)) \in Nat
  BY FS_Subset, FS_CardinalityType DEF Whitelisted, Grown, IsTable
<1>4. QED
  BY <1>2, <1>3 DEF Grown

\* A report as it is taken, and one report of a batch.
Taken(r, alone) == IF alone THEN [r EXCEPT !.tags = {}] ELSE r

LEMMA TakeGrows ==
    ASSUME NEW time \in Nat, NEW table, IsTable(table, time), NEW alone \in BOOLEAN,
           NEW b, IsRow(b, time), b.reported_at = time, NEW new \in Take(table, b, alone)
    PROVE  /\ Grown(table, new, time)
           /\ \A r \in new : r \in table \/ AsNow(r, Taken(b, alone), time)
           /\ ~alone => \E r \in new : AsNow(r, b, time)
<1>1. CASE ~alone
  BY <1>1, UpsertGrows DEF Take, Taken
<1>2. CASE alone /\ new = table
  BY <1>2, GrownSelf
<1>3. CASE alone /\ new \in Upsert(table, [b EXCEPT !.tags = {}])
  <2>1. PICK u : u = [b EXCEPT !.tags = {}]
    OBVIOUS
  <2>2. /\ DOMAIN u = DOMAIN b /\ u = [k \in DOMAIN u |-> u[k]] /\ u.tags = {}
        /\ \A f \in DOMAIN u \ {"tags"} : u[f] = b[f]
    BY <2>1 DEF IsRow, IsRecord
  <2>3. IsRow(u, time) /\ u.reported_at = time
    BY <2>2 DEF IsRow, IsRecord, HasValue
  <2>4. \A r \in new : r \in table \/ AsNow(r, u, time)
    BY <1>3, <2>1, <2>3, UpsertGrows
  <2>5. Grown(table, new, time)
    BY <1>3, <2>1, <2>3, UpsertGrows
  <2>6. QED
    BY <1>3, <2>1, <2>4, <2>5 DEF Taken
<1>4. QED
  BY <1>1, <1>2, <1>3 DEF Take

\* Reports of this moment, one after the other.
Batch(reports, time) ==
    /\ Len(reports) \in Nat
    /\ \A n \in 1..Len(reports) : IsRow(reports[n], time) /\ reports[n].reported_at = time

\* The tables that a batch leads to. They are all made of the rows that were
\* there, what was reported and what either becomes.
Steps(after, table, reports, alone) ==
    after = [n \in 0..Len(reports) |->
                IF n = 0 THEN {table}
                ELSE UNION {Take(t, reports[n], alone) : t \in after[n - 1]}]

\* A row with another time and other messages.
Stamped(o, time, messages) == [o EXCEPT !.reported_at = time, !.messages = messages]

LEMMA StampedIs ==
    ASSUME NEW o, {"reported_at", "messages"} \subseteq DOMAIN o, NEW time, NEW s
    PROVE  /\ DOMAIN Stamped(o, time, s) = DOMAIN o
           /\ Stamped(o, time, s).reported_at = time /\ Stamped(o, time, s).messages = s
           /\ \A k \in DOMAIN o \ {"reported_at", "messages"} : Stamped(o, time, s)[k] = o[k]
           /\ \A t, u : Stamped(Stamped(o, t, u), time, s) = Stamped(o, time, s)
<1>1. ASSUME NEW t, NEW u
      PROVE  /\ DOMAIN Stamped(o, t, u) = DOMAIN o
             /\ Stamped(o, t, u).reported_at = t /\ Stamped(o, t, u).messages = u
             /\ \A k \in DOMAIN o \ {"reported_at", "messages"} : Stamped(o, t, u)[k] = o[k]
  BY DEF Stamped
<1>2. ASSUME NEW t, NEW u PROVE Stamped(Stamped(o, t, u), time, s) = Stamped(o, time, s)
  BY <1>1 DEF Stamped
<1>3. QED
  BY <1>1, <1>2

LEMMA StepsExist ==
    ASSUME NEW time \in Nat, NEW table, IsTable(table, time),
           NEW reports, Batch(reports, time), NEW alone \in BOOLEAN
    PROVE  \E after : Steps(after, table, reports, alone)
<1> DEFINE L == Len(reports)
           X == table \cup {reports[n] : n \in 1..L} \cup {[reports[n] EXCEPT !.tags = {}] : n \in 1..L}
           W == X \cup {Stamped(p[1], time, p[2]) : p \in X \X Seq(Messages)}
           S == SUBSET SUBSET W
           next(n, s) == UNION {Take(t, reports[n], alone) : t \in s}
           step == [p \in Nat \X S |-> IF p[1] + 1 <= L THEN next(p[1] + 1, p[2]) ELSE p[2]]
<1>1. L \in Nat /\ \A n \in 1..L : reports[n].reported_at = time
  BY DEF Batch
<1>2a. ASSUME NEW x \in X PROVE IsRecord(x) /\ "reported_at" \in DOMAIN x
  <2>1. CASE x \in table
    BY <2>1 DEF IsTable, IsRow
  <2>2. CASE x \in {reports[n] : n \in 1..L}
    BY <2>2 DEF Batch, IsRow
  <2>3. CASE x \in {[reports[n] EXCEPT !.tags = {}] : n \in 1..L}
    <3>1. PICK n \in 1..L : x = [reports[n] EXCEPT !.tags = {}]
      BY <2>3
    <3>2. IsRow(reports[n], time)
      BY DEF Batch
    <3>3. /\ DOMAIN x = DOMAIN reports[n] /\ x = [k \in DOMAIN x |-> x[k]] /\ x.tags = {}
          /\ \A f \in DOMAIN x \ {"tags"} : x[f] = reports[n][f]
      BY <3>1, <3>2 DEF IsRow, IsRecord
    <3>4. QED
      BY <3>2, <3>3 DEF IsRow, IsRecord, HasValue
  <2>4. QED
    BY <2>1, <2>2, <2>3
<1> HIDE DEF X
<1>2. ASSUME NEW o \in W, NEW b \in W, b.reported_at = time
      PROVE  b.messages \in Seq(Messages) /\ Renewed(o, b) \in W
  <2>1. ASSUME NEW w \in W
        PROVE  /\ w.messages \in Seq(Messages)
               /\ \A s \in Seq(Messages) : Stamped(w, time, s) \in W
    <3>1. CASE w \in X
      <4>1. w.messages \in Seq(Messages)
        BY <1>2a, <3>1 DEF IsRecord
      <4>2. ASSUME NEW s \in Seq(Messages) PROVE Stamped(w, time, s) \in W
        <5>1. <<w, s>> \in X \X Seq(Messages) /\ <<w, s>>[1] = w /\ <<w, s>>[2] = s
          BY <3>1
        <5>2. QED
          BY <5>1
      <4>3. QED
        BY <4>1, <4>2
    <3>2. CASE w \notin X
      <4>1. PICK p \in X \X Seq(Messages) : w = Stamped(p[1], time, p[2])
        BY <3>2
      <4>2. p[1] \in X /\ p[2] \in Seq(Messages)
        BY <4>1
      <4>3. {"messages", "reported_at"} \subseteq DOMAIN p[1]
        BY <1>2a, <4>2 DEF IsRecord
      <4>4. w.messages = p[2]
        BY <4>1, <4>3, StampedIs
      <4>5. ASSUME NEW s \in Seq(Messages) PROVE Stamped(w, time, s) \in W
        <5>1. Stamped(w, time, s) = Stamped(p[1], time, s)
          BY <4>1, <4>3, StampedIs
        <5>2. <<p[1], s>> \in X \X Seq(Messages)
              /\ <<p[1], s>>[1] = p[1] /\ <<p[1], s>>[2] = s
          BY <4>2
        <5>3. QED
          BY <5>1, <5>2
      <4>6. QED
        BY <4>2, <4>4, <4>5
    <3>3. QED
      BY <3>1, <3>2
  <2> HIDE DEF W
  <2>2. o.messages \o b.messages \in Seq(Messages)
    BY <2>1, MessagesAre
  <2>3. Renewed(o, b) = Stamped(o, time, o.messages \o b.messages)
    BY <1>2 DEF Renewed, Stamped
  <2>4. QED
    BY <2>1, <2>2, <2>3
<1>3. ASSUME NEW n \in 1..L
      PROVE  /\ reports[n] \in W /\ [reports[n] EXCEPT !.tags = {}] \in W
             /\ reports[n].reported_at = time
             /\ [reports[n] EXCEPT !.tags = {}].reported_at = time
  <2>1. IsRow(reports[n], time) /\ reports[n].reported_at = time
    BY DEF Batch
  <2>2. reports[n] \in W /\ [reports[n] EXCEPT !.tags = {}] \in W
    BY DEF X
  <2>3. [reports[n] EXCEPT !.tags = {}].reported_at = time
    BY <2>1 DEF IsRow
  <2>4. QED
    BY <2>1, <2>2, <2>3
<1> HIDE DEF W
<1>4. ASSUME NEW t \in SUBSET W, NEW b \in W, b.reported_at = time
      PROVE  Upsert(t, b) \subseteq SUBSET W
  <2>1. ASSUME NEW o \in t PROVE (t \ {o}) \cup {Renewed(o, b)} \in SUBSET W
    BY <1>2, <1>4
  <2>2. QED
    BY <1>4, <2>1 DEF Upsert
<1>5. ASSUME NEW t \in SUBSET W, NEW n \in 1..L PROVE Take(t, reports[n], alone) \subseteq SUBSET W
  <2>1. Upsert(t, reports[n]) \subseteq SUBSET W
    BY <1>3, <1>4
  <2>2. Upsert(t, [reports[n] EXCEPT !.tags = {}]) \subseteq SUBSET W
    BY <1>3, <1>4
  <2>3. QED
    BY <2>1, <2>2 DEF Take
<1>6. ASSUME NEW s \in S, NEW n \in 1..L PROVE next(n, s) \in S
  <2>1. \A t \in s : t \in SUBSET W
    OBVIOUS
  <2>2. \A t \in s : Take(t, reports[n], alone) \subseteq SUBSET W
    BY <1>5, <2>1
  <2>3. QED
    BY <2>2
<1> HIDE DEF next
<1>7. step \in [Nat \X S -> S]
  <2> SUFFICES ASSUME NEW p \in Nat \X S
               PROVE  (IF p[1] + 1 <= L THEN next(p[1] + 1, p[2]) ELSE p[2]) \in S
    OBVIOUS
  <2>1. p[1] \in Nat /\ p[2] \in S
    OBVIOUS
  <2> HIDE DEF S
  <2>2. CASE p[1] + 1 <= L
    BY <1>1, <1>6, <2>1, <2>2
  <2>3. QED
    BY <2>1, <2>2
<1>8. {table} \in S
  <2>1. table \subseteq W
    BY DEF W, X
  <2>2. QED
    BY <2>1
<1> HIDE DEF S, step
<1>9. PICK f \in [Nat -> S] : Recursive(f, {table}, step)
  BY <1>7, <1>8, Recursion
<1> DEFINE after == [n \in 0..L |-> f[n]]
<1>10. ASSUME NEW n \in 0..L, n # 0 PROVE f[n] = next(n, f[n - 1])
  <2>1. n - 1 \in Nat /\ n - 1 + 1 = n
    BY <1>1, <1>10
  <2>2. f[n] = step[<<n - 1, f[n - 1]>>] /\ f[n - 1] \in S
    BY <1>9, <2>1 DEF Recursive
  <2>3. step[<<n - 1, f[n - 1]>>] = next(n - 1 + 1, f[n - 1])
    BY <1>1, <1>10, <2>1, <2>2 DEF step
  <2>4. QED
    BY <2>1, <2>2, <2>3
<1>11. f[0] = {table}
  BY <1>9 DEF Recursive
<1>12. ASSUME NEW n \in 0..L
       PROVE  after[n] = IF n = 0 THEN {table}
                         ELSE UNION {Take(t, reports[n], alone) : t \in after[n - 1]}
  <2>1. CASE n = 0
    BY <1>1, <1>11, <2>1
  <2>2. CASE n # 0
    <3>1. n - 1 \in 0..L
      BY <1>1, <2>2
    <3>2. after[n] = next(n, after[n - 1])
      BY <1>10, <2>2, <3>1
    <3>3. QED
      BY <2>2, <3>2 DEF next
  <2>3. QED
    BY <2>1, <2>2
<1>13. Steps(after, table, reports, alone)
  BY <1>12 DEF Steps
<1>14. QED
  BY <1>13

\* A batch is written.
LEMMA BatchGrows ==
    ASSUME NEW time \in Nat, NEW table, IsTable(table, time), NEW alone \in BOOLEAN,
           NEW reports, Batch(reports, time), NEW new \in UpsertAll(table, reports, alone)
    PROVE  /\ Grown(table, new, time)
           /\ \A r \in new : \/ r \in table
                             \/ \E n \in 1..Len(reports) : AsNow(r, Taken(reports[n], alone), time)
           /\ ~alone => \A n \in 1..Len(reports) : \E r \in new : AsNow(r, reports[n], time)
<1> DEFINE Known(t, n) == \A r \in t : \/ r \in table
                                       \/ \E k \in 1..n : AsNow(r, Taken(reports[k], alone), time)
           Told(t, n) == ~alone => \A k \in 1..n : \E r \in t : AsNow(r, reports[k], time)
<1>1. PICK after : Steps(after, table, reports, alone) /\ new \in after[Len(reports)]
  <2>1. UpsertAll(table, reports, alone) =
            (CHOOSE f : Steps(f, table, reports, alone))[Len(reports)]
    BY DEF UpsertAll, Steps
  <2>2. Steps(CHOOSE f : Steps(f, table, reports, alone), table, reports, alone)
    BY StepsExist
  <2>3. QED
    BY <2>1, <2>2
<1>2. Len(reports) \in Nat
  BY DEF Batch
<1>2a. after[0] = {table}
  BY <1>1, <1>2 DEF Steps
<1>2b. \A n \in 1..Len(reports) :
          after[n] = UNION {Take(t, reports[n], alone) : t \in after[n - 1]}
  <2> SUFFICES ASSUME NEW n \in 1..Len(reports)
               PROVE  after[n] = UNION {Take(t, reports[n], alone) : t \in after[n - 1]}
    OBVIOUS
  <2>1. n \in 0..Len(reports) /\ n # 0
    BY <1>2
  <2>2. QED
    BY <1>1, <2>1 DEF Steps
<1> DEFINE P(n) == \A t \in after[n] : Grown(table, t, time) /\ Known(t, n) /\ Told(t, n)
           T == {n \in Nat : n <= Len(reports) => P(n)}
<1>3. 0 \in T
  BY <1>2, <1>2a, GrownSelf
<1>4. ASSUME NEW n \in Nat, n \in T PROVE n + 1 \in T
  <2>1. SUFFICES ASSUME n + 1 <= Len(reports), NEW u \in after[n + 1]
                 PROVE  Grown(table, u, time) /\ Known(u, n + 1) /\ Told(u, n + 1)
    OBVIOUS
  <2>2. P(n) /\ n + 1 \in 1..Len(reports) /\ n + 1 - 1 = n
    BY <1>2, <1>4, <2>1
  <2> DEFINE b == reports[n + 1]
  <2>3. PICK t \in after[n] : u \in Take(t, b, alone)
    BY <1>2, <1>2b, <2>1, <2>2
  <2>4. Grown(table, t, time) /\ Known(t, n) /\ Told(t, n)
    BY <2>2
  <2>5. IsTable(t, time) /\ IsRow(b, time) /\ b.reported_at = time
    BY <2>2, <2>4 DEF Grown, Batch
  <2>6. /\ Grown(t, u, time)
        /\ \A r \in u : r \in t \/ AsNow(r, Taken(b, alone), time)
        /\ ~alone => \E r \in u : AsNow(r, b, time)
    BY <2>3, <2>5, TakeGrows
  <2> HIDE DEF P, T
  <2>7. Grown(table, u, time)
    BY <2>4, <2>6, GrownTwice
  <2>8. Known(u, n + 1)
    BY <2>4, <2>6
  <2>9. ASSUME ~alone, NEW k \in 1..(n + 1) PROVE \E r \in u : AsNow(r, reports[k], time)
    <3>1. CASE k = n + 1
      BY <2>6, <2>9, <3>1
    <3>2. CASE k # n + 1
      <4>1. k \in 1..n
        BY <2>9, <3>2
      <4>2. PICK o \in t : AsNow(o, reports[k], time)
        BY <2>4, <2>9, <4>1
      <4>3. PICK r \in u : Newer(o, r)
        BY <2>6 DEF Grown
      <4>4. r.reported_at \in 0..time /\ IsRecord(o) /\ IsRecord(r)
        BY <2>5, <2>6 DEF Grown, IsTable, IsRow
      <4>5. o.value = r.value /\ o.provider = r.provider /\ o.tags = r.tags
        BY <4>3, <4>4 DEF Newer, IsRecord, HasValue
      <4>6. r.reported_at = time
        BY <4>2, <4>3, <4>4 DEF AsNow, Newer
      <4>7. AsNow(r, reports[k], time)
        BY <4>2, <4>5, <4>6 DEF AsNow
      <4>8. QED
        BY <4>7
    <3>3. QED
      BY <3>1, <3>2
  <2>10. QED
    BY <2>7, <2>8, <2>9
<1> HIDE DEF T
<1>5. Nat \subseteq T
  BY <1>3, <1>4, NatAll
<1>6. P(Len(reports))
  BY <1>2, <1>5 DEF T
<1>7. QED
  BY <1>1, <1>6
-----------------------------------------------------------------------------
(* What a client has in hand, and what waits at the store.                 *)

\* Nobody is no record.
NobodyIsNoRecord == Nobody # [f \in DOMAIN Nobody |-> Nobody[f]]

Outcomes == {"ok", "invalid", "unauthorized", "failed"}

\* An answer came, and it was one.
Answered(j) == j.answer # Nobody /\ j.answer.outcome = "ok"

\* The whitelist's filters, as they were at the time they were made.
WhiteAt(f, time) ==
    Over([tags |-> {"whitelist"}, confidence |-> <<HTTPD_FEED_WHITELIST_CONFIDENCE>>,
          nolog |-> TRUE, limit |-> FEEDS_WHITELIST_LIMIT,
          reported_at |-> <<time - FEEDS_WHITELIST_DAYS * HoursPerDay>>], f)

\* A search for the n-th indicator asked for.
SearchFor(args, n) == Limited(Aimed(Without(args, {"no_feed"}), args.indicator[n]))

\* What is left of a list after the first n.
After(s, n) == [k \in 1..(Len(s) - n) |-> s[n + k]]

\* What every job is.
Fields == {"req", "filters", "left", "stage", "got", "answer", "known", "since"}
KnownStay(j) == \A k \in j.known : \E r \in rows : Newer(k, r)
Shaped(j) ==
    /\ j = [f \in DOMAIN j |-> j[f]] /\ Fields \subseteq DOMAIN j
    /\ j.req \in Requests /\ TokenOf(j.req) \in DOMAIN Rights
    /\ j.stage \in Stages /\ (j.stage # "search" => j.req.endpoint = "search")
    /\ j.since \in 0..now
    /\ j.answer # Nobody => j.answer.outcome \in Outcomes
    /\ j.req.endpoint # "search" => j.left = <<>>
    /\ KnownStay(j)

\* What feeds know: that they asked as they were told, that what they got was
\* reported, and that the whitelist was complete.
FeedFilter(j) ==
    LET f == j.filters
        args == j.req.args
        oldest == Oldest(args, j.since)
    IN  /\ "indicator" \notin DOMAIN f /\ oldest \in Int
        /\ "tags" \in DOMAIN f => "tags" \in DOMAIN args
        /\ LimitOf(f) \in Nat
        /\ IF "reported_at" \in DOMAIN f
           THEN f.reported_at[1] \in Int /\ oldest <= f.reported_at[1] ELSE oldest <= 0

WasReported(j, data) ==
    "tags" \notin DOMAIN j.req.args =>
        \A r \in data : \/ \E t \in Oldest(j.req.args, j.since)..now : <<r.value, t>> \in reported
                        \/ Disturbed(r)

Listed(j, w) ==
    /\ "whitelist" \in w.tags
    /\ w.confidence >= HTTPD_FEED_WHITELIST_CONFIDENCE
    /\ w.reported_at >= now - FEEDS_WHITELIST_DAYS * HoursPerDay
    /\ PassesTerms(w, Without(j.filters, {"confidence", "reported_at"}))
    /\ InGroups(w, j.filters, GroupsOf(j))

AllListed(j, data) ==
    Cardinality(Whitelisted(rows)) <= FEEDS_WHITELIST_LIMIT =>
        \A w \in j.known : Listed(j, w) => \E x \in data : x.value = w.value

FeedFacts(j) ==
    /\ FeedFilter(j)
    /\ j.stage = "feed" /\ Answered(j) => WasReported(j, j.answer.data)
    /\ j.stage = "whitelist" => WasReported(j, j.got)
    /\ j.stage = "whitelist" /\ Answered(j) => AllListed(j, j.answer.data)

\* What searches know: that what they got was sought, and all of it, and that
\* they left a trace. They have asked for d of their indicators.
Alike(r, k) == /\ DOMAIN r = DOMAIN k
               /\ \A f \in DOMAIN r \ {"reported_at", "messages"} : r[f] = k[f]

Sought(j, k, q) ==
    /\ Inside(k.value, q) /\ q.kind \notin Hashes \cup {"email"}
    /\ PassesTerms(k, Without(j.filters, {"reported_at"}))
    /\ InGroups(k, j.filters, GroupsOf(j))
    /\ \A f \in {"tags", "reported_at"} : f \notin DOMAIN j.filters

AllSought(j, q, data) ==
    Cardinality(data) < LimitOf(j.filters) =>
        \A k \in j.known : Sought(j, k, q) => \E r \in data : Alike(r, k)

Traced(j, v) ==
    "nolog" \notin DOMAIN j.filters =>
        \/ v = Blank \/ Wild(v) \/ v \in unlogged
        \/ \E r \in rows : /\ r.value = v /\ "search" \in r.tags
                           /\ r.provider = Users[TokenOf(j.req)].username
                           /\ r.reported_at >= j.since

\* A row that the n-th of the indicators may be answered with.
Own(j, r, n) == /\ InGroups(r, j.req.args, GroupsOf(j))
                /\ Concerns(r, j.req.args.indicator[n], j.req.args)

SearchedTo(j, d) ==
    LET ind == j.req.args.indicator
    IN  /\ j.left = After(ind, d)
        /\ j.filters = SearchFor(j.req.args, d)
        /\ IsFiniteSet(j.got)
        /\ \A r \in j.got : \E n \in 1..Len(ind) : Own(j, r, n)
        /\ \A n \in 1..(d - 1) : AllSought(j, ind[n], j.got) /\ Traced(j, ind[n])
        /\ Answered(j) => /\ IsFiniteSet(j.answer.data)
                          /\ \A r \in j.answer.data : Own(j, r, d)
                          /\ AllSought(j, ind[d], j.answer.data) /\ Traced(j, ind[d])

SearchFacts(j) ==
    IF "indicator" \in DOMAIN j.req.args
    THEN \E d \in 1..Len(j.req.args.indicator) : SearchedTo(j, d)
    ELSE j.left = <<>> /\ "indicator" \notin DOMAIN j.filters

JobFacts(j) ==
    /\ Shaped(j)
    /\ j.stage # "search" => FeedFacts(j)
    /\ j.stage = "search" /\ j.req.endpoint = "search" => SearchFacts(j)

\* A list of reports.
AreReports(s) == /\ Len(s) \in Nat /\ s = [n \in 1..Len(s) |-> s[n]]
                 /\ \A n \in 1..Len(s) : IsReport(s[n])

\* A message, and whose it is.
IsMessage(m) ==
    /\ m = [f \in DOMAIN m |-> m[f]]
    /\ {"client", "token", "mtype", "body", "asked"} \subseteq DOMAIN m
    /\ m.client \in Clients \cup {Nobody}
    /\ m.token \in DOMAIN Rights /\ m.asked \in 0..now
    /\ m.mtype = "create" => AreReports(m.body)
    /\ m.mtype = "search" /\ "indicator" \in DOMAIN m.body => IsIndicator(m.body.indicator)

Carries(j, m) ==
    /\ m.token = TokenOf(j.req) /\ m.mtype = j.req.endpoint
    /\ j.req.endpoint = "search" =>
          m.body = IF j.stage = "whitelist" THEN WhiteAt(j.filters, m.asked) ELSE j.filters

LineInv ==
    /\ \E M : inbox \in Seq(M)
    /\ \A n \in DOMAIN inbox : \A m : m = inbox[n] =>
          /\ IsMessage(m)
          /\ m.client # Nobody =>
                \A j : j = job[m.client] => j # Nobody /\ j.answer = Nobody /\ Carries(j, m)
    /\ \A n, k \in DOMAIN inbox : inbox[n].client # Nobody /\ inbox[n].client = inbox[k].client
                                  => n = k

JobInv ==
    /\ job = [c \in Clients |-> job[c]]
    /\ \A c \in Clients : \A j : j = job[c] /\ j # Nobody => JobFacts(j)

AllInv == TableInv /\ LineInv /\ JobInv /\ made \in 0..MaxRequests

-----------------------------------------------------------------------------
(* What is known stays known while the table grows.                        *)

\* A trace stays one: its row can only become more recent.
LEMMA TracedStill ==
    ASSUME TableInv, Grows, NEW j, j.since \in 0..now, NEW v, Traced(j, v)
    PROVE  Traced(j, v)'
<1>1. /\ \A o \in rows : \E r \in rows' : Newer(o, r)
      /\ \A r \in rows' : r.reported_at \in Nat /\ {"value", "provider", "tags"} \subseteq DOMAIN r
      /\ now' \in Nat
  BY DEF TableInv, Grows, Grown, IsTable, IsRow, IsRecord, HasValue
<1>2. ASSUME NEW o \in rows, o.value = v, "search" \in o.tags,
             o.provider = Users[TokenOf(j.req)].username, o.reported_at >= j.since
      PROVE  \E r \in rows' : /\ r.value = v /\ "search" \in r.tags
                              /\ r.provider = Users[TokenOf(j.req)].username
                              /\ r.reported_at >= j.since
  <2>1. PICK r \in rows' : Newer(o, r)
    BY <1>1
  <2>2. o.value = r.value /\ o.provider = r.provider /\ o.tags = r.tags
    BY <1>1, <2>1 DEF Newer
  <2>3. r.reported_at >= j.since
    BY <1>1, <1>2, <2>1 DEF Newer
  <2>4. QED
    BY <1>2, <2>2, <2>3
<1>3. QED
  BY <1>2 DEF Traced, Grows

\* What a client knows stays true while others write.
LEMMA FactsStay ==
    ASSUME TableInv, Grows, NEW j, JobFacts(j)
    PROVE  JobFacts(j)'
<1>1. /\ now \in Nat /\ now' \in Nat /\ now <= now'
      /\ \A r \in rows : IsRow(r, now)
      /\ \A r \in rows' : IsRow(r, now')
      /\ \A o \in rows : \E r \in rows' : Newer(o, r)
      /\ reported \subseteq reported' /\ unlogged \subseteq unlogged'
  BY QueriesAssumption DEF TableInv, Grows, Grown, IsTable
<1>2. /\ \A r \in rows : r.reported_at \in Nat
      /\ \A r \in rows' : r.reported_at \in Nat /\ {"value", "provider", "tags"} \subseteq DOMAIN r
  BY <1>1 DEF IsRow, IsRecord, HasValue
<1>3. Shaped(j)'
  <2>1. KnownStay(j)'
    <3> SUFFICES ASSUME NEW k \in j.known PROVE \E r \in rows' : Newer(k, r)
      BY DEF KnownStay
    <3>1. PICK o \in rows : Newer(k, o)
      BY DEF JobFacts, Shaped, KnownStay
    <3>2. PICK r \in rows' : Newer(o, r)
      BY <1>1
    <3>3. QED
      BY <1>2, <3>1, <3>2, NewerStill
  <2>2. QED
    BY <1>1, <2>1 DEF JobFacts, Shaped
<1>4. \A v : Traced(j, v) => Traced(j, v)'
  BY TracedStill DEF JobFacts, Shaped
<1>5. ASSUME SearchFacts(j) PROVE SearchFacts(j)'
  <2>1. ASSUME NEW d, SearchedTo(j, d) PROVE SearchedTo(j, d)'
    BY <1>4, <2>1 DEF SearchedTo, AllSought, Sought, Answered
  <2>2. QED
    BY <1>5, <2>1 DEF SearchFacts
<1>6. ASSUME FeedFacts(j) PROVE FeedFacts(j)'
  <2>1. ASSUME NEW data, WasReported(j, data) PROVE WasReported(j, data)'
    <3>1. Oldest(j.req.args, j.since) \in Int
      BY <1>6 DEF FeedFacts, FeedFilter
    <3>2. Oldest(j.req.args, j.since)..now \subseteq Oldest(j.req.args, j.since)..now'
      BY <1>1, <3>1
    <3>3. QED
      BY <1>1, <2>1, <3>2 DEF WasReported, Disturbed
  <2>2. ASSUME NEW w \in j.known, Listed(j, w)' PROVE Listed(j, w)
    <3>1. PICK r \in rows : Newer(w, r)
      BY DEF JobFacts, Shaped, KnownStay
    <3>2. w.reported_at \in Int
      BY <1>2, <3>1 DEF Newer
    <3>3. FEEDS_WHITELIST_DAYS * HoursPerDay \in Int
      BY QueriesAssumption
    <3>4. w.reported_at >= now' - FEEDS_WHITELIST_DAYS * HoursPerDay
      BY <2>2 DEF Listed
    <3>5. w.reported_at >= now - FEEDS_WHITELIST_DAYS * HoursPerDay
      BY <1>1, <3>2, <3>3, <3>4
    <3>6. QED
      BY <2>2, <3>5 DEF Listed
  <2>3. ASSUME NEW data, AllListed(j, data) PROVE AllListed(j, data)'
    <3>1. /\ Cardinality(Whitelisted(rows)) <= Cardinality(Whitelisted(rows'))
          /\ Cardinality(Whitelisted(rows)) \in Nat /\ Cardinality(Whitelisted(rows')) \in Nat
      <4>1. IsFiniteSet(Whitelisted(rows)) /\ IsFiniteSet(Whitelisted(rows'))
        BY FS_Subset DEF Whitelisted, TableInv, Grows, Grown, IsTable
      <4>2. QED
        BY <4>1, FS_CardinalityType DEF Grows, Grown
    <3>2. FEEDS_WHITELIST_LIMIT \in Nat
      BY QueriesAssumption
    <3>3. QED
      BY <2>2, <2>3, <3>1, <3>2 DEF AllListed
  <2>4. QED
    BY <1>6, <2>1, <2>3 DEF FeedFacts, FeedFilter, Answered
<1>7. QED
  BY <1>3, <1>5, <1>6 DEF JobFacts
-----------------------------------------------------------------------------
(* What a step does to a client and to the line.                           *)

\* Nothing is written.
LEMMA Idle ==
    ASSUME TableInv, UNCHANGED <<rows, reported, unlogged>>,
           now' = now \/ (now < MaxNow /\ now' = now + 1)
    PROVE  TableInv' /\ Grows
<1>1. now \in Nat /\ MaxNow \in Nat /\ now' \in 0..MaxNow /\ now <= now' /\ now' \in Nat
  BY QueriesAssumption DEF TableInv
<1>2. ASSUME NEW r, IsRow(r, now) PROVE IsRow(r, now') /\ Newer(r, r)
  BY <1>1, <1>2 DEF IsRow, Newer
<1>3. IsTable(rows, now')
  BY <1>2 DEF TableInv, IsTable
<1>4. \A r \in rows : Newer(r, r)
  BY <1>2 DEF TableInv, IsTable
<1>5. Cardinality(Whitelisted(rows)) <= Cardinality(Whitelisted(rows))
  <2>1. IsFiniteSet(Whitelisted(rows))
    BY FS_Subset DEF Whitelisted, TableInv, IsTable
  <2>2. QED
    BY <2>1, FS_CardinalityType
<1>6. Grows
  BY <1>1, <1>3, <1>4, <1>5 DEF Grows, Grown
<1>7. TableInv'
  BY <1>1, <1>3 DEF TableInv, TrueTimes, Disturbed
<1>8. QED
  BY <1>6, <1>7

\* A message stays one.
LEMMA MessageStays ==
    ASSUME TableInv, Grows, NEW m, IsMessage(m)
    PROVE  IsMessage(m)'
<1>1. now \in Nat /\ now' \in Nat /\ now <= now'
  BY QueriesAssumption DEF TableInv, Grows
<1>2. QED
  BY <1>1 DEF IsMessage

\* Client c has nothing in line.
NotInLine(c) == \A n \in DOMAIN inbox : inbox[n].client # c

\* Who does not wait has nothing in line.
LEMMA IdleNotInLine ==
    ASSUME LineInv, NEW c \in Clients, job[c] = Nobody \/ job[c].answer # Nobody
    PROVE  NotInLine(c)
BY QueriesAssumption DEF LineInv, NotInLine

\* One client's step keeps what all the others know.
LEMMA OthersStay ==
    ASSUME TableInv, JobInv, Grows, NEW c, NEW j, job' = [job EXCEPT ![c] = j],
           j # Nobody => JobFacts(j)'
    PROVE  JobInv'
<1>1. job' = [b \in Clients |-> job'[b]]
  BY DEF JobInv
<1>2. ASSUME NEW b \in Clients, NEW i, i = job'[b], i # Nobody
      PROVE  JobFacts(i)'
  <2>1. CASE b = c
    BY <1>2, <2>1 DEF JobInv
  <2>2. CASE b # c
    <3>1. JobFacts(i)
      BY <1>2, <2>2 DEF JobInv
    <3>2. QED
      BY <3>1, FactsStay
  <2>3. QED
    BY <2>1, <2>2
<1>3. QED
  BY <1>1, <1>2 DEF JobInv

\* A client is told: nothing of it stays in line.
LEMMA Told ==
    ASSUME TableInv, LineInv, JobInv, Grows, NEW c \in Clients,
           job' = [job EXCEPT ![c] = Nobody],
           (NotInLine(c) /\ inbox' = inbox) \/ inbox' = Orphaned(c)
    PROVE  LineInv' /\ JobInv'
<1>1. JobInv'
  BY OthersStay
<1>2. PICK M : inbox \in Seq(M)
  BY DEF LineInv
<1>3. Nobody # c /\ job = [b \in Clients |-> job[b]]
  BY QueriesAssumption DEF JobInv
<1>4. /\ \E N : inbox' \in Seq(N)
      /\ DOMAIN inbox' = DOMAIN inbox
      /\ \A n \in DOMAIN inbox : inbox[n].client # c => inbox'[n] = inbox[n]
      /\ \A n \in DOMAIN inbox : inbox[n].client = c =>
            inbox'[n] = [inbox[n] EXCEPT !.client = Nobody]
  <2>1. CASE NotInLine(c) /\ inbox' = inbox
    BY <1>2, <2>1 DEF NotInLine
  <2>2. CASE inbox' = Orphaned(c)
    <3>1. inbox' \in Seq(M \cup {[m EXCEPT !.client = Nobody] : m \in M})
      BY <1>2, <2>2 DEF Orphaned
    <3>2. DOMAIN inbox' = DOMAIN inbox
      BY <2>2 DEF Orphaned
    <3>3. QED
      BY <2>2, <3>1, <3>2 DEF Orphaned
  <2>3. QED
    BY <2>1, <2>2
<1>5. ASSUME NEW n \in DOMAIN inbox', NEW m, m = inbox'[n]
      PROVE  /\ IsMessage(m)'
             /\ m.client # Nobody => /\ m = inbox[n] /\ m.client # c /\ m.client \in Clients
                                     /\ IsMessage(m)
  <2>1. PICK i : i = inbox[n]
    OBVIOUS
  <2>2. IsMessage(i) /\ IsMessage(i)'
    BY <1>4, <2>1, MessageStays DEF LineInv
  <2>3. CASE i.client # c
    BY <1>4, <1>5, <2>1, <2>2, <2>3 DEF IsMessage
  <2>4. CASE i.client = c
    <3>1. m = [i EXCEPT !.client = Nobody]
      BY <1>4, <1>5, <2>1, <2>4
    <3>2. IsMessage(m)' /\ m.client = Nobody
      BY <2>2, <3>1 DEF IsMessage
    <3>3. QED
      BY <3>2
  <2>5. QED
    BY <2>3, <2>4
<1>6. ASSUME NEW n \in DOMAIN inbox', NEW m, m = inbox'[n], m.client # Nobody,
             NEW j, j = job'[m.client]
      PROVE  j # Nobody /\ j.answer = Nobody /\ Carries(j, m)
  <2>1. m = inbox[n] /\ m.client # c /\ n \in DOMAIN inbox /\ m.client \in Clients
    BY <1>4, <1>5, <1>6
  <2>2. j = job[m.client]
    BY <1>3, <1>6, <2>1
  <2>3. QED
    BY <1>6, <2>1, <2>2 DEF LineInv
<1>7. LineInv'
  <2>1. \A n, k \in DOMAIN inbox' :
            inbox'[n].client # Nobody /\ inbox'[n].client = inbox'[k].client => n = k
    BY <1>4, <1>5 DEF LineInv
  <2>2. QED
    BY <1>4, <1>5, <1>6, <2>1 DEF LineInv
<1>8. QED
  BY <1>1, <1>7

\* A client asks: its message is the only one of it in line.
LEMMA Asks ==
    ASSUME TableInv, LineInv, JobInv, Grows, NEW c \in Clients, NotInLine(c),
           NEW j, NEW m, job' = [job EXCEPT ![c] = j], inbox' = Append(inbox, m),
           j # Nobody, j.answer = Nobody, JobFacts(j)',
           m.client = c, IsMessage(m)', Carries(j, m)
    PROVE  LineInv' /\ JobInv'
<1>1. JobInv'
  BY OthersStay
<1>2. PICK M : inbox \in Seq(M)
  BY DEF LineInv
<1> DEFINE z == Len(inbox) + 1
<1>3. /\ DOMAIN inbox' = DOMAIN inbox \cup {z} /\ z \notin DOMAIN inbox
      /\ inbox'[z] = m /\ \A n \in DOMAIN inbox : inbox'[n] = inbox[n]
      /\ inbox' \in Seq(M \cup {m})
  BY <1>2
<1> HIDE DEF z
<1>4. job = [b \in Clients |-> job[b]] /\ job'[c] = j /\ c # Nobody
  BY QueriesAssumption DEF JobInv
<1>5. ASSUME NEW n \in DOMAIN inbox', NEW i, i = inbox'[n] PROVE IsMessage(i)'
  <2>1. CASE n = z
    BY <1>3, <1>5, <2>1
  <2>2. CASE n # z
    <3>1. IsMessage(i)
      BY <1>3, <1>5, <2>2 DEF LineInv
    <3>2. QED
      BY <3>1, MessageStays
  <2>3. QED
    BY <2>1, <2>2
<1>6. ASSUME NEW n \in DOMAIN inbox', NEW i, i = inbox'[n], i.client # Nobody,
             NEW k, k = job'[i.client]
      PROVE  k # Nobody /\ k.answer = Nobody /\ Carries(k, i)
  <2>1. CASE n = z
    BY <1>3, <1>4, <1>6, <2>1
  <2>2. CASE n # z
    <3>1. i = inbox[n] /\ n \in DOMAIN inbox /\ i.client # c
      BY <1>3, <1>6, <2>2 DEF NotInLine
    <3>2. i.client \in Clients
      BY <1>6, <3>1 DEF LineInv, IsMessage
    <3>3. k = job[i.client]
      BY <1>4, <1>6, <3>1, <3>2
    <3>4. QED
      BY <1>6, <3>1, <3>3 DEF LineInv
  <2>3. QED
    BY <2>1, <2>2
<1>7. \A n, k \in DOMAIN inbox' :
          inbox'[n].client # Nobody /\ inbox'[n].client = inbox'[k].client => n = k
  BY <1>3, <1>4 DEF LineInv, NotInLine
<1>8. LineInv'
  BY <1>3, <1>5, <1>6, <1>7 DEF LineInv
<1>9. QED
  BY <1>1, <1>8

\* What the store writes. A record at a time is a row.
LEMMA AtIs ==
    ASSUME NEW r, IsRecord(r), NEW time \in Nat
    PROVE  /\ IsRow(At(r, time), time) /\ SameElse(At(r, time), r)
           /\ At(r, time).value = r.value /\ At(r, time).reported_at = time
<1> DEFINE a == At(r, time)
<1>1. /\ DOMAIN a = {"reported_at"} \cup DOMAIN r
      /\ a = [k \in DOMAIN a |-> a[k]]
      /\ \A k \in DOMAIN a : a[k] = IF k = "reported_at" THEN time ELSE r[k]
  BY DEF At, Over
<1> HIDE DEF a
<1>2. a.value = r.value /\ a.reported_at = time
  BY <1>1 DEF IsRecord, HasValue
<1>3. IsRecord(a)
  BY <1>1, <1>2 DEF IsRecord, HasValue, HasTags
<1>4. IsRow(a, time)
  BY <1>1, <1>2, <1>3 DEF IsRow
<1>5. SameElse(a, r)
  BY <1>1, <1>3 DEF SameElse
<1>6. QED
  BY <1>2, <1>4, <1>5 DEF a

\* A report becomes a record.
LEMMA CompletedIs ==
    ASSUME NEW r, IsReport(r), NEW user
    PROVE  IsRecord(Completed(r, user)) /\ Completed(r, user).value = r.value
<1> DEFINE c == Completed(r, user)
           d == [provider |-> user.username, group |-> user.groups[1],
                 tags |-> {"suspicious"}, first |-> "suspicious", messages |-> <<>>]
<1>1. /\ DOMAIN c = {"provider", "group", "tags", "first", "messages"} \cup DOMAIN r
      /\ c = [k \in DOMAIN c |-> c[k]]
      /\ \A k \in DOMAIN c : c[k] = IF k \in DOMAIN r THEN r[k] ELSE d[k]
  BY DEF Completed, Over
<1>2. /\ d.tags = {"suspicious"} /\ d.first = "suspicious" /\ IsFiniteSet({"suspicious"})
      /\ d.messages \in Seq(Messages)
  BY FS_Singleton
<1> HIDE DEF c, d
<1>3. c.value = r.value /\ c.confidence = r.confidence /\ HasValue(c)
  BY <1>1 DEF IsReport, HasValue
<1>4. HasTags(c)
  <2>1. CASE "tags" \in DOMAIN r
    BY <1>1, <2>1 DEF IsReport, HasTags
  <2>2. CASE "tags" \notin DOMAIN r
    BY <1>1, <1>2, <2>2 DEF IsReport, HasTags
  <2>3. QED
    BY <2>1, <2>2
<1>4a. c.messages \in Seq(Messages)
  <2>1. CASE "messages" \in DOMAIN r
    BY <1>1, <2>1 DEF IsReport
  <2>2. CASE "messages" \notin DOMAIN r
    BY <1>1, <1>2, <2>2
  <2>3. QED
    BY <2>1, <2>2
<1>5. QED
  BY <1>1, <1>3, <1>4, <1>4a DEF IsRecord, c

\* What is written is what a search may move, or was reported.
LEMMA Written ==
    ASSUME TableInv, NEW alone \in BOOLEAN, NEW reports, Batch(reports, now),
           rows' \in UpsertAll(rows, reports, alone), now' = now,
           reported \subseteq reported', unlogged \subseteq unlogged',
           \A n \in 1..Len(reports) :
              \/ <<reports[n].value, now>> \in reported' \/ reports[n].value \in unlogged'
              \/ ~alone /\ reports[n].tags # {} /\ reports[n].first = "search"
    PROVE  TableInv' /\ Grows
<1>1. now \in Nat /\ IsTable(rows, now)
  BY QueriesAssumption DEF TableInv
<1>2. /\ Grown(rows, rows', now)
      /\ \A r \in rows' : \/ r \in rows
                          \/ \E n \in 1..Len(reports) : AsNow(r, Taken(reports[n], alone), now)
  BY <1>1, BatchGrows
<1>3. Grows
  BY <1>1, <1>2 DEF Grows
<1>4. ASSUME NEW r \in rows', Ordinary(r.tags) # {}
      PROVE  <<r.value, r.reported_at>> \in reported' \/ Disturbed(r)'
  <2>1. CASE r \in rows
    BY <1>4, <2>1 DEF TableInv, TrueTimes, Disturbed
  <2>2. CASE r \notin rows
    <3>1. PICK n \in 1..Len(reports) : AsNow(r, Taken(reports[n], alone), now)
      BY <1>2, <2>2
    <3>2. PICK b : b = reports[n]
      OBVIOUS
    <3>3. b.value = Taken(b, alone).value /\ (~alone => Taken(b, alone) = b)
      <4>1. IsRow(b, now)
        BY <3>2 DEF Batch
      <4>2. QED
        BY <4>1 DEF Taken, IsRow, IsRecord, HasValue
    <3>4. /\ r.value = b.value /\ r.reported_at = now
          /\ ~alone /\ b.tags # {} => b.first \in r.tags
      BY <3>1, <3>2, <3>3 DEF AsNow
    <3>5. \/ <<b.value, now>> \in reported' \/ b.value \in unlogged'
          \/ ~alone /\ b.tags # {} /\ b.first = "search"
      BY <3>2
    <3>6. r.tags # {"search"}
      BY <1>4 DEF Ordinary
    <3>7. QED
      BY <3>4, <3>5, <3>6 DEF Disturbed
  <2>3. QED
    BY <2>1, <2>2
<1>5. TrueTimes'
  BY <1>4 DEF TrueTimes
<1>6. QED
  BY <1>2, <1>3, <1>5 DEF TableInv, Grown

\* A search that is logged is a batch of one row.
LEMMA LogBatch ==
    ASSUME TableInv, NEW m, IsMessage(m), m.mtype = "search", Logged(m)
    PROVE  /\ Batch(<<LogRow(m)>>, now) /\ LogRow(m).value = m.body.indicator
           /\ LogRow(m).tags = {"search"} /\ LogRow(m).first = "search"
<1>1. IsIndicator(m.body.indicator) /\ m.body.indicator.kind # "text"
  BY DEF Logged, ToLog, IsMessage
<1>2. IsFiniteSet({"search"})
  BY FS_Singleton
<1>3. now \in Nat
  BY QueriesAssumption DEF TableInv
<1>4. /\ LogRow(m).value = m.body.indicator /\ LogRow(m).reported_at = now
      /\ LogRow(m).tags = {"search"} /\ LogRow(m).first = "search"
  BY DEF LogRow
<1>5. IsRow(LogRow(m), now)
  <2>1. <<>> \in Seq(Messages)
    OBVIOUS
  <2>2. LogRow(m).messages \in Seq(Messages)
    BY <2>1 DEF LogRow
  <2>3. HasValue(LogRow(m)) /\ HasTags(LogRow(m))
    BY <1>1, <1>2 DEF LogRow, HasValue, HasTags
  <2>4. /\ {"provider", "group", "tags", "messages", "reported_at"} \subseteq DOMAIN LogRow(m)
        /\ LogRow(m).reported_at \in 0..now
    BY <1>3 DEF LogRow
  <2>5. QED
    BY <2>2, <2>3, <2>4 DEF IsRow, IsRecord
<1>6. Batch(<<LogRow(m)>>, now)
  BY <1>4, <1>5 DEF Batch
<1>7. QED
  BY <1>4, <1>6

\* The log of a search is written or fails.
LEMMA LogWrites ==
    ASSUME TableInv, NEW m, IsMessage(m), m.mtype \in {"search", "bulk"}, Log(m),
           now' = now, reported' = reported
    PROVE  TableInv' /\ Grows
<1>1. CASE Logged(m)
  <2>1. m.mtype = "search"
    BY <1>1 DEF Logged, ToLog
  <2>2. PICK failed \in BOOLEAN :
           /\ rows' \in UpsertAll(rows, <<LogRow(m)>>, failed)
           /\ unlogged' = IF failed THEN unlogged \cup {m.body.indicator} ELSE unlogged
    BY <1>1 DEF Log
  <2>3. PICK reports : reports = <<LogRow(m)>>
    OBVIOUS
  <2>4. /\ Batch(reports, now) /\ Len(reports) = 1 /\ reports[1].value = m.body.indicator
        /\ reports[1].tags = {"search"} /\ reports[1].first = "search"
    BY <1>1, <2>1, <2>3, LogBatch
  <2>5. \A n \in 1..Len(reports) :
           \/ <<reports[n].value, now>> \in reported' \/ reports[n].value \in unlogged'
           \/ ~failed /\ reports[n].tags # {} /\ reports[n].first = "search"
    BY <2>2, <2>4
  <2>6. QED
    BY <2>2, <2>3, <2>4, <2>5, Written
<1>2. CASE ~Logged(m)
  BY <1>2, Idle DEF Log
<1>3. QED
  BY <1>1, <1>2

\* Reports are written, refused or fail.
LEMMA CreateWrites ==
    ASSUME TableInv, NEW m, IsMessage(m), CreateRows(m), now' = now
    PROVE  TableInv' /\ Grows
<1> DEFINE user == Users[m.token]
           reports == [n \in DOMAIN m.body |-> At(Completed(m.body[n], user), now)]
<1>1. AreReports(m.body) /\ unlogged' = unlogged
  BY DEF CreateRows, IsMessage
<1>2. now \in Nat /\ Len(m.body) \in Nat /\ DOMAIN m.body = 1..Len(m.body)
  BY <1>1, QueriesAssumption DEF TableInv, AreReports
<1>3. CASE UNCHANGED <<rows, reported>>
  BY <1>1, <1>3, Idle
<1>4. CASE /\ \E failed \in BOOLEAN : rows' \in UpsertAll(rows, reports, failed)
           /\ reported' = reported \cup {<<reports[n].value, now>> : n \in DOMAIN reports}
  <2>1. PICK failed \in BOOLEAN : rows' \in UpsertAll(rows, reports, failed)
    BY <1>4
  <2>2. DOMAIN reports = 1..Len(m.body)
    BY <1>2
  <2>3. \A n \in 1..Len(m.body) : IsRow(reports[n], now) /\ reports[n].reported_at = now
    <3> SUFFICES ASSUME NEW n \in 1..Len(m.body)
                 PROVE  IsRow(reports[n], now) /\ reports[n].reported_at = now
      OBVIOUS
    <3>1. IsRecord(Completed(m.body[n], user))
      BY <1>1, CompletedIs DEF AreReports
    <3>2. reports[n] = At(Completed(m.body[n], user), now)
      BY <1>2
    <3>3. QED
      BY <1>2, <3>1, <3>2, AtIs
  <2>4. Len(reports) = Len(m.body)
    <3>1. reports \in Seq({reports[n] : n \in 1..Len(m.body)})
      BY <1>2
    <3>2. QED
      BY <1>2, <3>1
  <2> HIDE DEF reports
  <2>5. Batch(reports, now)
    BY <1>2, <2>3, <2>4 DEF Batch
  <2>6. \A n \in 1..Len(reports) : <<reports[n].value, now>> \in reported'
    BY <1>4, <2>2, <2>4
  <2>7. reported \subseteq reported'
    BY <1>4
  <2>8. QED
    BY <1>1, <2>1, <2>5, <2>6, <2>7, Written
<1>5. QED
  BY <1>3, <1>4 DEF CreateRows

\* What it writes is written whatever it answers.
LEMMA HandleWrites ==
    ASSUME TableInv, NEW m, IsMessage(m), now' = now,
           Refuse(m) \/ SearchRows(m) \/ CreateRows(m) \/ AnswerOther(m)
    PROVE  TableInv' /\ Grows
<1>1. CASE Refuse(m)
  BY <1>1, Idle DEF Refuse
<1>2. CASE SearchRows(m)
  BY <1>2, LogWrites DEF SearchRows
<1>3. CASE CreateRows(m)
  BY <1>3, CreateWrites
<1>4. CASE AnswerOther(m)
  BY <1>4, Idle DEF AnswerOther
<1>5. QED
  BY <1>1, <1>2, <1>3, <1>4

\* The job of who asked, with the answer.
With(j, answer) ==
    [j EXCEPT !.answer = answer, !.known = IF j.stage = "feed" THEN rows ELSE j.known]

\* The answer reaches who asked, or nobody.
LEMMA Replied ==
    ASSUME TableInv, LineInv, JobInv, Grows, inbox # <<>>, inbox' = Tail(inbox),
           NEW m, m = Head(inbox), NEW answer, Reply(m, answer),
           \A j, k : m.client # Nobody /\ j = job[m.client] /\ k = With(j, answer)
                     => JobFacts(k)'
    PROVE  LineInv' /\ JobInv'
<1>1. PICK M : inbox \in Seq(M)
  BY DEF LineInv
<1>2. inbox' \in Seq(M)
  BY <1>1
<1>3. /\ m = inbox[1] /\ 1 \in DOMAIN inbox
      /\ \A n \in DOMAIN inbox' : /\ inbox'[n] = inbox[n + 1] /\ n + 1 \in DOMAIN inbox
                                  /\ n + 1 # 1 /\ \A k \in DOMAIN inbox' : n + 1 = k + 1 => n = k
  BY <1>1
<1>4. job = [b \in Clients |-> job[b]] /\ Nobody \notin Clients
  BY QueriesAssumption DEF JobInv
<1>5. JobInv'
  <2>1. CASE m.client = Nobody
    <3>1. job' = job
      BY <2>1 DEF Reply
    <3>2. ASSUME NEW c \in Clients, NEW j, j = job'[c], j # Nobody PROVE JobFacts(j)'
      BY <3>1, <3>2, FactsStay DEF JobInv
    <3>3. QED
      BY <1>4, <3>1, <3>2 DEF JobInv
  <2>2. CASE m.client # Nobody
    <3>1. PICK j : j = job[m.client]
      OBVIOUS
    <3>2. j # Nobody /\ m.client \in Clients
      BY <1>3, <2>2, <3>1 DEF LineInv, IsMessage
    <3>3. PICK k : k = With(j, answer)
      OBVIOUS
    <3>4. JobFacts(k)'
      BY <2>2, <3>1, <3>3
    <3>5. job' = [job EXCEPT ![m.client] = k]
      BY <2>2, <3>1, <3>2, <3>3 DEF Reply, With
    <3>6. QED
      BY <3>4, <3>5, OthersStay
  <2>3. QED
    BY <2>1, <2>2
<1>6. ASSUME NEW n \in DOMAIN inbox', NEW i, i = inbox'[n]
      PROVE  /\ IsMessage(i)'
             /\ i.client # Nobody =>
                   \A k : k = job'[i.client] => k # Nobody /\ k.answer = Nobody /\ Carries(k, i)
  <2>1. i = inbox[n + 1] /\ n + 1 \in DOMAIN inbox /\ n + 1 # 1
    BY <1>3, <1>6
  <2>2. IsMessage(i)
    BY <2>1 DEF LineInv
  <2>3. IsMessage(i)'
    BY <2>2, MessageStays
  <2>4. ASSUME i.client # Nobody PROVE job'[i.client] = job[i.client]
    <3>1. i.client \in Clients
      BY <2>2, <2>4 DEF IsMessage
    <3>2. i.client # m.client
      BY <1>3, <2>1, <2>4 DEF LineInv
    <3>3. QED
      BY <1>4, <3>1, <3>2 DEF Reply
  <2>5. QED
    BY <2>1, <2>3, <2>4 DEF LineInv
<1>7. \A n, k \in DOMAIN inbox' :
          inbox'[n].client # Nobody /\ inbox'[n].client = inbox'[k].client => n = k
  BY <1>3 DEF LineInv
<1>8. LineInv'
  BY <1>2, <1>6, <1>7 DEF LineInv
<1>9. QED
  BY <1>5, <1>8
-----------------------------------------------------------------------------
(* What the answers tell.                                                  *)

\* An answer that is what its job needs keeps what the job knows.
LEMMA AnswerKeeps ==
    ASSUME TableInv, Grows, NEW j, JobFacts(j), j.answer = Nobody,
           NEW answer, answer # Nobody, answer.outcome \in Outcomes,
           NEW k, k = With(j, answer),
           answer.outcome = "ok" =>
               /\ j.stage = "feed" => WasReported(j, answer.data)'
               /\ j.stage = "whitelist" => AllListed(j, answer.data)'
               /\ j.stage = "search" /\ j.req.endpoint = "search"
                  /\ "indicator" \in DOMAIN j.req.args =>
                      \A d \in 1..Len(j.req.args.indicator) : SearchedTo(j, d) =>
                          LET v == j.req.args.indicator[d]
                          IN  /\ IsFiniteSet(answer.data)
                              /\ \A r \in answer.data : Own(j, r, d)
                              /\ AllSought(j, v, answer.data) /\ Traced(j, v)'
    PROVE  JobFacts(k)'
<1>1. JobFacts(j)'
  BY FactsStay
<1>2. /\ k = [f \in DOMAIN k |-> k[f]] /\ DOMAIN k = DOMAIN j
      /\ k.req = j.req /\ k.filters = j.filters /\ k.left = j.left /\ k.stage = j.stage
      /\ k.got = j.got /\ k.since = j.since /\ k.answer = answer
      /\ k.known = IF j.stage = "feed" THEN rows ELSE j.known
  BY DEF With, JobFacts, Shaped, Fields
<1>3. Shaped(k)'
  <2>1. Shaped(j)'
    BY <1>1 DEF JobFacts
  <2>2. KnownStay(k)'
    BY <1>2, <2>1 DEF Shaped, KnownStay, Grows, Grown
  <2>3. QED
    BY <1>2, <2>1, <2>2 DEF Shaped
<1>4. ASSUME j.stage # "search" PROVE FeedFacts(k)'
  <2>1. FeedFacts(j)'
    BY <1>1, <1>4 DEF JobFacts
  <2>2. FeedFilter(k)'
    BY <1>2, <2>1 DEF FeedFacts, FeedFilter
  <2>3. \A data : WasReported(j, data)' => WasReported(k, data)'
    BY <1>2 DEF WasReported
  <2>4. ASSUME j.stage # "feed" PROVE \A data : AllListed(j, data)' => AllListed(k, data)'
    BY <1>2, <2>4 DEF AllListed, Listed, GroupsOf
  <2>5. QED
    BY <1>2, <2>1, <2>2, <2>3, <2>4 DEF FeedFacts, Answered
<1>5. ASSUME j.stage = "search", j.req.endpoint = "search" PROVE SearchFacts(k)'
  <2>1. SearchFacts(j) /\ SearchFacts(j)'
    BY <1>1, <1>5 DEF JobFacts
  <2>2. CASE "indicator" \in DOMAIN j.req.args
    <3>1. PICK d \in 1..Len(j.req.args.indicator) : SearchedTo(j, d)
      BY <2>1, <2>2 DEF SearchFacts
    <3>2. k.known = j.known
      BY <1>2, <1>5
    <3>3. \A v, data : AllSought(j, v, data) => AllSought(k, v, data)
      BY <1>2, <3>2 DEF AllSought, Sought, GroupsOf
    <3>4. \A v : Traced(j, v)' => Traced(k, v)'
      BY <1>2 DEF Traced
    <3>5. \A n \in 1..(d - 1) : Traced(j, j.req.args.indicator[n])'
      <4>1. SearchedTo(j, d)'
        <5>1. \A v : Traced(j, v) => Traced(j, v)'
          BY TracedStill DEF JobFacts, Shaped
        <5>2. QED
          BY <3>1, <5>1 DEF SearchedTo, AllSought, Sought, Answered
      <4>2. QED
        BY <4>1 DEF SearchedTo
    <3>5a. \A r, n : Own(j, r, n) => Own(k, r, n)
      BY <1>2 DEF Own, GroupsOf
    <3>6. SearchedTo(k, d)'
      BY <1>2, <1>5, <2>2, <3>1, <3>3, <3>4, <3>5, <3>5a DEF SearchedTo, Answered
    <3>7. QED
      BY <1>2, <2>2, <3>6 DEF SearchFacts
  <2>3. CASE "indicator" \notin DOMAIN j.req.args
    BY <1>2, <2>1, <2>3 DEF SearchFacts
  <2>4. QED
    BY <2>2, <2>3
<1>6. QED
  BY <1>2, <1>3, <1>4, <1>5 DEF JobFacts

\* Fields that a filter leaves out are not asked for.
LEMMA WithoutIs ==
    ASSUME NEW f, NEW keys
    PROVE  /\ DOMAIN Without(f, keys) = DOMAIN f \ keys
           /\ \A k \in DOMAIN f \ keys : Without(f, keys)[k] = f[k]
BY DEF Without, Restrict

\* What a query of the table answers with.
LEMMA TableAnswers ==
    ASSUME TableInv', NEW f, LimitOf(f) \in Nat, NEW groups,
           NEW a, a \in SearchAnswers(rows', f, groups)
    PROVE  /\ a \subseteq Hits(rows', f, groups) /\ IsFiniteSet(a)
           /\ Cardinality(Found(rows', f, groups)) <= LimitOf(f)
              => a = Hits(rows', f, groups)
           /\ /\ "tags" \notin DOMAIN f /\ "indicator" \in DOMAIN f
              /\ f.indicator.kind # "text" /\ Cardinality(a) < LimitOf(f)
              => a = Hits(rows', f, groups)
<1>1. PICK table, time : table = rows' /\ time = now'
  OBVIOUS
<1>2. /\ time \in Nat /\ IsFiniteSet(table)
      /\ \A r \in table : Joinable(r) /\ r.reported_at \in 0..time
  <2>1. time \in Nat /\ IsTable(table, time)
    BY <1>1, QueriesAssumption DEF TableInv
  <2>2. ASSUME NEW r \in table PROVE Joinable(r) /\ r.reported_at \in 0..time
    BY <2>1, FS_EmptySet DEF IsTable, IsRow, IsRecord, HasTags, Joinable
  <2>3. QED
    BY <2>1, <2>2 DEF IsTable
<1>3. a \in SearchAnswers(table, f, groups)
  BY <1>1
<1>4. QED
  BY <1>1, <1>2, <1>3, AnswerIs

\* A feed gets what was reported in its time.
LEMMA FeedAnswer ==
    ASSUME TableInv', NEW j, FeedFilter(j), NEW groups,
           NEW a, a \in SearchAnswers(rows', j.filters, groups)
    PROVE  WasReported(j, a)'
<1>1. a \subseteq Hits(rows', j.filters, groups)
  BY TableAnswers DEF FeedFilter
<1>2. SUFFICES ASSUME "tags" \notin DOMAIN j.req.args, NEW r \in a
               PROVE  \/ \E t \in Oldest(j.req.args, j.since)..now' : <<r.value, t>> \in reported'
                      \/ Disturbed(r)'
  BY DEF WasReported
<1>3. r \in rows' /\ PassesTerms(r, j.filters) /\ Joined(r, j.filters) # {}
  BY <1>1 DEF Hits, Passes
<1>4. Ordinary(r.tags) # {}
  BY <1>2, <1>3 DEF Joined, Tagged, FeedFilter
<1>5. /\ <<r.value, r.reported_at>> \in reported' \/ Disturbed(r)'
      /\ r.reported_at \in 0..now' /\ now' \in Nat
  BY <1>3, <1>4, QueriesAssumption DEF TableInv, TrueTimes, IsTable, IsRow
<1>6. Oldest(j.req.args, j.since) \in Int
  BY DEF FeedFilter
<1>7. Oldest(j.req.args, j.since) <= r.reported_at
  <2>1. CASE "reported_at" \in DOMAIN j.filters
    <3>1. j.filters.reported_at[1] <= r.reported_at
      BY <1>3, <2>1 DEF PassesTerms, Within
    <3>2. QED
      BY <1>5, <1>6, <2>1, <3>1 DEF FeedFilter
  <2>2. CASE "reported_at" \notin DOMAIN j.filters
    BY <1>5, <1>6, <2>2 DEF FeedFilter
  <2>3. QED
    BY <2>1, <2>2
<1>8. QED
  BY <1>5, <1>6, <1>7

\* The whitelist gets all that is on it.
LEMMA WhiteIs ==
    ASSUME NEW f, NEW time \in Int, NEW g, g = WhiteAt(f, time)
    PROVE  /\ g.tags = {"whitelist"} /\ g.confidence = <<HTTPD_FEED_WHITELIST_CONFIDENCE>>
           /\ g.limit = FEEDS_WHITELIST_LIMIT
           /\ g.reported_at = <<time - FEEDS_WHITELIST_DAYS * HoursPerDay>>
           /\ {"tags", "confidence", "nolog", "limit", "reported_at"} \subseteq DOMAIN g
           /\ \A k : k \notin {"tags", "confidence", "nolog", "limit", "reported_at"} =>
                 /\ k \in DOMAIN g <=> k \in DOMAIN f
                 /\ k \in DOMAIN f => g[k] = f[k]
BY DEF WhiteAt, Over

\* An answer to a whitelist's filters has the values of all rows listed.
LEMMA WhiteAnswer ==
    ASSUME TableInv', NEW j, FeedFilter(j), KnownStay(j)',
           NEW time \in 0..now', NEW g, g = WhiteAt(j.filters, time),
           NEW a, a \in SearchAnswers(rows', g, GroupsOf(j))
    PROVE  AllListed(j, a)'
<1> DEFINE groups == GroupsOf(j)
           D == FEEDS_WHITELIST_DAYS * HoursPerDay
<1>1. /\ g.tags = {"whitelist"} /\ g.confidence = <<HTTPD_FEED_WHITELIST_CONFIDENCE>>
      /\ g.limit = FEEDS_WHITELIST_LIMIT /\ g.reported_at = <<time - D>>
      /\ {"tags", "confidence", "nolog", "limit", "reported_at"} \subseteq DOMAIN g
      /\ \A k : k \notin {"tags", "confidence", "nolog", "limit", "reported_at"} =>
            /\ k \in DOMAIN g <=> k \in DOMAIN j.filters
            /\ k \in DOMAIN j.filters => g[k] = j.filters[k]
  BY WhiteIs
<1>2. /\ FEEDS_WHITELIST_LIMIT \in Nat /\ D \in Nat /\ now' \in Nat /\ time \in Nat
      /\ \A r \in rows' : IsRow(r, now')
  BY QueriesAssumption DEF TableInv, IsTable
<1>3. LimitOf(g) = FEEDS_WHITELIST_LIMIT
  BY <1>1 DEF LimitOf
<1> HIDE DEF D
<1>4. /\ a \subseteq Hits(rows', g, groups)
      /\ Cardinality(Found(rows', g, groups)) <= FEEDS_WHITELIST_LIMIT
         => a = Hits(rows', g, groups)
  BY <1>2, <1>3, TableAnswers
<1>5. SUFFICES ASSUME Cardinality(Whitelisted(rows')) <= FEEDS_WHITELIST_LIMIT,
                      NEW w \in j.known, Listed(j, w)'
               PROVE  \E x \in a : x.value = w.value
  BY DEF AllListed
<1>6. Cardinality(Found(rows', g, groups)) <= Cardinality(Whitelisted(rows'))
  <2> DEFINE P == Found(rows', g, groups)
             W == Whitelisted(rows')
             row == [p \in P |-> p[1]]
  <2>1. ASSUME NEW p \in P PROVE p = <<p[1], <<"whitelist", "not joined">>>> /\ p[1] \in W
    <3>1. p = <<p[1], p[2]>> /\ p[1] \in Hits(rows', g, groups) /\ p[2] \in Joined(p[1], g)
      BY FoundIs
    <3>2. "indicator" \notin DOMAIN g
      BY <1>1 DEF FeedFilter
    <3>2c. Noted(p[1], g) = {"not joined"} /\ Tagged(p[1], g) = p[1].tags \cap {"whitelist"}
      BY <1>1, <3>2 DEF Tagged, Noted
    <3>2a. p[2] \in (p[1].tags \cap {"whitelist"}) \X {"not joined"}
      BY <3>1, <3>2c DEF Joined
    <3>2d. p[2] \in {"whitelist"} \X {"not joined"} /\ "whitelist" \in p[1].tags
      BY <3>2a
    <3>2b. p[2] = <<"whitelist", "not joined">> /\ "whitelist" \in p[1].tags
      BY <3>2d, OnlyPair
    <3>3. p[1] \in W
      BY <3>1, <3>2b DEF Whitelisted, Hits
    <3>4. QED
      BY <3>1, <3>2b, <3>3
  <2>2. IsFiniteSet(W)
    BY FS_Subset DEF Whitelisted, TableInv, IsTable
  <2>3. \A p \in P : row[p] \in W
    BY <2>1
  <2>4. \A p, q \in P : row[p] = row[q] => p = q
    BY <2>1
  <2> HIDE DEF P, W, row
  <2>5. Cardinality(P) <= Cardinality(W)
    BY <2>2, <2>3, <2>4, InjectionBound
  <2>6. QED
    BY <2>5 DEF P, W
<1>7. a = Hits(rows', g, groups)
  <2>1. IsFiniteSet(Whitelisted(rows'))
    BY FS_Subset DEF Whitelisted, TableInv, IsTable
  <2>2. Cardinality(Whitelisted(rows')) \in Nat
    BY <2>1, FS_CardinalityType
  <2>3. IsFiniteSet(Found(rows', g, groups))
    <3>1. PICK table : table = rows'
      OBVIOUS
    <3>2. IsFiniteSet(table) /\ \A r \in table : Joinable(r)
      BY <3>1, FS_EmptySet DEF TableInv, IsTable, IsRow, IsRecord, HasTags, Joinable
    <3>3. QED
      BY <3>1, <3>2, FoundFinite
  <2>4. Cardinality(Found(rows', g, groups)) \in Nat
    BY <2>3, FS_CardinalityType
  <2>5. QED
    BY <1>2, <1>4, <1>5, <1>6, <2>2, <2>4
<1>8. PICK r \in rows' : Newer(w, r)
  BY DEF KnownStay
<1>9. /\ r.reported_at \in Nat /\ w.reported_at \in 0..r.reported_at
      /\ {"value", "tags", "confidence", "group"} \subseteq DOMAIN r /\ DOMAIN w = DOMAIN r
      /\ \A f \in DOMAIN r \ {"reported_at", "messages"} : w[f] = r[f]
  BY <1>2, <1>8 DEF Newer, IsRow, IsRecord, HasValue
<1>10. /\ "whitelist" \in w.tags /\ w.confidence >= HTTPD_FEED_WHITELIST_CONFIDENCE
       /\ w.reported_at >= now' - D
       /\ PassesTerms(w, Without(j.filters, {"confidence", "reported_at"}))
       /\ InGroups(w, j.filters, groups)
  BY <1>5 DEF Listed, D
<1>11. PassesTerms(r, g)
  <2>1. Within(r.reported_at, g.reported_at)
    <3>1. time - D <= r.reported_at
      BY <1>2, <1>9, <1>10
    <3>2. QED
      BY <1>1, <3>1 DEF Within
  <2>2. Within(r.confidence, g.confidence)
    <3>1. r.confidence = w.confidence
      BY <1>9
    <3>2. QED
      BY <1>1, <1>10, <3>1 DEF Within
  <2> DEFINE h == Without(j.filters, {"confidence", "reported_at"})
  <2>3. /\ \A k \in DOMAIN j.filters \ {"confidence", "reported_at"} :
              k \in DOMAIN h /\ h[k] = j.filters[k]
    BY WithoutIs
  <2>4. \A k \in DOMAIN g : k \notin {"tags", "confidence", "nolog", "limit", "reported_at"}
                            => k \in DOMAIN h /\ h[k] = g[k]
    BY <1>1, <2>3
  <2> HIDE DEF h
  <2>5. "probability" \in DOMAIN g => ProbabilityPasses(r, g.probability)
    <3>1. "probability" \in DOMAIN g => ProbabilityPasses(w, g.probability)
      BY <1>10, <2>4 DEF PassesTerms, h
    <3>2. QED
      BY <1>9, <3>1 DEF ProbabilityPasses
  <2>6. \A k \in EqualityColumns \cap DOMAIN g : k \in DOMAIN r /\ r[k] = g[k]
    <3>1. \A k \in EqualityColumns \cap DOMAIN g : k \in DOMAIN w /\ w[k] = g[k]
      BY <1>10, <2>4 DEF PassesTerms, h, EqualityColumns
    <3>2. QED
      BY <1>9, <3>1 DEF EqualityColumns
  <2>7. QED
    BY <2>1, <2>2, <2>5, <2>6 DEF PassesTerms
<1>12. InGroups(r, g, groups)
  BY <1>1, <1>9, <1>10 DEF InGroups
<1>13. Passes(r, g, groups)
  BY <1>1, <1>11, <1>12 DEF Passes, FeedFilter
<1>14. Joined(r, g) # {}
  <2>1. "whitelist" \in Tagged(r, g)
    BY <1>1, <1>9, <1>10 DEF Tagged
  <2>2. "not joined" \in Noted(r, g)
    BY <1>1 DEF Noted, FeedFilter
  <2>3. <<"whitelist", "not joined">> \in Joined(r, g)
    BY <2>1, <2>2 DEF Joined
  <2>4. QED
    BY <2>3
<1>15. QED
  BY <1>7, <1>9, <1>13, <1>14 DEF Hits

\* Filters with another indicator, or without one.
LEMMA AimedIs ==
    ASSUME NEW f, NEW v, NEW h, h = Aimed(f, v)
    PROVE  /\ h = [k \in DOMAIN h |-> h[k]]
           /\ DOMAIN h \ {"indicator"} = DOMAIN f \ {"indicator"}
           /\ "indicator" \in DOMAIN h <=> v # Blank
           /\ v # Blank => h.indicator = v
           /\ \A k \in DOMAIN h \ {"indicator"} : h[k] = f[k]
<1>1. CASE v = Blank
  BY <1>1 DEF Aimed, Without, Restrict
<1>2. CASE v # Blank
  BY <1>2 DEF Aimed, Over
<1>3. QED
  BY <1>1, <1>2

\* Aimed twice is aimed once.
LEMMA AimedAgain ==
    ASSUME NEW f, NEW u, NEW v
    PROVE  Aimed(Limited(Aimed(f, u)), v) = Limited(Aimed(f, v))
<1>1. PICK g, h, l, m : /\ g = Aimed(f, u) /\ l = Limited(g) /\ h = Aimed(l, v)
                        /\ m = Limited(Aimed(f, v))
  OBVIOUS
<1>2. PICK i : i = Aimed(f, v)
  OBVIOUS
<1>3. /\ m = [k \in DOMAIN m |-> m[k]] /\ DOMAIN m = {"limit"} \cup DOMAIN i
      /\ \A k \in DOMAIN m : m[k] = IF k \in DOMAIN i THEN i[k] ELSE FEEDS_LIMIT
  BY <1>1, <1>2 DEF Limited, Over
<1>4. /\ DOMAIN l = {"limit"} \cup DOMAIN g
      /\ \A k \in DOMAIN l : l[k] = IF k \in DOMAIN g THEN g[k] ELSE FEEDS_LIMIT
  BY <1>1 DEF Limited, Over
<1>5. /\ DOMAIN i \ {"indicator"} = DOMAIN f \ {"indicator"}
      /\ "indicator" \in DOMAIN i <=> v # Blank
      /\ v # Blank => i.indicator = v
      /\ \A k \in DOMAIN i \ {"indicator"} : i[k] = f[k]
  BY <1>2, AimedIs
<1>6. /\ DOMAIN g \ {"indicator"} = DOMAIN f \ {"indicator"}
      /\ \A k \in DOMAIN g \ {"indicator"} : g[k] = f[k]
  BY <1>1, AimedIs
<1>7. /\ h = [k \in DOMAIN h |-> h[k]]
      /\ DOMAIN h \ {"indicator"} = DOMAIN l \ {"indicator"}
      /\ "indicator" \in DOMAIN h <=> v # Blank
      /\ v # Blank => h.indicator = v
      /\ \A k \in DOMAIN h \ {"indicator"} : h[k] = l[k]
  BY <1>1, AimedIs
<1>8. DOMAIN h = DOMAIN m
  <2>1. DOMAIN h \ {"indicator"} = DOMAIN m \ {"indicator"}
    BY <1>3, <1>4, <1>5, <1>6, <1>7
  <2>2. "indicator" \in DOMAIN h <=> "indicator" \in DOMAIN m
    BY <1>3, <1>5, <1>7
  <2>3. QED
    BY <2>1, <2>2
<1>9. \A k \in DOMAIN m : h[k] = m[k]
  BY <1>3, <1>4, <1>5, <1>6, <1>7, <1>8
<1>10. QED
  BY <1>1, <1>3, <1>7, <1>8, <1>9

\* A search gets what it is for, all of it, and leaves a trace.
LEMMA SearchForIs ==
    ASSUME NEW args, IsArgs(args), "indicator" \in DOMAIN args,
           NEW n \in 1..Len(args.indicator), NEW f, f = SearchFor(args, n)
    PROVE  /\ DOMAIN f \ {"indicator"} = {"limit"} \cup (DOMAIN args \ {"no_feed", "indicator"})
           /\ "indicator" \in DOMAIN f <=> args.indicator[n] # Blank
           /\ "indicator" \in DOMAIN f =>
                 f.indicator = args.indicator[n] /\ IsIndicator(f.indicator)
           /\ LimitOf(f) \in Nat
           /\ \A k \in DOMAIN f \ {"indicator"} :
                 f[k] = IF k \in DOMAIN args THEN args[k] ELSE FEEDS_LIMIT
<1> DEFINE g == Without(args, {"no_feed"})
           v == args.indicator[n]
           h == Aimed(g, v)
<1>1. DOMAIN g = DOMAIN args \ {"no_feed"} /\ \A k \in DOMAIN args \ {"no_feed"} : g[k] = args[k]
  BY DEF Without, Restrict
<1> HIDE DEF g, v
<1>2. /\ DOMAIN h \ {"indicator"} = DOMAIN g \ {"indicator"}
      /\ "indicator" \in DOMAIN h <=> v # Blank
      /\ v # Blank => h.indicator = v
      /\ \A k \in DOMAIN h \ {"indicator"} : h[k] = g[k]
  BY AimedIs
<1>3. f = Limited(h)
  BY DEF SearchFor, g, v
<1> HIDE DEF h
<1>4. /\ DOMAIN f = {"limit"} \cup DOMAIN h
      /\ \A k \in DOMAIN f : f[k] = IF k \in DOMAIN h THEN h[k] ELSE FEEDS_LIMIT
  BY <1>3 DEF Limited, Over
<1>5. \A k \in DOMAIN f \ {"indicator"} :
          f[k] = IF k \in DOMAIN args THEN args[k] ELSE FEEDS_LIMIT
  BY <1>1, <1>2, <1>4
<1>6. LimitOf(f) \in Nat
  BY <1>1, <1>2, <1>4, <1>5, QueriesAssumption DEF LimitOf, IsArgs
<1>7. v # Blank => IsIndicator(v)
  BY DEF IsArgs, v
<1>8. QED
  BY <1>1, <1>2, <1>4, <1>5, <1>6, <1>7 DEF v

\* An answer to a search is about what was searched for, and all of it.
LEMMA SearchAnswer ==
    ASSUME TableInv', NEW j, KnownStay(j)', IsArgs(j.req.args),
           "indicator" \in DOMAIN j.req.args, NEW d \in 1..Len(j.req.args.indicator),
           j.filters = SearchFor(j.req.args, d),
           j.req.args.indicator[d] # Blank => Searchable(j.req.args.indicator[d]),
           NEW a, a \in SearchAnswers(rows', j.filters, GroupsOf(j))
    PROVE  /\ IsFiniteSet(a)
           /\ \A r \in a : Own(j, r, d)
           /\ AllSought(j, j.req.args.indicator[d], a)
<1> DEFINE groups == GroupsOf(j)
           f == j.filters
           q == j.req.args.indicator[d]
<1>1. /\ DOMAIN f \ {"indicator"} = {"limit"} \cup (DOMAIN j.req.args \ {"no_feed", "indicator"})
      /\ "indicator" \in DOMAIN f <=> q # Blank
      /\ q # Blank => f.indicator = q /\ IsIndicator(q)
      /\ LimitOf(f) \in Nat
      /\ \A k \in DOMAIN f \ {"indicator"} :
            f[k] = IF k \in DOMAIN j.req.args THEN j.req.args[k] ELSE FEEDS_LIMIT
  <2>1. PICK args, g : args = j.req.args /\ g = f
    OBVIOUS
  <2>2. IsArgs(args) /\ "indicator" \in DOMAIN args /\ d \in 1..Len(args.indicator)
        /\ g = SearchFor(args, d)
    BY <2>1
  <2>3. /\ DOMAIN g \ {"indicator"} = {"limit"} \cup (DOMAIN args \ {"no_feed", "indicator"})
        /\ "indicator" \in DOMAIN g <=> args.indicator[d] # Blank
        /\ "indicator" \in DOMAIN g =>
              g.indicator = args.indicator[d] /\ IsIndicator(g.indicator)
        /\ LimitOf(g) \in Nat
        /\ \A k \in DOMAIN g \ {"indicator"} :
              g[k] = IF k \in DOMAIN args THEN args[k] ELSE FEEDS_LIMIT
    BY <2>2, SearchForIs
  <2>4. QED
    BY <2>1, <2>2, <2>3
<1> HIDE DEF f, q
<1>2. \A r \in rows' : IsRow(r, now') /\ now' \in Nat
  BY QueriesAssumption DEF TableInv, IsTable
<1>3. /\ a \subseteq Hits(rows', f, groups) /\ IsFiniteSet(a)
      /\ /\ "tags" \notin DOMAIN f /\ "indicator" \in DOMAIN f
         /\ f.indicator.kind # "text" /\ Cardinality(a) < LimitOf(f)
         => a = Hits(rows', f, groups)
  BY <1>1, TableAnswers DEF f
<1>4. ASSUME NEW r \in a PROVE Own(j, r, d)
  <2>1. Passes(r, f, groups) /\ Joined(r, f) # {} /\ r \in rows'
    BY <1>3 DEF Hits
  <2>2. InGroups(r, j.req.args, groups)
    BY <1>1, <2>1 DEF Passes, InGroups
  <2>3. ASSUME q # Blank PROVE Concerns(r, q, j.req.args)
    <3>1. Matches(q, r)
      BY <1>1, <2>1, <2>3 DEF Passes
    <3>2. IsIndicator(r.value)
      BY <1>2, <2>1 DEF IsRow, IsRecord, HasValue
    <3>3. QED
      BY <1>1, <2>3, <3>1, <3>2, MatchConcerns
  <2>4. ASSUME q = Blank PROVE Concerns(r, q, j.req.args)
    <3>1. PICK h, args : args = j.req.args /\ h = Without(args, {"indicator"})
      OBVIOUS
    <3>2a. /\ DOMAIN Without(args, {"indicator"}) = DOMAIN args \ {"indicator"}
           /\ \A k \in DOMAIN args \ {"indicator"} : Without(args, {"indicator"})[k] = args[k]
      BY WithoutIs
    <3>2. /\ DOMAIN h = DOMAIN j.req.args \ {"indicator"}
          /\ \A k \in DOMAIN h : h[k] = j.req.args[k]
      BY <3>1, <3>2a
    <3>3. Tagged(r, h) = Tagged(r, f)
      BY <1>1, <2>4, <3>2 DEF Tagged
    <3>4. Tagged(r, h) # {}
      BY <2>1, <3>3 DEF Joined
    <3>5. QED
      BY <2>4, <3>1, <3>4 DEF Concerns
  <2>5. QED
    BY <2>2, <2>3, <2>4 DEF Own, q
<1>5. ASSUME Cardinality(a) < LimitOf(f), NEW k \in j.known, Sought(j, k, q)
      PROVE  \E r \in a : Alike(r, k)
  <2>1. /\ Inside(k.value, q) /\ q.kind \notin Hashes \cup {"email"}
        /\ PassesTerms(k, Without(f, {"reported_at"})) /\ InGroups(k, f, groups)
        /\ "tags" \notin DOMAIN f /\ "reported_at" \notin DOMAIN f
    BY <1>5 DEF Sought, f
  <2>2. PICK r \in rows' : Newer(k, r)
    BY DEF KnownStay
  <2>3. /\ {"value", "tags", "confidence", "group"} \subseteq DOMAIN r /\ DOMAIN k = DOMAIN r
        /\ \A x \in DOMAIN r \ {"reported_at", "messages"} : k[x] = r[x]
        /\ IsIndicator(r.value) /\ r.value.kind # "text"
    BY <1>2, <2>2 DEF Newer, IsRow, IsRecord, HasValue
  <2>3a. Inside(r.value, q)
    BY <2>1, <2>3
  <2>3b. q # Blank /\ q.kind # "text"
    <3>1. q.kind # "text"
      BY <2>3, <2>3a DEF Inside, Networks
    <3>2. IsIndicator(Blank) => FALSE
      BY DEF IsIndicator, Blank, Networks, Texts, Hashes
    <3>3. q # Blank
      BY <2>3, <2>3a, <3>2 DEF Inside, Blank, Networks
    <3>4. QED
      BY <3>1, <3>3
  <2>4. Matches(q, r)
    BY <1>1, <2>1, <2>3, <2>3a, <2>3b, InsideMatches DEF q
  <2>5. PassesTerms(r, f)
    <3> DEFINE h == Without(f, {"reported_at"})
    <3>1. DOMAIN h = DOMAIN f /\ \A x \in DOMAIN f : h[x] = f[x]
      BY <2>1 DEF Without, Restrict
    <3> HIDE DEF h
    <3>2. PassesTerms(k, h)
      BY <2>1 DEF h
    <3>3. "confidence" \in DOMAIN f => Within(r.confidence, f.confidence)
      BY <2>3, <3>1, <3>2 DEF PassesTerms
    <3>4. "probability" \in DOMAIN f => ProbabilityPasses(r, f.probability)
      BY <2>3, <3>1, <3>2 DEF PassesTerms, ProbabilityPasses
    <3>5. \A x \in EqualityColumns \cap DOMAIN f : x \in DOMAIN r /\ r[x] = f[x]
      BY <2>3, <3>1, <3>2 DEF PassesTerms, EqualityColumns
    <3>6. QED
      BY <2>1, <3>3, <3>4, <3>5 DEF PassesTerms
  <2>6. InGroups(r, f, groups)
    BY <2>1, <2>3 DEF InGroups
  <2>7. r \in Hits(rows', f, groups)
    <3>1a. Tagged(r, f) = {"not joined"} /\ Noted(r, f) = {"not joined"}
      BY <1>1, <2>1, <2>3b DEF Tagged, Noted
    <3>1b. <<"not joined", "not joined">> \in Joined(r, f)
      BY <3>1a DEF Joined
    <3>1. Joined(r, f) # {}
      BY <3>1b
    <3>2. QED
      BY <1>1, <2>1, <2>3b, <2>4, <2>5, <2>6, <3>1 DEF Hits, Passes
  <2>8. QED
    BY <1>1, <1>3, <1>5, <2>1, <2>3, <2>3b, <2>7 DEF Alike
<1>6. AllSought(j, q, a)
  BY <1>5 DEF AllSought, f
<1>7. QED
  BY <1>3, <1>4, <1>6 DEF q

\* A search that is answered left a row, or lost it.
LEMMA SearchTraces ==
    ASSUME TableInv, NEW j, j.since \in 0..now,
           NEW m, IsMessage(m), m.mtype = "search", m.token = TokenOf(j.req),
           m.body = j.filters, "indicator" \in DOMAIN m.body,
           ToLog(m) => Logged(m), Log(m), now' = now
    PROVE  Traced(j, m.body.indicator)'
<1> DEFINE v == m.body.indicator
<1>1. SUFFICES ASSUME "nolog" \notin DOMAIN m.body, ~Wild(v)
               PROVE  \/ v \in unlogged'
                      \/ \E r \in rows' : /\ r.value = v /\ "search" \in r.tags
                                          /\ r.provider = Users[TokenOf(j.req)].username
                                          /\ r.reported_at >= j.since
  BY DEF Traced
<1>2. Logged(m)
  BY <1>1 DEF ToLog
<1>3. PICK failed \in BOOLEAN :
         /\ rows' \in UpsertAll(rows, <<LogRow(m)>>, failed)
         /\ unlogged' = IF failed THEN unlogged \cup {v} ELSE unlogged
  BY <1>2 DEF Log
<1>4. CASE ~failed
  <2>1. now \in Nat /\ IsTable(rows, now)
    BY QueriesAssumption DEF TableInv
  <2>2. PICK reports : reports = <<LogRow(m)>>
    OBVIOUS
  <2>3. Batch(reports, now) /\ 1 \in 1..Len(reports) /\ reports[1] = LogRow(m)
    BY <1>2, <2>2, LogBatch
  <2>4. \A n \in 1..Len(reports) : \E r \in rows' : AsNow(r, reports[n], now)
    BY <1>3, <1>4, <2>1, <2>2, <2>3, BatchGrows
  <2>5. PICK r \in rows' : AsNow(r, LogRow(m), now)
    BY <2>3, <2>4
  <2>6. /\ r.value = v /\ "search" \in r.tags /\ r.reported_at = now
        /\ r.provider = Users[TokenOf(j.req)].username
    BY <2>5 DEF AsNow, LogRow
  <2>7. r.reported_at >= j.since
    BY <2>1, <2>6
  <2>8. QED
    BY <2>6, <2>7
<1>5. CASE failed
  BY <1>3, <1>5
<1>6. QED
  BY <1>4, <1>5

\* An answer from the store fits the job it is for.
AnswerTo(m, answer) ==
    \/ answer.outcome \in Outcomes \ {"ok"}
    \/ answer.outcome = "ok" /\ m.mtype # "search"
    \/ /\ m.mtype = "search" /\ Log(m) /\ Valid(m)
       /\ \E a \in Answers(m, rows') : Presentable(a) /\ answer = Ok(a)

\* Whatever the store answers, the job it answers knows what it should.
LEMMA AnswerFits ==
    ASSUME TableInv, TableInv', Grows, now' = now, NEW m, IsMessage(m),
           NEW j, JobFacts(j), j.answer = Nobody, Carries(j, m),
           NEW answer, answer # Nobody, AnswerTo(m, answer),
           NEW k, k = With(j, answer)
    PROVE  JobFacts(k)'
<1>1. answer.outcome \in Outcomes
  BY DEF AnswerTo, Outcomes, Ok
<1>2. CASE answer.outcome # "ok"
  BY <1>1, <1>2, AnswerKeeps
<1>3. CASE answer.outcome = "ok" /\ m.mtype # "search"
  <2>1. j.stage = "search" /\ j.req.endpoint # "search"
    BY <1>3 DEF JobFacts, Shaped, Carries
  <2>2. QED
    BY <1>1, <2>1, AnswerKeeps
<1>4. CASE /\ m.mtype = "search" /\ Log(m) /\ Valid(m)
           /\ \E a \in Answers(m, rows') : Presentable(a) /\ answer = Ok(a)
  <2>1. PICK a \in Answers(m, rows') : Presentable(a) /\ answer = Ok(a)
    BY <1>4
  <2>2. answer.data = a /\ a \in SearchAnswers(rows', m.body, GroupsOf(j))
    BY <1>4, <2>1 DEF Ok, Answers, Carries, GroupsOf
  <2>3. /\ j.req.endpoint = "search" /\ IsArgs(j.req.args) /\ j.since \in 0..now
        /\ m.body = IF j.stage = "whitelist" THEN WhiteAt(j.filters, m.asked) ELSE j.filters
    BY <1>4, QueriesAssumption DEF JobFacts, Shaped, Carries, IsRequest
  <2>4. KnownStay(j)'
    BY FactsStay DEF JobFacts, Shaped
  <2>5. ASSUME j.stage = "feed" PROVE WasReported(j, answer.data)'
    <3>1. FeedFilter(j)
      BY <2>5 DEF JobFacts, FeedFacts
    <3>2. m.body = j.filters
      BY <2>3, <2>5
    <3>3. QED
      BY <2>2, <3>1, <3>2, FeedAnswer
  <2>6. ASSUME j.stage = "whitelist" PROVE AllListed(j, answer.data)'
    <3>1. FeedFilter(j)
      BY <2>6 DEF JobFacts, FeedFacts
    <3>2. PICK g : g = m.body
      OBVIOUS
    <3>3. g = WhiteAt(j.filters, m.asked) /\ m.asked \in 0..now'
      BY <2>3, <2>6, <3>2 DEF IsMessage
    <3>4. QED
      BY <2>2, <2>4, <3>1, <3>2, <3>3, WhiteAnswer
  <2>7. ASSUME j.stage = "search", "indicator" \in DOMAIN j.req.args,
               NEW d \in 1..Len(j.req.args.indicator), SearchedTo(j, d)
        PROVE  LET v == j.req.args.indicator[d]
               IN  /\ IsFiniteSet(answer.data)
                   /\ \A r \in answer.data : Own(j, r, d)
                   /\ AllSought(j, v, answer.data) /\ Traced(j, v)'
    <3>1. j.filters = SearchFor(j.req.args, d) /\ m.body = j.filters
      BY <2>3, <2>7 DEF SearchedTo
    <3>2. /\ "indicator" \in DOMAIN m.body <=> j.req.args.indicator[d] # Blank
          /\ "indicator" \in DOMAIN m.body => m.body.indicator = j.req.args.indicator[d]
      <4>1. PICK args, g : args = j.req.args /\ g = m.body
        OBVIOUS
      <4>2. IsArgs(args) /\ "indicator" \in DOMAIN args /\ d \in 1..Len(args.indicator)
            /\ g = SearchFor(args, d)
        BY <2>3, <2>7, <3>1, <4>1
      <4>3. /\ "indicator" \in DOMAIN g <=> args.indicator[d] # Blank
            /\ "indicator" \in DOMAIN g => g.indicator = args.indicator[d]
        BY <4>2, SearchForIs
      <4>4. QED
        BY <4>1, <4>2, <4>3
    <3>3. "indicator" \in DOMAIN m.body =>
              Searchable(m.body.indicator) /\ (ToLog(m) => Logged(m))
      BY <1>4 DEF Valid
    <3>4. j.req.args.indicator[d] # Blank => Searchable(j.req.args.indicator[d])
      BY <3>2, <3>3
    <3>5. a \in SearchAnswers(rows', j.filters, GroupsOf(j))
      BY <2>2, <3>1
    <3>6. /\ IsFiniteSet(a)
          /\ \A r \in a : Own(j, r, d)
          /\ AllSought(j, j.req.args.indicator[d], a)
      BY <2>1, <2>3, <2>4, <2>7, <3>1, <3>4, <3>5, SearchAnswer
    <3>7. m.token = TokenOf(j.req)
      BY DEF Carries
    <3>8. PICK v : v = j.req.args.indicator[d]
      OBVIOUS
    <3>9. CASE v = Blank
      <4>1. Traced(j, v)'
        BY <3>9 DEF Traced
      <4>2. QED
        BY <2>2, <3>6, <3>8, <4>1
    <3>10. CASE v # Blank
      <4>1. "indicator" \in DOMAIN m.body /\ m.body.indicator = v
        BY <3>2, <3>8, <3>10
      <4>2. Traced(j, v)'
        BY <1>4, <2>3, <3>1, <3>3, <3>7, <4>1, SearchTraces
      <4>3. QED
        BY <2>2, <3>6, <3>8, <4>2
    <3>11. QED
      BY <3>9, <3>10
  <2>8. QED
    BY <1>1, <2>5, <2>6, <2>7, AnswerKeeps
<1>5. QED
  BY <1>1, <1>2, <1>3, <1>4 DEF AnswerTo

\* An answer is not nobody.
LEMMA AnswerIsOne ==
    ASSUME NobodyIsNoRecord, NEW outcome, NEW data
    PROVE  [outcome |-> outcome, data |-> data] # Nobody
BY DEF NobodyIsNoRecord

\* The store keeps the invariant.
LEMMA HandleKeeps ==
    ASSUME NobodyIsNoRecord, AllInv, Handle
    PROVE  AllInv'
<1>1. PICK m : m = Head(inbox)
  OBVIOUS
<1>2. /\ inbox # <<>> /\ inbox' = Tail(inbox) /\ now' = now /\ made' = made
      /\ Refuse(m) \/ SearchRows(m) \/ CreateRows(m) \/ AnswerOther(m)
  BY <1>1 DEF Handle
<1>3. TableInv /\ LineInv /\ JobInv
  BY DEF AllInv
<1>4. PICK M : inbox \in Seq(M)
  BY <1>3 DEF LineInv
<1>5. m = inbox[1] /\ 1 \in DOMAIN inbox
  BY <1>1, <1>2, <1>4
<1>6. IsMessage(m)
  BY <1>3, <1>5 DEF LineInv
<1>7. TableInv' /\ Grows
  BY <1>2, <1>3, <1>6, HandleWrites
<1>8. \E answer : answer # Nobody /\ AnswerTo(m, answer) /\ Reply(m, answer)
  <2>1. \A data : Ok(data) # Nobody /\ Ok(data).outcome = "ok"
    BY AnswerIsOne DEF Ok
  <2>2. \A outcome : Failed(outcome) # Nobody /\ Failed(outcome).outcome = outcome
    BY AnswerIsOne DEF Failed
  <2>3. CASE Refuse(m)
    BY <2>2, <2>3 DEF Refuse, AnswerTo, Outcomes
  <2>4. CASE SearchRows(m)
    <3>1. CASE ~Valid(m)
      BY <2>2, <2>4, <3>1 DEF SearchRows, AnswerTo, Outcomes
    <3>2. CASE Valid(m)
      <4>1. PICK a \in Answers(m, rows') :
                 Reply(m, IF Presentable(a) THEN Ok(a) ELSE Failed("invalid"))
        BY <2>4, <3>2 DEF SearchRows
      <4>2. CASE ~Presentable(a)
        BY <2>2, <4>1, <4>2 DEF AnswerTo, Outcomes
      <4>3. CASE Presentable(a)
        <5>1. AnswerTo(m, Ok(a))
          BY <2>1, <2>4, <3>2, <4>1, <4>3 DEF AnswerTo, SearchRows
        <5>2. QED
          BY <2>1, <4>1, <4>3, <5>1
      <4>4. QED
        BY <4>2, <4>3
    <3>3. QED
      BY <3>1, <3>2
  <2>5. CASE CreateRows(m)
    BY <2>1, <2>2, <2>5 DEF CreateRows, AnswerTo, Outcomes
  <2>6. CASE AnswerOther(m)
    BY <2>1, <2>2, <2>6 DEF AnswerOther, AnswerTo, Outcomes
  <2>7. QED
    BY <1>2, <2>3, <2>4, <2>5, <2>6
<1>9. PICK answer : answer # Nobody /\ AnswerTo(m, answer) /\ Reply(m, answer)
  BY <1>8
<1>10. ASSUME NEW j, NEW k, m.client # Nobody, j = job[m.client], k = With(j, answer)
       PROVE  JobFacts(k)'
  <2>1. j # Nobody /\ j.answer = Nobody /\ Carries(j, m) /\ m.client \in Clients
    BY <1>3, <1>5, <1>6, <1>10 DEF LineInv, IsMessage
  <2>2. JobFacts(j)
    BY <1>3, <1>10, <2>1 DEF JobInv
  <2>3. QED
    BY <1>2, <1>3, <1>6, <1>7, <1>9, <1>10, <2>1, <2>2, AnswerFits
<1>11. LineInv' /\ JobInv'
  BY <1>1, <1>2, <1>3, <1>7, <1>9, <1>10, Replied
<1>12. QED
  BY <1>2, <1>7, <1>11 DEF AllInv
-----------------------------------------------------------------------------
(* What is asked for.                                                      *)

\* Of one there is one to choose.
LEMMA TheOnly ==
    ASSUME NEW x
    PROVE  (CHOOSE w \in {x} : TRUE) = x
OBVIOUS

\* Where a window begins, is as far back as the request allows.
LEMMA WindowIs ==
    ASSUME now \in Nat, NEW f, \A k \in {"hours", "days"} \cap DOMAIN f : f[k] \in Int,
           NEW g, g = Windowed(f)
    PROVE  /\ DOMAIN g \subseteq DOMAIN f \cup {"reported_at"}
           /\ \A k \in DOMAIN g \ {"reported_at"} : g[k] = f[k]
           /\ \A k \in DOMAIN f \ {"hours", "days", "today"} : k \in DOMAIN g
           /\ "reported_at" \in DOMAIN f => g.reported_at = f.reported_at
           /\ "reported_at" \notin DOMAIN f =>
                 LET w == CASE "today" \in DOMAIN f -> Today
                            [] /\ "today" \notin DOMAIN f
                               /\ "hours" \in DOMAIN f /\ f.hours # Junk -> Since(f.hours)
                            [] /\ "today" \notin DOMAIN f
                               /\ "hours" \notin DOMAIN f \/ f.hours = Junk
                               /\ "days" \in DOMAIN f /\ f.days # Junk
                                  -> Since(f.days * HoursPerDay)
                            [] OTHER -> <<>>
                 IN  IF w = <<>> THEN "reported_at" \notin DOMAIN g
                     ELSE "reported_at" \in DOMAIN g /\ g.reported_at = w
<1> DEFINE windows == IF "today" \in DOMAIN f THEN {Today}
                      ELSE IF "hours" \in DOMAIN f /\ f.hours # Junk THEN {Since(f.hours)}
                      ELSE IF "days" \in DOMAIN f /\ f.days # Junk
                           THEN {Since(f.days * HoursPerDay)}
                      ELSE {}
           rest == Without(f, {"days", "hours", "today"})
           w == CASE "today" \in DOMAIN f -> Today
                  [] /\ "today" \notin DOMAIN f
                     /\ "hours" \in DOMAIN f /\ f.hours # Junk -> Since(f.hours)
                  [] /\ "today" \notin DOMAIN f
                     /\ "hours" \notin DOMAIN f \/ f.hours = Junk
                     /\ "days" \in DOMAIN f /\ f.days # Junk
                        -> Since(f.days * HoursPerDay)
                  [] OTHER -> <<>>
<1>1. /\ DOMAIN rest = DOMAIN f \ {"days", "hours", "today"}
      /\ \A k \in DOMAIN f \ {"days", "hours", "today"} : rest[k] = f[k]
  BY DEF Without, Restrict
<1>2. g = IF "reported_at" \in DOMAIN f \/ windows = {} THEN rest
          ELSE Over(rest, [reported_at |-> CHOOSE v \in windows : TRUE])
  BY DEF Windowed
<1>3. /\ windows = {} => w = <<>>
      /\ windows # {} => windows = {w}
  BY DEF Today, Since
<1>4. windows # {} => w # <<>>
  BY DEF Today, Since
<1> HIDE DEF windows, rest, w
<1>5. CASE "reported_at" \in DOMAIN f
  BY <1>1, <1>2, <1>5
<1>6. CASE "reported_at" \notin DOMAIN f /\ windows = {}
  BY <1>1, <1>2, <1>3, <1>6 DEF w
<1>7. CASE "reported_at" \notin DOMAIN f /\ windows # {}
  <2>1. windows = {w} /\ w # <<>>
    BY <1>3, <1>4, <1>7
  <2>2. g = Over(rest, [reported_at |-> w])
    BY <1>2, <1>7, <2>1, TheOnly
  <2>3. /\ DOMAIN g = DOMAIN rest \cup {"reported_at"} /\ g.reported_at = w
        /\ \A k \in DOMAIN rest : g[k] = rest[k]
    BY <1>1, <1>7, <2>2 DEF Over
  <2>4. QED
    BY <1>1, <1>7, <2>1, <2>3 DEF w
<1>8. QED
  BY <1>5, <1>6, <1>7

\* A feed asks for no more than it was asked.
LEMMA FeedFiltersAre ==
    ASSUME now \in Nat, NEW args, IsArgs(args), NEW f, f = Cleaned(args), ~IsSearch(f),
           "itype" \in DOMAIN f, Timed(f) \/ f.itype \in DOMAIN FEED_DAYS,
           NEW h, h = FeedFilters(f)
    PROVE  /\ "indicator" \notin DOMAIN h /\ Oldest(args, now) \in Int
           /\ "tags" \in DOMAIN h => "tags" \in DOMAIN args
           /\ LimitOf(h) \in Nat
           /\ IF "reported_at" \in DOMAIN h
              THEN h.reported_at[1] \in Int /\ Oldest(args, now) <= h.reported_at[1]
              ELSE Oldest(args, now) <= 0
<1> DEFINE a == Aged(f)
           g == Windowed(a)
           old == Oldest(args, now)
<1>1. /\ DOMAIN f = DOMAIN args \cup {"confidence"} /\ "indicator" \notin DOMAIN f
      /\ \A k \in DOMAIN args : f[k] = args[k]
  BY DEF Cleaned, IsSearch, Over
<1>2. /\ DOMAIN f \subseteq DOMAIN a /\ DOMAIN a \subseteq DOMAIN f \cup {"days"}
      /\ \A k \in DOMAIN f : a[k] = f[k]
      /\ Timed(f) => DOMAIN a = DOMAIN f
      /\ ~Timed(f) => "days" \in DOMAIN a /\ a.days = FEED_DAYS[args.itype]
                      /\ a.days \in Nat
  BY <1>1, QueriesAssumption DEF Aged, Over, Timed
<1> HIDE DEF a
<1>3. /\ \A k \in {"hours", "days"} \cap DOMAIN a : a[k] \in Int
      /\ "limit" \in DOMAIN a => a.limit \in Nat
      /\ "reported_at" \in DOMAIN a => a.reported_at[1] \in Int
  BY <1>1, <1>2 DEF IsArgs, Timed
<1> DEFINE w == CASE "today" \in DOMAIN a -> Today
                  [] /\ "today" \notin DOMAIN a
                     /\ "hours" \in DOMAIN a /\ a.hours # Junk -> Since(a.hours)
                  [] /\ "today" \notin DOMAIN a
                     /\ "hours" \notin DOMAIN a \/ a.hours = Junk
                     /\ "days" \in DOMAIN a /\ a.days # Junk
                        -> Since(a.days * HoursPerDay)
                  [] OTHER -> <<>>
<1>4. /\ DOMAIN g \subseteq DOMAIN a \cup {"reported_at"}
      /\ \A k \in DOMAIN g \ {"reported_at"} : g[k] = a[k]
      /\ "reported_at" \in DOMAIN a => "reported_at" \in DOMAIN g
      /\ "reported_at" \in DOMAIN a => g.reported_at = a.reported_at
      /\ "reported_at" \notin DOMAIN a =>
            IF w = <<>> THEN "reported_at" \notin DOMAIN g
            ELSE "reported_at" \in DOMAIN g /\ g.reported_at = w
  <2>1. PICK x, y : x = a /\ y = g
    OBVIOUS
  <2>2. y = Windowed(x) /\ \A k \in {"hours", "days"} \cap DOMAIN x : x[k] \in Int
    BY <1>3, <2>1
  <2> HIDE DEF g, w
  <2>3. QED
    BY <2>1, <2>2, WindowIs DEF w
<1> HIDE DEF g
<1>5. /\ DOMAIN h = DOMAIN g \cup {"limit"} /\ \A k \in DOMAIN g : h[k] = g[k]
      /\ "limit" \notin DOMAIN g => h.limit = FEEDS_LIMIT
  BY DEF FeedFilters, Limited, Over, g, a
<1>6. "indicator" \notin DOMAIN h /\ ("tags" \in DOMAIN h => "tags" \in DOMAIN args)
  BY <1>1, <1>2, <1>4, <1>5
<1>7. LimitOf(h) \in Nat
  BY <1>3, <1>4, <1>5, QueriesAssumption DEF LimitOf
<1>8. HoursPerDay \in Nat \ {0}
  BY QueriesAssumption
<1>9. CASE "reported_at" \in DOMAIN a
  <2>1. "reported_at" \in DOMAIN args /\ a.reported_at = args.reported_at
    BY <1>1, <1>2, <1>9 DEF Timed
  <2>2. old = a.reported_at[1]
    BY <2>1 DEF Oldest
  <2>3. "reported_at" \in DOMAIN h /\ h.reported_at = a.reported_at
    BY <1>4, <1>5, <1>9
  <2>4. QED
    BY <1>3, <1>6, <1>7, <1>9, <2>2, <2>3
<1>10. CASE "reported_at" \notin DOMAIN a
  <2>1. /\ "reported_at" \notin DOMAIN args
        /\ "today" \in DOMAIN a <=> "today" \in DOMAIN args
        /\ "hours" \in DOMAIN a <=> "hours" \in DOMAIN args
        /\ "hours" \in DOMAIN args => a.hours = args.hours /\ args.hours \in Int
        /\ "days" \in DOMAIN args => "days" \in DOMAIN a /\ a.days = args.days
                                     /\ args.days \in Int
        /\ "days" \notin DOMAIN args /\ "hours" \in DOMAIN args => "days" \notin DOMAIN a
        /\ "days" \notin DOMAIN args /\ "hours" \notin DOMAIN args =>
              /\ "days" \in DOMAIN a /\ a.days = FEED_DAYS[args.itype] /\ a.days \in Nat
    BY <1>1, <1>2, <1>10 DEF Timed, IsArgs
  <2>2. IF w = <<>> THEN old = 0 ELSE w[1] = old /\ old \in Int
    <3>1. CASE "today" \in DOMAIN a
      BY <1>8, <2>1, <3>1 DEF Oldest, Today
    <3>2. CASE "today" \notin DOMAIN a /\ "hours" \in DOMAIN a /\ a.hours # Junk
      <4>1. w = Since(a.hours) /\ old = now - a.hours /\ a.hours \in Int
        BY <2>1, <3>2 DEF Oldest
      <4>2. QED
        BY <4>1 DEF Since
    <3>3. CASE /\ "today" \notin DOMAIN a /\ ("hours" \notin DOMAIN a \/ a.hours = Junk)
               /\ "days" \in DOMAIN a /\ a.days # Junk
      <4>1. w = Since(a.days * HoursPerDay) /\ a.days \in Int
        BY <2>1, <3>3
      <4>2. old = now - a.days * HoursPerDay
        BY <2>1, <3>3 DEF Oldest
      <4>3. a.days * HoursPerDay \in Int
        BY <1>8, <4>1
      <4> HIDE DEF w, old
      <4>4. \A x : Since(x) # <<>> /\ Since(x)[1] = now - x
        BY DEF Since
      <4>5. w # <<>> /\ w[1] = now - a.days * HoursPerDay
        BY <4>1, <4>4
      <4>6. old \in Int
        BY <4>2, <4>3
      <4>7. QED
        BY <4>2, <4>5, <4>6
    <3>4. CASE /\ "today" \notin DOMAIN a /\ ("hours" \notin DOMAIN a \/ a.hours = Junk)
               /\ ("days" \notin DOMAIN a \/ a.days = Junk)
      <4>1. w = <<>>
        BY <3>4
      <4>2. old = 0
        BY <2>1, <3>4 DEF Oldest, Junk
      <4>3. QED
        BY <4>1, <4>2
    <3>5. QED
      BY <3>1, <3>2, <3>3, <3>4
  <2> HIDE DEF w, old
  <2>3. CASE w = <<>>
    <3>1. "reported_at" \notin DOMAIN h
      BY <1>4, <1>5, <1>10, <2>3
    <3>2. QED
      BY <1>6, <1>7, <2>2, <2>3, <3>1 DEF old
  <2>4. CASE w # <<>>
    <3>1. "reported_at" \in DOMAIN h /\ h.reported_at = w
      BY <1>4, <1>5, <1>10, <2>4
    <3>2. QED
      BY <1>6, <1>7, <2>2, <2>4, <3>1 DEF old
  <2>5. QED
    BY <2>3, <2>4
<1>11. QED
  BY <1>9, <1>10
-----------------------------------------------------------------------------
(* What clients do.                                                        *)

Quiet == UNCHANGED <<now, rows, reported, unlogged>>

\* Nothing happens to clients and the line.
LEMMA Still ==
    ASSUME TableInv, LineInv, JobInv, Grows, job' = job, inbox' = inbox
    PROVE  LineInv' /\ JobInv'
<1>1. JobInv'
  BY FactsStay DEF JobInv
<1>2. LineInv'
  <2>1. \A n \in DOMAIN inbox' : \A m : m = inbox'[n] => IsMessage(m)'
    BY MessageStays DEF LineInv
  <2>2. QED
    BY <2>1 DEF LineInv
<1>3. QED
  BY <1>1, <1>2

\* A client that asks keeps the invariant, if its job knows what it should.
LEMMA Asked ==
    ASSUME NobodyIsNoRecord, TableInv, LineInv, JobInv, Quiet, NEW c \in Clients, NotInLine(c),
           NEW j, NEW f, Ask(c, j, f), NEW k, k = [j EXCEPT !.answer = Nobody], JobFacts(k),
           k.req.endpoint = "search" =>
               /\ f = IF k.stage = "whitelist" THEN WhiteAt(k.filters, now) ELSE k.filters
               /\ "indicator" \in DOMAIN f => IsIndicator(f.indicator),
           k.req.endpoint = "create" => AreReports(f)
    PROVE  LineInv' /\ JobInv'
<1>1. Grows
  BY Idle DEF Quiet
<1>2. Fields \subseteq DOMAIN k /\ k = [x \in DOMAIN k |-> k[x]] /\ TokenOf(k.req) \in DOMAIN Rights
  BY DEF JobFacts, Shaped
<1>3. k # Nobody /\ k.answer = Nobody /\ k.req = j.req
  BY <1>2 DEF NobodyIsNoRecord, Fields
<1>4. JobFacts(k)'
  BY <1>1, FactsStay
<1>5. PICK m : m = [client |-> c, token |-> TokenOf(j.req), mtype |-> j.req.endpoint,
                    body |-> f, asked |-> now]
  OBVIOUS
<1>6. job' = [job EXCEPT ![c] = k] /\ inbox' = Append(inbox, m)
  BY <1>5 DEF Ask
<1>7. IsMessage(m)'
  <2>1. now' = now /\ now \in Nat
    BY QueriesAssumption DEF Quiet, TableInv
  <2>2. QED
    BY <1>2, <1>3, <1>5, <2>1 DEF IsMessage
<1>8. Carries(k, m)
  BY <1>3, <1>5 DEF Carries
<1>9. m.client = c
  BY <1>5
<1>10. QED
  BY <1>1, <1>3, <1>4, <1>6, <1>7, <1>8, <1>9, Asks

\* What a request is, when it gets past the first check.
LEMMA TokenIs ==
    ASSUME NEW req \in Requests, TokenOf(req) # NoToken
    PROVE  TokenOf(req) \in DOMAIN Rights
BY QueriesAssumption DEF TokenOf, IsRequest

NewJob(req, f, left, stage) ==
    [req |-> req, filters |-> f, left |-> left, stage |-> stage, got |-> {},
     answer |-> Nobody, known |-> rows, since |-> now]

\* The jobs that a request starts with.
LEMMA NewJobIs ==
    ASSUME NEW req, NEW f, NEW left
    PROVE  /\ Job(req) = NewJob(req, <<>>, <<>>, "search")
           /\ [Job(req) EXCEPT !.filters = f, !.left = left] = NewJob(req, f, left, "search")
           /\ [Job(req) EXCEPT !.filters = f, !.stage = "feed"] = NewJob(req, f, <<>>, "feed")
<1>1. PICK j : j = Job(req)
  OBVIOUS
<1>2. /\ j = [x \in DOMAIN j |-> j[x]] /\ DOMAIN j = Fields
      /\ j.req = req /\ j.filters = <<>> /\ j.left = <<>> /\ j.stage = "search"
      /\ j.got = {} /\ j.answer = Nobody /\ j.since = now /\ j.known = rows
  BY <1>1 DEF Job, Fields
<1>3. ASSUME NEW n, NEW l, NEW g, NEW stage, n = NewJob(req, g, l, stage)
      PROVE  /\ n = [x \in DOMAIN n |-> n[x]] /\ DOMAIN n = Fields
             /\ n.req = req /\ n.filters = g /\ n.left = l /\ n.stage = stage
             /\ n.got = {} /\ n.answer = Nobody /\ n.since = now /\ n.known = rows
  BY <1>3 DEF NewJob, Fields
<1>4. ASSUME NEW k, NEW n, k = [x \in DOMAIN k |-> k[x]], n = [x \in DOMAIN n |-> n[x]],
             DOMAIN k = Fields, DOMAIN n = Fields, \A x \in Fields : k[x] = n[x]
      PROVE  k = n
  BY <1>4
<1>5. Job(req) = NewJob(req, <<>>, <<>>, "search")
  <2>1. PICK n : n = NewJob(req, <<>>, <<>>, "search")
    OBVIOUS
  <2>2. \A x \in Fields : j[x] = n[x]
    BY <1>2, <1>3, <2>1 DEF Fields
  <2>3. j = n
    BY <1>2, <1>3, <1>4, <2>1, <2>2
  <2>4. QED
    BY <1>1, <2>1, <2>3
<1>6. [j EXCEPT !.filters = f, !.left = left] = NewJob(req, f, left, "search")
  <2>1. PICK n, k : /\ n = NewJob(req, f, left, "search")
                    /\ k = [j EXCEPT !.filters = f, !.left = left]
    OBVIOUS
  <2>2. k = [x \in DOMAIN k |-> k[x]] /\ DOMAIN k = Fields
    BY <1>2, <2>1
  <2>3. /\ k.req = req /\ k.filters = f /\ k.left = left /\ k.stage = "search"
        /\ k.got = {} /\ k.answer = Nobody /\ k.since = now /\ k.known = rows
    BY <1>2, <2>1 DEF Fields
  <2>4. /\ n = [x \in DOMAIN n |-> n[x]] /\ DOMAIN n = Fields
        /\ n.req = req /\ n.filters = f /\ n.left = left /\ n.stage = "search"
        /\ n.got = {} /\ n.answer = Nobody /\ n.since = now /\ n.known = rows
    BY <1>3, <2>1
  <2>5. \A x \in Fields : k[x] = n[x]
    BY <2>3, <2>4 DEF Fields
  <2>6. k = n
    BY <1>4, <2>2, <2>4, <2>5
  <2>7. QED
    BY <2>1, <2>6
<1>7. [j EXCEPT !.filters = f, !.stage = "feed"] = NewJob(req, f, <<>>, "feed")
  <2>1. PICK n, k : /\ n = NewJob(req, f, <<>>, "feed")
                    /\ k = [j EXCEPT !.filters = f, !.stage = "feed"]
    OBVIOUS
  <2>2. k = [x \in DOMAIN k |-> k[x]] /\ DOMAIN k = Fields
    BY <1>2, <2>1
  <2>3. /\ k.req = req /\ k.filters = f /\ k.left = <<>> /\ k.stage = "feed"
        /\ k.got = {} /\ k.answer = Nobody /\ k.since = now /\ k.known = rows
    BY <1>2, <2>1 DEF Fields
  <2>4. /\ n = [x \in DOMAIN n |-> n[x]] /\ DOMAIN n = Fields
        /\ n.req = req /\ n.filters = f /\ n.left = <<>> /\ n.stage = "feed"
        /\ n.got = {} /\ n.answer = Nobody /\ n.since = now /\ n.known = rows
    BY <1>3, <2>1
  <2>5. \A x \in Fields : k[x] = n[x]
    BY <2>3, <2>4 DEF Fields
  <2>6. k = n
    BY <1>4, <2>2, <2>4, <2>5
  <2>7. QED
    BY <2>1, <2>6
<1>8. QED
  BY <1>1, <1>5, <1>6, <1>7

\* They have the shape of one.
LEMMA NewShape ==
    ASSUME TableInv, NEW req \in Requests, TokenOf(req) # NoToken,
           NEW f, NEW left, NEW stage \in Stages,
           stage # "search" => req.endpoint = "search",
           req.endpoint # "search" => left = <<>>,
           NEW k, k = NewJob(req, f, left, stage)
    PROVE  /\ Shaped(k)
           /\ k.req = req /\ k.filters = f /\ k.left = left /\ k.stage = stage
           /\ k.got = {} /\ k.answer = Nobody /\ k.since = now
           /\ k = [k EXCEPT !.answer = Nobody]
<1>1. /\ k = [x \in DOMAIN k |-> k[x]] /\ DOMAIN k = Fields
      /\ k.req = req /\ k.filters = f /\ k.left = left /\ k.stage = stage
      /\ k.got = {} /\ k.answer = Nobody /\ k.since = now /\ k.known = rows
  BY DEF NewJob, Fields
<1>2. now \in Nat
  BY QueriesAssumption DEF TableInv
<1>3. KnownStay(k)
  <2>1. \A r \in rows : Newer(r, r)
    BY <1>2 DEF TableInv, IsTable, IsRow, Newer
  <2>2. QED
    BY <1>1, <2>1 DEF KnownStay
<1>4. Shaped(k)
  BY <1>1, <1>2, <1>3, TokenIs DEF Shaped
<1>5. k = [k EXCEPT !.answer = Nobody]
  BY <1>1
<1>6. QED
  BY <1>1, <1>4, <1>5

\* A search starts with its first indicator.
LEMMA FirstIs ==
    ASSUME NEW args, IsArgs(args), "indicator" \in DOMAIN args,
           NEW g, g = Without(args, {"no_feed"})
    PROVE  /\ "indicator" \in DOMAIN g
           /\ Limited(Aimed(g, g.indicator[1])) = SearchFor(args, 1)
           /\ Tail(g.indicator) = After(args.indicator, 1)
           /\ 1 \in 1..Len(args.indicator)
<1>1. /\ DOMAIN g = DOMAIN args \ {"no_feed"} /\ g = [x \in DOMAIN g |-> g[x]]
      /\ \A x \in DOMAIN args \ {"no_feed"} : g[x] = args[x]
  BY DEF Without, Restrict
<1>2. "indicator" \in DOMAIN g /\ g.indicator = args.indicator
  BY <1>1
<1>3. Limited(Aimed(g, g.indicator[1])) = SearchFor(args, 1)
  BY <1>2 DEF SearchFor
<1>4. Tail(g.indicator) = [n \in 1..(Len(args.indicator) - 1) |-> args.indicator[1 + n]]
      /\ 1 \in 1..Len(args.indicator)
  <2>1. PICK s : s = args.indicator
    OBVIOUS
  <2>2. Len(s) \in Nat \ {0} /\ s = [n \in 1..Len(s) |-> s[n]]
    BY <2>1 DEF IsArgs
  <2>3. s \in Seq({s[n] : n \in 1..Len(s)})
    BY <2>2
  <2>4. Tail(s) = [n \in 1..(Len(s) - 1) |-> s[1 + n]]
    <3> DEFINE t == Tail(s)
    <3>1. t \in Seq({s[n] : n \in 1..Len(s)}) /\ Len(t) = Len(s) - 1
      BY <2>2, <2>3
    <3>2. \A n \in 1..(Len(s) - 1) : t[n] = s[n + 1] /\ n + 1 = 1 + n
      BY <2>2, <2>3
    <3> HIDE DEF t
    <3>3. t = [n \in 1..(Len(s) - 1) |-> t[n]]
      BY <3>1
    <3>4. QED
      BY <3>2, <3>3 DEF t
  <2>5. QED
    BY <1>2, <2>1, <2>2, <2>4
<1>5. QED
  BY <1>2, <1>3, <1>4 DEF After

\* A request that comes in keeps the invariant.
LEMMA ArriveKeeps ==
    ASSUME NobodyIsNoRecord, AllInv, NEW c \in Clients, NEW req \in Requests, Arrive(c, req)
    PROVE  AllInv'
<1>1. TableInv /\ LineInv /\ JobInv /\ Quiet /\ NotInLine(c)
  BY IdleNotInLine DEF AllInv, Arrive, Quiet
<1>2. TableInv' /\ Grows
  BY <1>1, Idle DEF Quiet
<1>3. made' \in 0..MaxRequests
  BY QueriesAssumption DEF AllInv, Arrive
<1>4. SUFFICES LineInv' /\ JobInv'
  BY <1>2, <1>3 DEF AllInv
<1>5. ASSUME NEW status, NEW data, NEW j, Respond(c, j, status, data), inbox' = inbox
      PROVE  LineInv' /\ JobInv'
  <2>1. job' = [job EXCEPT ![c] = Nobody]
    BY <1>5 DEF Respond
  <2>2. QED
    BY <1>1, <1>2, <1>5, <2>1, Told
<1>6. CASE TokenOf(req) = NoToken
  BY <1>5, <1>6 DEF Arrive
<1>7. CASE TokenOf(req) # NoToken /\ req.endpoint # "search"
  <2>1. CASE req.endpoint = "update"
    BY <1>5, <1>7, <2>1 DEF Arrive, ArriveOther
  <2>2. CASE req.endpoint # "update"
    <3>1. Ask(c, Job(req), req.args)
      BY <1>7, <2>2 DEF Arrive, ArriveOther
    <3>2. PICK k : k = NewJob(req, <<>>, <<>>, "search")
      OBVIOUS
    <3>3. k = Job(req)
      BY <3>2, NewJobIs
    <3>4. /\ Shaped(k) /\ k.stage = "search" /\ k.req = req
          /\ k = [k EXCEPT !.answer = Nobody]
      BY <1>1, <1>7, <3>2, NewShape DEF Stages
    <3>5. JobFacts(k)
      BY <1>7, <3>4 DEF JobFacts
    <3>6. req.endpoint = "create" => AreReports(req.args)
      BY QueriesAssumption DEF IsRequest, AreReports
    <3>7. Ask(c, k, req.args)
      BY <3>1, <3>3
    <3>8. QED
      BY <1>1, <1>7, <3>3, <3>4, <3>5, <3>6, <3>7, Asked
  <2>3. QED
    BY <2>1, <2>2
<1>8. CASE TokenOf(req) # NoToken /\ req.endpoint = "search"
  <2>1. PICK args, f, g : args = req.args /\ f = Cleaned(args) /\ g = Without(f, {"no_feed"})
    OBVIOUS
  <2>2. IsArgs(args)
    BY <1>8, <2>1, QueriesAssumption DEF IsRequest
  <2>3. PICK first, left :
            /\ first = Limited(IF "indicator" \in DOMAIN g
                               THEN Aimed(g, g.indicator[1]) ELSE g)
            /\ left = IF "indicator" \in DOMAIN g THEN Tail(g.indicator) ELSE <<>>
    OBVIOUS
  <2>4. \/ Respond(c, Job(req), 400, {}) /\ UNCHANGED inbox
        \/ IsSearch(f) /\ Ask(c, [Job(req) EXCEPT !.filters = first, !.left = left], first)
        \/ /\ ~IsSearch(f) /\ "itype" \in DOMAIN f /\ (Timed(f) \/ f.itype \in DOMAIN FEED_DAYS)
           /\ Ask(c, [Job(req) EXCEPT !.filters = FeedFilters(f), !.stage = "feed"],
                  FeedFilters(f))
        \/ Respond(c, Job(req), 500, {}) /\ UNCHANGED inbox
    BY <1>8, <2>1, <2>3 DEF Arrive, ArriveSearch
  <2>5. CASE IsSearch(f) /\ Ask(c, [Job(req) EXCEPT !.filters = first, !.left = left], first)
    <3>1. PICK k : k = NewJob(req, first, left, "search")
      OBVIOUS
    <3>2. k = [Job(req) EXCEPT !.filters = first, !.left = left]
      BY <3>1, NewJobIs
    <3>3. /\ Shaped(k) /\ k.req = req /\ k.filters = first /\ k.left = left
          /\ k.stage = "search" /\ k.got = {} /\ k.answer = Nobody
          /\ k = [k EXCEPT !.answer = Nobody]
      BY <1>1, <1>8, <3>1, NewShape DEF Stages
    <3>4. CASE "indicator" \in DOMAIN args
      <4>1. f = args
        BY <2>1, <3>4 DEF Cleaned
      <4>2. /\ "indicator" \in DOMAIN g
            /\ Limited(Aimed(g, g.indicator[1])) = SearchFor(args, 1)
            /\ Tail(g.indicator) = After(args.indicator, 1)
            /\ 1 \in 1..Len(args.indicator)
        BY <2>1, <2>2, <3>4, <4>1, FirstIs
      <4>3. first = SearchFor(args, 1)
            /\ left = After(args.indicator, 1)
        BY <2>3, <4>2
      <4>4. "indicator" \in DOMAIN first => IsIndicator(first.indicator)
        BY <2>2, <3>4, <4>2, <4>3, SearchForIs
      <4>5. SearchedTo(k, 1)
        BY <2>1, <3>3, <4>3, FS_EmptySet DEF SearchedTo, Answered
      <4>6. JobFacts(k)
        BY <2>1, <3>3, <3>4, <4>2, <4>5 DEF JobFacts, SearchFacts
      <4>7. QED
        BY <1>1, <1>8, <2>5, <3>2, <3>3, <4>4, <4>6, Asked
    <3>5. CASE "indicator" \notin DOMAIN args
      <4>1. "indicator" \notin DOMAIN f
        BY <2>1, <3>5 DEF Cleaned, Over
      <4>2. "indicator" \notin DOMAIN g
        BY <2>1, <4>1 DEF Without, Restrict
      <4>3. left = <<>> /\ "indicator" \notin DOMAIN first
        BY <2>3, <4>2 DEF Limited, Over
      <4>4. JobFacts(k)
        BY <2>1, <3>3, <3>5, <4>3 DEF JobFacts, SearchFacts
      <4>5. QED
        BY <1>1, <1>8, <2>5, <3>2, <3>3, <4>3, <4>4, Asked
    <3>6. QED
      BY <3>4, <3>5
  <2>6. CASE /\ ~IsSearch(f) /\ "itype" \in DOMAIN f
             /\ (Timed(f) \/ f.itype \in DOMAIN FEED_DAYS)
             /\ Ask(c, [Job(req) EXCEPT !.filters = FeedFilters(f), !.stage = "feed"],
                    FeedFilters(f))
    <3>1. PICK k, h : h = FeedFilters(f) /\ k = NewJob(req, h, <<>>, "feed")
      OBVIOUS
    <3>2. k = [Job(req) EXCEPT !.filters = h, !.stage = "feed"]
      BY <3>1, NewJobIs
    <3>3. /\ Shaped(k) /\ k.req = req /\ k.filters = h /\ k.since = now
          /\ k.stage = "feed" /\ k.answer = Nobody /\ k = [k EXCEPT !.answer = Nobody]
      BY <1>1, <1>8, <3>1, NewShape DEF Stages
    <3>4. now \in Nat
      BY <1>1, QueriesAssumption DEF TableInv
    <3>5. FeedFilter(k)
      BY <2>1, <2>2, <2>6, <3>1, <3>3, <3>4, FeedFiltersAre DEF FeedFilter
    <3>6. JobFacts(k)
      BY <3>3, <3>5 DEF JobFacts, FeedFacts, Answered
    <3>7. "indicator" \notin DOMAIN h
      BY <3>3, <3>5 DEF FeedFilter
    <3>8. Ask(c, k, h)
      BY <2>6, <3>1, <3>2
    <3>9. QED
      BY <1>1, <1>8, <3>3, <3>6, <3>7, <3>8, Asked
  <2>7. QED
    BY <1>5, <2>4, <2>5, <2>6
<1>9. QED
  BY <1>6, <1>7, <1>8

\* Fewer than n together are fewer than n each.
LEMMA FewerEach ==
    ASSUME NEW A, IsFiniteSet(A), NEW B, IsFiniteSet(B), NEW n \in Nat,
           Cardinality(A \cup B) < n
    PROVE  Cardinality(A) < n /\ Cardinality(B) < n
<1>1. IsFiniteSet(A \cup B)
  BY FS_Union
<1>2. Cardinality(A) <= Cardinality(A \cup B) /\ Cardinality(B) <= Cardinality(A \cup B)
  BY <1>1, FS_Subset
<1>3. Cardinality(A) \in Nat /\ Cardinality(B) \in Nat /\ Cardinality(A \cup B) \in Nat
  BY <1>1, FS_CardinalityType
<1>4. QED
  BY <1>2, <1>3

\* What is sought does not depend on where a search has got to.
LEMMA SoughtAlike ==
    ASSUME NEW j, NEW k, k.known = j.known, k.req = j.req, k.since = j.since,
           DOMAIN k.filters \ {"indicator"} = DOMAIN j.filters \ {"indicator"},
           \A x \in DOMAIN j.filters \ {"indicator"} : k.filters[x] = j.filters[x],
           NEW q
    PROVE  /\ LimitOf(k.filters) = LimitOf(j.filters)
           /\ \A r : Sought(k, r, q) => Sought(j, r, q)
           /\ \A data : AllSought(j, q, data) => AllSought(k, q, data)
           /\ Traced(j, q) => Traced(k, q)
<1>1. LimitOf(k.filters) = LimitOf(j.filters)
  BY DEF LimitOf
<1>2. ASSUME NEW r, Sought(k, r, q) PROVE Sought(j, r, q)
  <2> DEFINE f == Without(k.filters, {"reported_at"})
             g == Without(j.filters, {"reported_at"})
  <2>1. /\ DOMAIN f \ {"indicator"} = DOMAIN g \ {"indicator"}
        /\ \A x \in DOMAIN g \ {"indicator"} : f[x] = g[x]
    BY DEF Without, Restrict
  <2>2. PassesTerms(r, f) /\ InGroups(r, k.filters, GroupsOf(k))
    BY <1>2 DEF Sought
  <2> HIDE DEF f, g
  <2>3. PassesTerms(r, g)
    <3>1. "reported_at" \in DOMAIN g => Within(r.reported_at, g.reported_at)
      BY <2>1, <2>2 DEF PassesTerms
    <3>2. "confidence" \in DOMAIN g => Within(r.confidence, g.confidence)
      BY <2>1, <2>2 DEF PassesTerms
    <3>3. "probability" \in DOMAIN g => ProbabilityPasses(r, g.probability)
      BY <2>1, <2>2 DEF PassesTerms
    <3>4. \A x \in EqualityColumns \cap DOMAIN g : x \in DOMAIN r /\ r[x] = g[x]
      BY <2>1, <2>2 DEF PassesTerms, EqualityColumns
    <3>5. QED
      BY <3>1, <3>2, <3>3, <3>4 DEF PassesTerms
  <2>4. InGroups(r, j.filters, GroupsOf(j))
    BY <2>2 DEF InGroups, GroupsOf
  <2>5. QED
    BY <1>2, <2>3, <2>4 DEF Sought, g
<1>3. \A data : AllSought(j, q, data) => AllSought(k, q, data)
  BY <1>1, <1>2 DEF AllSought
<1>4. Traced(j, q) => Traced(k, q)
  BY DEF Traced
<1>5. QED
  BY <1>1, <1>2, <1>3, <1>4

\* What is left of what is left.
LEMMA TailOf ==
    ASSUME NEW e \in Nat \ {0}, NEW s, s = [n \in 1..e |-> s[n]]
    PROVE  Len(s) = e /\ Head(s) = s[1] /\ Tail(s) = [n \in 1..(e - 1) |-> s[n + 1]]
<1> DEFINE T == {s[n] : n \in 1..e}
<1>1. s \in Seq(T)
  <2>1. s \in [1..e -> T]
    OBVIOUS
  <2>2. QED
    BY <2>1, SeqDef
<1> HIDE DEF T
<1>2. Len(s) = e
  <2>1. Len(s) \in Nat /\ DOMAIN s = 1..Len(s) /\ DOMAIN s = 1..e
    BY <1>1
  <2>2. QED
    BY <2>1
<1>3. s # <<>>
  BY <1>2
<1>4. Head(s) = s[1]
  BY <1>1, <1>3
<1>5. Tail(s) \in Seq(T) /\ Len(Tail(s)) = e - 1 /\ \A n \in 1..(e - 1) : Tail(s)[n] = s[n + 1]
  BY <1>1, <1>2, <1>3
<1>6. Tail(s) = [n \in 1..(e - 1) |-> Tail(s)[n]]
  BY <1>5
<1>7. QED
  BY <1>2, <1>4, <1>5, <1>6

\* The rest of a list, without its first.
LEMMA TailFrom ==
    ASSUME NEW i, Len(i) \in Nat, NEW d \in 1..Len(i), NEW s, s = After(i, d), s # <<>>
    PROVE  d + 1 \in 1..Len(i) /\ Head(s) = i[d + 1] /\ Tail(s) = After(i, d + 1)
<1>1. PICK l, e : l = Len(i) /\ e = l - d
  OBVIOUS
<1>2. /\ e \in Nat /\ DOMAIN s = 1..e /\ s = [n \in 1..e |-> s[n]]
      /\ e - 1 = l - (d + 1) /\ l \in Nat /\ d \in 1..l
      /\ \A n \in 1..e : s[n] = i[d + n]
  BY <1>1 DEF After
<1>3. e # 0
  BY <1>2
<1>4. Head(s) = s[1] /\ Tail(s) = [n \in 1..(e - 1) |-> s[n + 1]]
  BY <1>2, <1>3, TailOf
<1>5. d + 1 \in 1..l /\ s[1] = i[d + 1]
  BY <1>1, <1>2, <1>3
<1>6. ASSUME NEW n \in 1..(e - 1) PROVE s[n + 1] = i[(d + 1) + n]
  <2>1. n + 1 \in 1..e
    BY <1>2
  <2>2. d + (n + 1) = (d + 1) + n
    BY <1>2
  <2>3. QED
    BY <1>2, <2>1, <2>2
<1>7. Tail(s) = [n \in 1..(e - 1) |-> i[(d + 1) + n]]
  BY <1>4, <1>6
<1>8. QED
  BY <1>1, <1>2, <1>4, <1>5, <1>7 DEF After

\* A search for the next indicator differs from the last in nothing else.
LEMMA NextFor ==
    ASSUME NEW args, IsArgs(args), "indicator" \in DOMAIN args,
           NEW d \in 1..Len(args.indicator),
           NEW left, left = After(args.indicator, d), left # <<>>,
           NEW f, f = SearchFor(args, d), NEW g, g = Aimed(f, Head(left))
    PROVE  /\ d + 1 \in 1..Len(args.indicator) /\ g = SearchFor(args, d + 1)
           /\ Tail(left) = After(args.indicator, d + 1)
           /\ ("indicator" \in DOMAIN g => IsIndicator(g.indicator)) /\ LimitOf(g) \in Nat
           /\ DOMAIN g \ {"indicator"} = DOMAIN f \ {"indicator"}
           /\ \A x \in DOMAIN f \ {"indicator"} : g[x] = f[x]
<1>1. PICK i : i = args.indicator
  OBVIOUS
<1>2. Len(i) \in Nat /\ d \in 1..Len(i) /\ left = After(i, d)
  BY <1>1 DEF IsArgs
<1>4. d + 1 \in 1..Len(i) /\ Head(left) = i[d + 1] /\ Tail(left) = After(i, d + 1)
  BY <1>2, TailFrom
<1>5. g = SearchFor(args, d + 1)
  <2>1. PICK h : h = Without(args, {"no_feed"})
    OBVIOUS
  <2>2. f = Limited(Aimed(h, i[d]))
    BY <1>1, <2>1 DEF SearchFor
  <2>3. g = Limited(Aimed(h, i[d + 1]))
    BY <1>4, <2>2, AimedAgain
  <2>4. QED
    BY <1>1, <2>1, <2>3 DEF SearchFor
<1>6. d + 1 \in 1..Len(args.indicator)
  BY <1>1, <1>4
<1>7. ("indicator" \in DOMAIN g => IsIndicator(g.indicator)) /\ LimitOf(g) \in Nat
  <2>1. PICK e : e = d + 1
    OBVIOUS
  <2>2. e \in 1..Len(args.indicator) /\ g = SearchFor(args, e)
    BY <1>5, <1>6, <2>1
  <2>3. QED
    BY <2>2, SearchForIs
<1>8. /\ DOMAIN g \ {"indicator"} = DOMAIN f \ {"indicator"}
      /\ \A x \in DOMAIN f \ {"indicator"} : g[x] = f[x]
  BY AimedIs
<1>9. QED
  BY <1>1, <1>4, <1>5, <1>6, <1>7, <1>8

\* A search goes on with its next indicator.
LEMMA NextSearch ==
    ASSUME NEW j, JobFacts(j), j.stage = "search", Answered(j), j.left # <<>>,
           NEW k, k = [x \in DOMAIN k |-> k[x]], DOMAIN k = DOMAIN j,
           k.req = j.req, k.stage = j.stage, k.since = j.since, k.known = j.known,
           k.got = j.got \cup j.answer.data, k.left = Tail(j.left), k.answer = Nobody,
           k.filters = Aimed(j.filters, Head(j.left))
    PROVE  /\ JobFacts(k) /\ k.req.endpoint = "search"
           /\ "indicator" \in DOMAIN k.filters => IsIndicator(k.filters.indicator)
<1> DEFINE args == j.req.args
           ind == args.indicator
<1>2. j.req.endpoint = "search" /\ SearchFacts(j) /\ Shaped(j) /\ IsArgs(args)
  BY QueriesAssumption DEF JobFacts, Shaped, IsRequest
<1>3. "indicator" \in DOMAIN args
  BY <1>2 DEF SearchFacts
<1>4. PICK d \in 1..Len(ind) : SearchedTo(j, d)
  BY <1>2, <1>3 DEF SearchFacts
<1>6. /\ j.left = After(ind, d) /\ j.filters = SearchFor(args, d)
      /\ IsFiniteSet(j.got) /\ IsFiniteSet(j.answer.data)
      /\ \A r \in j.got : \E n \in 1..Len(ind) : Own(j, r, n)
      /\ \A r \in j.answer.data : Own(j, r, d)
      /\ \A n \in 1..(d - 1) : AllSought(j, ind[n], j.got) /\ Traced(j, ind[n])
      /\ AllSought(j, ind[d], j.answer.data) /\ Traced(j, ind[d])
  BY <1>4 DEF SearchedTo
<1>8. /\ d + 1 \in 1..Len(ind) /\ k.filters = SearchFor(args, d + 1)
      /\ Tail(j.left) = After(ind, d + 1)
      /\ "indicator" \in DOMAIN k.filters => IsIndicator(k.filters.indicator)
      /\ LimitOf(k.filters) \in Nat
      /\ DOMAIN k.filters \ {"indicator"} = DOMAIN j.filters \ {"indicator"}
      /\ \A x \in DOMAIN j.filters \ {"indicator"} : k.filters[x] = j.filters[x]
  <2>1. PICK a, left, f, g : a = args /\ left = j.left /\ f = j.filters /\ g = k.filters
    OBVIOUS
  <2>2. /\ IsArgs(a) /\ "indicator" \in DOMAIN a /\ d \in 1..Len(a.indicator)
        /\ left = After(a.indicator, d)
        /\ left # <<>> /\ f = SearchFor(a, d) /\ g = Aimed(f, Head(left))
    BY <1>2, <1>3, <1>6, <2>1
  <2>3. /\ d + 1 \in 1..Len(a.indicator) /\ g = SearchFor(a, d + 1)
        /\ Tail(left) = After(a.indicator, d + 1)
        /\ "indicator" \in DOMAIN g => IsIndicator(g.indicator)
        /\ LimitOf(g) \in Nat
        /\ DOMAIN g \ {"indicator"} = DOMAIN f \ {"indicator"}
        /\ \A x \in DOMAIN f \ {"indicator"} : g[x] = f[x]
    BY <2>2, NextFor
  <2>4. QED
    BY <2>1, <2>3
<1>15. ASSUME NEW q
       PROVE  /\ LimitOf(k.filters) = LimitOf(j.filters)
              /\ \A data : AllSought(j, q, data) => AllSought(k, q, data)
              /\ Traced(j, q) => Traced(k, q)
  <2>1. /\ k.known = j.known /\ k.req = j.req /\ k.since = j.since
        /\ DOMAIN k.filters \ {"indicator"} = DOMAIN j.filters \ {"indicator"}
        /\ \A x \in DOMAIN j.filters \ {"indicator"} : k.filters[x] = j.filters[x]
    BY <1>8
  <2>2. PICK x : x = k
    OBVIOUS
  <2>3. /\ LimitOf(x.filters) = LimitOf(j.filters)
        /\ \A data : AllSought(j, q, data) => AllSought(x, q, data)
        /\ Traced(j, q) => Traced(x, q)
    BY <2>1, <2>2, SoughtAlike
  <2>4. QED
    BY <2>2, <2>3
<1>16. ASSUME NEW n \in 1..((d + 1) - 1)
       PROVE  AllSought(k, ind[n], k.got) /\ Traced(k, ind[n])
  <2>1. Cardinality(k.got) < LimitOf(k.filters)
        => Cardinality(j.got) < LimitOf(k.filters)
           /\ Cardinality(j.answer.data) < LimitOf(k.filters)
    BY <1>6, <1>8, FewerEach
  <2>2. CASE n = d
    <3>1. AllSought(k, ind[n], j.answer.data) /\ Traced(k, ind[n])
      BY <1>6, <1>15, <2>2
    <3>2. QED
      BY <2>1, <3>1 DEF AllSought
  <2>3. CASE n # d
    <3>1. n \in 1..(d - 1)
      BY <2>3
    <3>2. AllSought(k, ind[n], j.got) /\ Traced(k, ind[n])
      BY <1>6, <1>15, <3>1
    <3>3. QED
      BY <2>1, <3>2 DEF AllSought
  <2>4. QED
    BY <2>2, <2>3
<1>17. SearchedTo(k, d + 1)
  <2>1. IsFiniteSet(k.got)
    <3>1. IsFiniteSet(j.got \cup j.answer.data)
      BY <1>6, FS_Union
    <3>2. QED
      BY <3>1
  <2>2. \A r \in k.got : \E n \in 1..Len(ind) : Own(k, r, n)
    BY <1>6 DEF Own, GroupsOf
  <2>3. k.left = After(ind, d + 1)
    BY <1>8
  <2>4. QED
    BY <1>8, <1>16, <2>1, <2>2, <2>3 DEF SearchedTo, Answered
<1>18. Shaped(k)
  BY <1>2 DEF Shaped, KnownStay
<1>19. JobFacts(k)
  BY <1>2, <1>3, <1>8, <1>17, <1>18 DEF JobFacts, SearchFacts
<1>20. QED
  BY <1>2, <1>8, <1>19

\* A feed goes on with the whitelist.
LEMMA NextFeed ==
    ASSUME now \in Nat, NEW j, JobFacts(j), j.stage = "feed", Answered(j),
           NEW k, k = [x \in DOMAIN k |-> k[x]], DOMAIN k = DOMAIN j,
           k.req = j.req, k.stage = "whitelist", k.since = j.since, k.known = j.known,
           k.got = j.answer.data, k.left = j.left, k.answer = Nobody, k.filters = j.filters,
           NEW f, f = WhitelistFilters(k.filters)
    PROVE  /\ JobFacts(k) /\ k.req.endpoint = "search"
           /\ f = WhiteAt(k.filters, now) /\ "indicator" \notin DOMAIN f
<1>1. Shaped(j) /\ FeedFacts(j) /\ j.req.endpoint = "search"
  BY DEF JobFacts, Shaped
<1>2. Shaped(k)
  BY <1>1 DEF Shaped, KnownStay, Stages
<1>3. FeedFilter(k)
  BY <1>1 DEF FeedFacts, FeedFilter
<1>4. WasReported(k, k.got)
  BY <1>1 DEF FeedFacts, WasReported
<1>5. JobFacts(k)
  BY <1>2, <1>3, <1>4 DEF JobFacts, FeedFacts, Answered
<1>6. f = WhiteAt(k.filters, now)
  BY DEF WhiteAt, WhitelistFilters
<1>7. "indicator" \notin DOMAIN f
  <2>1. now \in Int
    OBVIOUS
  <2>2. "indicator" \notin DOMAIN k.filters
    BY <1>3 DEF FeedFilter
  <2>3. PICK g : g = k.filters
    OBVIOUS
  <2>4. "indicator" \in DOMAIN f <=> "indicator" \in DOMAIN g
    BY <1>6, <2>1, <2>3, WhiteIs
  <2>5. QED
    BY <2>2, <2>3, <2>4
<1>8. QED
  BY <1>1, <1>5, <1>6, <1>7

\* An answer that is taken keeps the invariant.
LEMMA ContinueKeeps ==
    ASSUME NobodyIsNoRecord, AllInv, NEW c \in Clients, Continue(c)
    PROVE  AllInv'
<1>1. PICK j : j = job[c]
  OBVIOUS
<1>2. /\ TableInv /\ LineInv /\ JobInv /\ Quiet /\ made' = made
      /\ j # Nobody /\ j.answer # Nobody /\ NotInLine(c)
  BY <1>1, IdleNotInLine DEF AllInv, Continue, Quiet
<1>3. JobFacts(j) /\ Shaped(j)
  BY <1>1, <1>2 DEF JobInv, JobFacts
<1>4. TableInv' /\ Grows
  BY <1>2, Idle DEF Quiet
<1>5. now \in Nat
  BY <1>2, QueriesAssumption DEF TableInv
<1>6. j = [x \in DOMAIN j |-> j[x]] /\ Fields \subseteq DOMAIN j
  BY <1>3 DEF Shaped
<1> DEFINE next == Aimed(j.filters, Head(j.left))
           more == [[j EXCEPT !.got = @ \cup j.answer.data]
                       EXCEPT !.left = Tail(@), !.filters = next]
           pulled == [j EXCEPT !.got = j.answer.data, !.stage = "whitelist"]
<1>7. \/ (\E status, data : Respond(c, j, status, data)) /\ inbox' = inbox
      \/ /\ j.stage = "search" /\ Answered(j) /\ j.left # <<>>
         /\ Ask(c, more, next)
      \/ /\ j.stage = "feed" /\ Answered(j)
         /\ Ask(c, pulled, WhitelistFilters(j.filters))
  BY <1>1, <1>2, <1>3 DEF Continue, GoOn, FeedPulled, WhitelistPulled, Answered, Shaped, Stages
<1>8. CASE (\E status, data : Respond(c, j, status, data)) /\ inbox' = inbox
  <2>1. job' = [job EXCEPT ![c] = Nobody]
    BY <1>8 DEF Respond
  <2>2. LineInv' /\ JobInv'
    BY <1>2, <1>4, <1>8, <2>1, Told
  <2>3. QED
    BY <1>2, <1>4, <2>2 DEF AllInv
<1>9. CASE /\ j.stage = "search" /\ Answered(j) /\ j.left # <<>>
           /\ Ask(c, more, next)
  <2>1. PICK i, k : i = more /\ k = [i EXCEPT !.answer = Nobody]
    OBVIOUS
  <2>2. /\ k = [x \in DOMAIN k |-> k[x]] /\ DOMAIN k = DOMAIN j
        /\ k.req = j.req /\ k.stage = j.stage /\ k.since = j.since /\ k.known = j.known
        /\ k.got = j.got \cup j.answer.data /\ k.left = Tail(j.left) /\ k.answer = Nobody
        /\ k.filters = next
    BY <1>6, <2>1 DEF Fields
  <2>3. /\ JobFacts(k) /\ k.req.endpoint = "search"
        /\ "indicator" \in DOMAIN k.filters => IsIndicator(k.filters.indicator)
    BY <1>3, <1>9, <2>2, NextSearch
  <2>4. PICK f : f = next
    OBVIOUS
  <2>5. /\ Ask(c, i, f) /\ f = k.filters /\ k.stage # "whitelist"
        /\ "indicator" \in DOMAIN f => IsIndicator(f.indicator)
        /\ k = [i EXCEPT !.answer = Nobody]
    BY <1>9, <2>1, <2>2, <2>3, <2>4
  <2>8. /\ k.req.endpoint = "search" =>
              /\ f = IF k.stage = "whitelist" THEN WhiteAt(k.filters, now) ELSE k.filters
              /\ "indicator" \in DOMAIN f => IsIndicator(f.indicator)
        /\ k.req.endpoint = "create" => AreReports(f)
    BY <2>3, <2>5
  <2>9. Ask(c, i, f) /\ k = [i EXCEPT !.answer = Nobody] /\ JobFacts(k)
    BY <2>3, <2>5
  <2> HIDE DEF next, more
  <2>6. LineInv' /\ JobInv'
    BY <1>2, <2>8, <2>9, Asked
  <2>7. QED
    BY <1>2, <1>4, <2>6 DEF AllInv
<1>10. CASE /\ j.stage = "feed" /\ Answered(j)
            /\ Ask(c, pulled, WhitelistFilters(j.filters))
  <2>1. PICK i, k, f : /\ i = pulled /\ k = [i EXCEPT !.answer = Nobody]
                       /\ f = WhitelistFilters(j.filters)
    OBVIOUS
  <2>2. /\ k = [x \in DOMAIN k |-> k[x]] /\ DOMAIN k = DOMAIN j
        /\ k.req = j.req /\ k.stage = "whitelist" /\ k.since = j.since /\ k.known = j.known
        /\ k.got = j.answer.data /\ k.left = j.left /\ k.answer = Nobody
        /\ k.filters = j.filters
    BY <1>6, <2>1 DEF Fields
  <2>3. Ask(c, i, f) /\ f = WhitelistFilters(k.filters)
    BY <1>10, <2>1, <2>2
  <2>4. /\ JobFacts(k) /\ k.req.endpoint = "search"
        /\ f = WhiteAt(k.filters, now) /\ "indicator" \notin DOMAIN f
    BY <1>3, <1>5, <1>10, <2>2, <2>3, NextFeed
  <2> HIDE DEF pulled
  <2>5. LineInv' /\ JobInv'
    BY <1>2, <2>1, <2>2, <2>3, <2>4, Asked
  <2>6. QED
    BY <1>2, <1>4, <2>5 DEF AllInv
<1>11. QED
  BY <1>7, <1>8, <1>9, <1>10

\* So does a client that gives up.
LEMMA GiveUpKeeps ==
    ASSUME AllInv, NEW c \in Clients, GiveUp(c)
    PROVE  AllInv'
<1>1. /\ TableInv /\ LineInv /\ JobInv /\ Quiet /\ made' = made
      /\ job' = [job EXCEPT ![c] = Nobody] /\ inbox' = Orphaned(c)
  BY DEF AllInv, GiveUp, Quiet, Respond
<1>2. TableInv' /\ Grows
  BY <1>1, Idle DEF Quiet
<1>3. LineInv' /\ JobInv'
  BY <1>1, <1>2, Told
<1>4. QED
  BY <1>1, <1>2, <1>3 DEF AllInv

\* Time passes, or nothing does.
LEMMA TickKeeps ==
    ASSUME AllInv, Tick \/ UNCHANGED vars
    PROVE  AllInv'
<1>1. /\ TableInv /\ LineInv /\ JobInv /\ made' = made /\ job' = job /\ inbox' = inbox
      /\ UNCHANGED <<rows, reported, unlogged>>
      /\ now' = now \/ (now < MaxNow /\ now' = now + 1)
  BY DEF AllInv, Tick, vars
<1>2. TableInv' /\ Grows
  BY <1>1, Idle
<1>3. LineInv' /\ JobInv'
  BY <1>1, <1>2, Still
<1>4. QED
  BY <1>1, <1>2, <1>3 DEF AllInv

\* The invariant holds at the start,
LEMMA InitHolds ==
    ASSUME Init
    PROVE  AllInv
<1>1. PICK table \in Tables : /\ rows = {At(r, 0) : r \in table}
                              /\ reported = {<<r.value, 0>> : r \in table}
  BY DEF Init
<1>2. IsFiniteSet(table) /\ IsUnique(table) /\ \A r \in table : IsRecord(r)
  BY QueriesAssumption
<1>3. now = 0
  BY DEF Init
<1>4. ASSUME NEW r \in table
      PROVE  IsRow(At(r, 0), 0) /\ At(r, 0).value = r.value /\ At(r, 0).reported_at = 0
  BY <1>2, AtIs
<1>5. IsFiniteSet(rows)
  <2> DEFINE at == [r \in table |-> At(r, 0)]
  <2>1. rows = {at[r] : r \in table}
    BY <1>1
  <2> HIDE DEF at
  <2>2. QED
    BY <1>2, <2>1, FiniteImage
<1>6. \A r \in rows : IsRow(r, 0) /\ r.reported_at = 0 /\ <<r.value, 0>> \in reported
  BY <1>1, <1>4
<1>7. TableInv
  <2>1. now \in 0..MaxNow
    BY <1>3, QueriesAssumption
  <2>2. IsTable(rows, now)
    <3>1. IsUnique(rows)
      <4> SUFFICES ASSUME NEW q \in table, NEW r \in table,
                          Again(At(q, 0), At(r, 0)), Again(At(r, 0), At(q, 0))
                   PROVE  q = r
        BY <1>1 DEF IsUnique
      <4>1. SameElse(At(q, 0), q) /\ SameElse(At(r, 0), r)
        BY <1>2, AtIs
      <4>2. Again(q, At(r, 0)) /\ Again(At(r, 0), q)
        BY <4>1, FoundAlike
      <4>3. Again(q, r) /\ Again(r, q)
        BY <4>1, <4>2, FoundAlike
      <4>4. QED
        BY <1>2, <4>3 DEF IsUnique
    <3>2. QED
      BY <1>3, <1>5, <1>6, <3>1 DEF IsTable
  <2>3. TrueTimes
    BY <1>6 DEF TrueTimes
  <2>4. QED
    BY <2>1, <2>2, <2>3 DEF TableInv
<1>8. LineInv
  <2>1. inbox \in Seq({})
    BY DEF Init
  <2>2. DOMAIN inbox = {}
    BY DEF Init
  <2>3. QED
    BY <2>1, <2>2 DEF LineInv
<1>9. JobInv
  BY DEF Init, JobInv
<1>10. made \in 0..MaxRequests
  BY QueriesAssumption DEF Init
<1>11. QED
  BY <1>7, <1>8, <1>9, <1>10 DEF AllInv

\* and every step keeps it.
LEMMA NextKeeps ==
    ASSUME NobodyIsNoRecord, AllInv, [Next]_vars
    PROVE  AllInv'
BY ArriveKeeps, ContinueKeeps, GiveUpKeeps, HandleKeeps, TickKeeps DEF Next
-----------------------------------------------------------------------------
(* What the responses are.                                                 *)

Promises == FeedClean /\ FeedReported /\ AnswersOwn /\ FindsAll /\ Traceable

\* A response that is not one to GET /indicators, or not 200, promises nothing.
LEMMA NoPromise ==
    ASSUME ~Served'
    PROVE  Promises'
BY DEF Promises, FeedClean, FeedReported, AnswersOwn, FindsAll, Traceable,
       ServedFeed, ServedSearch

\* The response in terms of the job.
LEMMA ResponseIs ==
    ASSUME NobodyIsNoRecord, NEW j, Fields \subseteq DOMAIN j, NEW status, NEW data,
           NEW l, l = Over([status |-> status, got |-> data], j)
    PROVE  /\ l # Nobody /\ l.status = status /\ l.got = data
           /\ l.req = j.req /\ l.filters = j.filters /\ l.stage = j.stage
           /\ l.known = j.known /\ l.since = j.since
<1>1. /\ l = [x \in DOMAIN l |-> l[x]] /\ l.status = status /\ l.got = data
      /\ l.req = j.req /\ l.filters = j.filters /\ l.stage = j.stage
      /\ l.known = j.known /\ l.since = j.since
  BY DEF Over, Fields
<1>2. QED
  BY <1>1 DEF NobodyIsNoRecord

\* All that was got is what the last answer left to get.
LEMMA Complete ==
    ASSUME NEW j, JobFacts(j), j.stage = "search", j.req.endpoint = "search",
           Answered(j), j.left = <<>>, "indicator" \in DOMAIN j.req.args,
           NEW got, got = j.got \cup j.answer.data, NEW ind, ind = j.req.args.indicator
    PROVE  /\ DOMAIN ind = 1..Len(ind)
           /\ \A r \in got : \E n \in 1..Len(ind) : Own(j, r, n)
           /\ Cardinality(got) < LimitOf(j.filters) =>
                 \A k \in j.known, n \in 1..Len(ind) :
                     Sought(j, k, ind[n]) => \E r \in got : Alike(r, k)
           /\ \A n \in 1..Len(ind) : Traced(j, ind[n])
<1>1. SearchFacts(j) /\ Shaped(j) /\ IsArgs(j.req.args)
  BY QueriesAssumption DEF JobFacts, Shaped, IsRequest
<1>2. "indicator" \in DOMAIN j.req.args
  OBVIOUS
<1>3. PICK d \in 1..Len(ind) : SearchedTo(j, d)
  BY <1>1, <1>2 DEF SearchFacts
<1>4. Len(ind) \in Nat /\ ind = [n \in 1..Len(ind) |-> ind[n]]
  BY <1>1, <1>2 DEF IsArgs
<1>5. /\ j.left = After(ind, d) /\ j.filters = SearchFor(j.req.args, d)
      /\ IsFiniteSet(j.got) /\ IsFiniteSet(j.answer.data)
      /\ \A r \in j.got : \E n \in 1..Len(ind) : Own(j, r, n)
      /\ \A r \in j.answer.data : Own(j, r, d)
      /\ \A n \in 1..(d - 1) : AllSought(j, ind[n], j.got) /\ Traced(j, ind[n])
      /\ AllSought(j, ind[d], j.answer.data) /\ Traced(j, ind[d])
  BY <1>3 DEF SearchedTo
<1>6. d = Len(ind)
  <2>1. DOMAIN After(ind, d) = 1..(Len(ind) - d)
    BY DEF After
  <2>2. DOMAIN After(ind, d) = {}
    BY <1>5
  <2>3. QED
    BY <1>4, <2>1, <2>2
<1>7. \A n \in 1..Len(ind) : n = d \/ n \in 1..(d - 1)
  BY <1>4, <1>6
<1>8. LimitOf(j.filters) \in Nat
  <2>1. PICK a, f : a = j.req.args /\ f = j.filters
    OBVIOUS
  <2>2. IsArgs(a) /\ "indicator" \in DOMAIN a /\ d \in 1..Len(a.indicator) /\ f = SearchFor(a, d)
    BY <1>1, <1>2, <1>5, <2>1
  <2>3. LimitOf(f) \in Nat
    BY <2>2, SearchForIs
  <2>4. QED
    BY <2>1, <2>3
<1>9. ASSUME Cardinality(got) < LimitOf(j.filters), NEW k \in j.known,
             NEW n \in 1..Len(ind), Sought(j, k, ind[n])
      PROVE  \E r \in got : Alike(r, k)
  <2>1. /\ Cardinality(j.got) < LimitOf(j.filters)
        /\ Cardinality(j.answer.data) < LimitOf(j.filters)
    BY <1>5, <1>8, <1>9, FewerEach
  <2>2. CASE n = d
    BY <1>5, <1>9, <2>1, <2>2 DEF AllSought
  <2>3. CASE n \in 1..(d - 1)
    BY <1>5, <1>9, <2>1, <2>3 DEF AllSought
  <2>4. QED
    BY <1>7, <2>2, <2>3
<1>10. \A n \in 1..Len(ind) : Traced(j, ind[n])
  BY <1>5, <1>7
<1>11. \A r \in got : \E n \in 1..Len(ind) : Own(j, r, n)
  BY <1>5
<1>12. DOMAIN ind = 1..Len(ind)
  BY <1>4
<1>13. QED
  BY <1>9, <1>10, <1>11, <1>12

\* What a search promises, of its response.
LEMMA SearchPromises ==
    ASSUME NEW l, l = last', ~ServedFeed', rows' = rows, unlogged' = unlogged,
           NEW ind, ind = l.req.args.indicator,
           ServedSearch' => \A r \in l.got : \E n \in DOMAIN ind : Own(l, r, n),
           ServedSearch' /\ Cardinality(l.got) < LimitOf(l.filters) =>
               \A k \in l.known, n \in DOMAIN ind :
                   Sought(l, k, ind[n]) => \E r \in l.got : Alike(r, k),
           ServedSearch' => \A n \in DOMAIN ind : Traced(l, ind[n])
    PROVE  Promises'
<1>1. AnswersOwn'
  BY DEF AnswersOwn, Own
<1>2. \A r, k : Alike(r, k) => Without(r, {"reported_at", "messages"})
                                = Without(k, {"reported_at", "messages"})
  BY DEF Alike, Without, Restrict
<1>3. FindsAll'
  <2>1. ASSUME ServedSearch', Cardinality(l.got) < LimitOf(l.filters), NEW k \in l.known,
               NEW n \in DOMAIN ind, Inside(k.value, ind[n]),
               ind[n].kind \notin Hashes \cup {"email"},
               PassesTerms(k, Without(l.filters, {"reported_at"})),
               InGroups(k, l.filters, GroupsOf(l)),
               \A f \in {"tags", "reported_at"} : f \notin DOMAIN l.filters
        PROVE  \E r \in l.got : Without(r, {"reported_at", "messages"})
                                 = Without(k, {"reported_at", "messages"})
    <3>1. Sought(l, k, ind[n])
      BY <2>1 DEF Sought
    <3>2. QED
      BY <1>2, <2>1, <3>1
  <2>2. QED
    BY <2>1 DEF FindsAll
<1>4. Traceable'
  <2>1. ASSUME ServedSearch', "nolog" \notin DOMAIN l.filters, NEW n \in DOMAIN ind
        PROVE  \/ ind[n] = Blank \/ Wild(ind[n]) \/ ind[n] \in unlogged
               \/ \E r \in rows : /\ r.value = ind[n] /\ "search" \in r.tags
                                  /\ r.provider = Users[TokenOf(l.req)].username
                                  /\ r.reported_at >= l.since
    BY <2>1 DEF Traced
  <2>2. QED
    BY <2>1 DEF Traceable
<1>5. QED
  BY <1>1, <1>3, <1>4 DEF Promises, FeedClean, FeedReported

\* What the last answer of a search completes keeps the promises.
LEMMA SearchServed ==
    ASSUME NEW j, JobFacts(j), j.stage = "search",
           j.req.endpoint = "search", Answered(j), j.left = <<>>,
           NEW l, l = last', NEW got, got = j.got \cup j.answer.data, l.got = got,
           l.req = j.req, l.filters = j.filters, l.stage = "search",
           l.known = j.known, l.since = j.since,
           rows' = rows, unlogged' = unlogged
    PROVE  Promises'
<1>1. PICK ind : ind = j.req.args.indicator
  OBVIOUS
<1>4. ServedSearch' => "indicator" \in DOMAIN j.req.args
  BY DEF ServedSearch
<1>5. ~ServedFeed'
  BY DEF ServedFeed
<1>6. ASSUME ServedSearch'
      PROVE  /\ DOMAIN ind = 1..Len(ind)
             /\ \A r \in got : \E n \in 1..Len(ind) : Own(j, r, n)
             /\ Cardinality(got) < LimitOf(j.filters) =>
                   \A k \in j.known, n \in 1..Len(ind) :
                       Sought(j, k, ind[n]) => \E r \in got : Alike(r, k)
             /\ \A n \in 1..Len(ind) : Traced(j, ind[n])
  BY <1>1, <1>4, <1>6, Complete
<1>7. \A k, q : Sought(l, k, q) => Sought(j, k, q)
  BY DEF Sought, GroupsOf
<1>8. \A q : Traced(j, q) => Traced(l, q)
  BY DEF Traced
<1>9. PICK ask : ask = l.req.args.indicator
  OBVIOUS
<1>10. ask = ind /\ (ServedSearch' => DOMAIN ask = 1..Len(ask))
  BY <1>1, <1>6, <1>9
<1>11. ServedSearch' => \A r \in l.got : \E n \in DOMAIN ask : Own(l, r, n)
  BY <1>6, <1>10 DEF Own, GroupsOf
<1>12. ServedSearch' => \A n \in DOMAIN ask : Traced(l, ask[n])
  BY <1>6, <1>8, <1>10
<1>13. ASSUME ServedSearch', Cardinality(l.got) < LimitOf(l.filters), NEW k \in l.known,
              NEW n \in DOMAIN ask, Sought(l, k, ask[n])
       PROVE  \E r \in l.got : Alike(r, k)
  <2>1. Cardinality(got) < LimitOf(j.filters) /\ k \in j.known
    BY <1>13
  <2>2. n \in 1..Len(ind) /\ Sought(j, k, ind[n])
    BY <1>7, <1>10, <1>13
  <2>3. \E r \in got : Alike(r, k)
    BY <1>6, <1>13, <2>1, <2>2
  <2>4. QED
    BY <2>3
<1>14. QED
  BY <1>5, <1>9, <1>11, <1>12, <1>13, SearchPromises

\* So does a feed, without what its whitelist covers.
LEMMA FeedServed ==
    ASSUME NobodyIsNoRecord, NEW j, JobFacts(j), j.stage = "whitelist", Answered(j),
           last' = Over([status |-> 200, got |-> Feed(j.got, j.answer.data)], j),
           rows' = rows, reported' = reported, unlogged' = unlogged, now' = now
    PROVE  Promises'
<1>1. PICK l, got, data : /\ l = last' /\ got = Feed(j.got, j.answer.data)
                          /\ data = j.answer.data
  OBVIOUS
<1>2. Fields \subseteq DOMAIN j /\ FeedFacts(j)
  BY DEF JobFacts, Shaped
<1>3. /\ l # Nobody /\ l.status = 200 /\ l.got = got
      /\ l.req = j.req /\ l.filters = j.filters /\ l.stage = "whitelist"
      /\ l.known = j.known /\ l.since = j.since
  <2>1. l = Over([status |-> 200, got |-> got], j)
    BY <1>1
  <2>2. QED
    BY <1>2, <2>1, ResponseIs
<1>4. ~ServedSearch'
  BY <1>1, <1>3 DEF ServedSearch
<1>5. \A r \in got : r \in j.got /\ \A x \in data : ~Covers(x.value, r.value)
  BY <1>1 DEF Feed
<1>6. FeedReported'
  <2> SUFFICES ASSUME "tags" \notin DOMAIN l.req.args, NEW r \in l.got
               PROVE  \/ \E t \in Oldest(l.req.args, l.since)..now : <<r.value, t>> \in reported
                      \/ Disturbed(r)
    BY <1>1 DEF FeedReported, Disturbed
  <2>1. r \in j.got /\ WasReported(j, j.got)
    BY <1>2, <1>3, <1>5 DEF FeedFacts
  <2>2. QED
    BY <1>3, <2>1 DEF WasReported
<1>7. FeedClean'
  <2> SUFFICES ASSUME Cardinality(Whitelisted(rows)) <= FEEDS_WHITELIST_LIMIT,
                      NEW r \in l.got, NEW w \in l.known, "whitelist" \in w.tags,
                      w.confidence >= HTTPD_FEED_WHITELIST_CONFIDENCE,
                      w.reported_at >= now - FEEDS_WHITELIST_DAYS * HoursPerDay,
                      PassesTerms(w, Without(l.filters, {"confidence", "reported_at"})),
                      InGroups(w, l.filters, GroupsOf(l))
               PROVE  ~Covers(w.value, r.value)
    BY <1>1 DEF FeedClean, Whitelisted
  <2>1. Listed(j, w) /\ w \in j.known
    BY <1>3 DEF Listed, GroupsOf
  <2>2. AllListed(j, data)
    BY <1>1, <1>2 DEF FeedFacts
  <2>3. PICK x \in data : x.value = w.value
    BY <2>1, <2>2 DEF AllListed
  <2>4. QED
    BY <1>3, <1>5, <2>3
<1>8. QED
  BY <1>4, <1>6, <1>7 DEF Promises, AnswersOwn, FindsAll, Traceable

\* Whatever goes wrong is not a 200.
LEMMA Refusals ==
    ASSUME NEW endpoint, NEW outcome \in (Outcomes \cup {"timeout", "again", "busy"}) \ {"ok"}
    PROVE  StatusOf(endpoint, outcome) # 200
BY DEF Outcomes, StatusOf, SearchStatus, BulkStatus, CreateStatus, TokensStatus, PingStatus,
       StatsStatus

\* Neither of the two kinds of answers that promise anything.
LEMMA NeitherPromise ==
    ASSUME ~ServedFeed', ~ServedSearch'
    PROVE  Promises'
BY DEF Promises, FeedClean, FeedReported, AnswersOwn, FindsAll, Traceable

\* A response that is not 200 promises nothing.
LEMMA RefusedPromises ==
    ASSUME NobodyIsNoRecord, NEW c, NEW j, Fields \subseteq DOMAIN j,
           NEW status, status # 200, NEW data, Respond(c, j, status, data)
    PROVE  Promises'
<1>1. PICK l : l = last'
  OBVIOUS
<1>2. l.status = status
  <2>1. l = Over([status |-> status, got |-> data], j)
    BY <1>1 DEF Respond
  <2>2. QED
    BY <2>1, ResponseIs
<1>3. ~Served'
  BY <1>1, <1>2 DEF Served
<1>4. QED
  BY <1>3, NoPromise

\* Neither does a step without a response.
LEMMA AskedPromises ==
    ASSUME last' = Nobody
    PROVE  Promises'
BY NoPromise DEF Served

\* What is answered at once is no result.
LEMMA ArrivePromises ==
    ASSUME NobodyIsNoRecord, NEW c, NEW req, Arrive(c, req)
    PROVE  Promises'
<1>1. \/ last' = Nobody
      \/ \E status \in {400, 401, 500} : Respond(c, Job(req), status, {})
  BY DEF Arrive, ArriveSearch, ArriveOther, Ask
<1>2. Fields \subseteq DOMAIN Job(req)
  BY DEF Fields, Job
<1>3. QED
  BY <1>1, <1>2, AskedPromises, RefusedPromises

\* Neither is what is answered after giving up.
LEMMA GiveUpPromises ==
    ASSUME NobodyIsNoRecord, AllInv, NEW c \in Clients, GiveUp(c)
    PROVE  Promises'
<1>1. PICK j : j = job[c]
  OBVIOUS
<1>2. Fields \subseteq DOMAIN j
  BY <1>1 DEF AllInv, JobInv, JobFacts, Shaped, GiveUp
<1>3. PICK outcome \in {"timeout", "again", "busy", "failed"} :
           Respond(c, j, StatusOf(j.req.endpoint, outcome), {})
  BY <1>1 DEF GiveUp
<1>4. StatusOf(j.req.endpoint, outcome) # 200
  BY Refusals DEF Outcomes
<1>5. QED
  BY <1>2, <1>3, <1>4, RefusedPromises

\* Whatever an answer leads to keeps the promises.
LEMMA ContinuePromises ==
    ASSUME NobodyIsNoRecord, AllInv, NEW c \in Clients, Continue(c)
    PROVE  Promises'
<1>1. PICK j : j = job[c]
  OBVIOUS
<1>2. /\ JobFacts(j) /\ Shaped(j) /\ Fields \subseteq DOMAIN j /\ j.answer # Nobody
      /\ j.answer.outcome \in Outcomes /\ j.stage \in Stages
  BY <1>1 DEF AllInv, JobInv, JobFacts, Shaped, Continue
<1>3. /\ now' = now /\ rows' = rows /\ reported' = reported /\ unlogged' = unlogged
  BY DEF Continue
<1>4. CASE j.answer.outcome # "ok"
  <2>1. PICK status, outcome : /\ outcome = j.answer.outcome
                               /\ status = StatusOf(j.req.endpoint, outcome)
    OBVIOUS
  <2>2. Respond(c, j, status, {})
    BY <1>1, <1>2, <1>4, <2>1 DEF Continue
  <2>3. status # 200
    BY <1>2, <1>4, <2>1, Refusals
  <2>4. QED
    BY <1>2, <2>2, <2>3, RefusedPromises
<1>5. CASE Answered(j) /\ j.stage = "search"
  <2>1. GoOn(c, j)
    BY <1>1, <1>5 DEF Continue, Answered
  <2>2. CASE j.left # <<>>
    BY <2>1, <2>2, AskedPromises DEF GoOn, Ask
  <2>3. CASE j.left = <<>>
    <3>1. PICK l, got, status : /\ l = last' /\ got = j.got \cup j.answer.data
                                /\ status = IF j.req.endpoint = "create" THEN 201 ELSE 200
      OBVIOUS
    <3>2. l = Over([status |-> status, got |-> got], j)
      <4>1. [j EXCEPT !.got = @ \cup j.answer.data].got = got
        BY <1>2, <3>1 DEF Fields, Shaped
      <4>2. QED
        BY <2>1, <2>3, <3>1, <4>1 DEF GoOn, Respond
    <3>3. /\ l # Nobody /\ l.status = status /\ l.got = got
          /\ l.req = j.req /\ l.filters = j.filters /\ l.stage = j.stage
          /\ l.known = j.known /\ l.since = j.since
      BY <1>2, <3>2, ResponseIs
    <3>4. CASE j.req.endpoint = "search"
      BY <1>2, <1>3, <1>5, <2>3, <3>1, <3>3, <3>4, SearchServed
    <3>5. CASE j.req.endpoint # "search"
      <4>1. ~Served'
        BY <3>1, <3>3, <3>5 DEF Served
      <4>2. QED
        BY <4>1, NoPromise
    <3>6. QED
      BY <3>4, <3>5
  <2>4. QED
    BY <2>2, <2>3
<1>6. CASE Answered(j) /\ j.stage = "feed"
  <2>1. FeedPulled(c, j)
    BY <1>1, <1>6 DEF Continue, Answered
  <2>2. CASE last' = Nobody
    BY <2>2, AskedPromises
  <2>3. CASE last' # Nobody
    <3>1. PICK l : l = last'
      OBVIOUS
    <3>2. l = Over([status |-> 200, got |-> j.answer.data], j)
      BY <2>1, <2>3, <3>1 DEF FeedPulled, Respond, Ask
    <3>3. l.stage = "feed"
      BY <1>2, <1>6, <3>2, ResponseIs
    <3>4. ~ServedFeed' /\ ~ServedSearch'
      BY <3>1, <3>3 DEF ServedFeed, ServedSearch
    <3>5. QED
      BY <3>4, NeitherPromise
  <2>4. QED
    BY <2>2, <2>3
<1>7. CASE Answered(j) /\ j.stage = "whitelist"
  <2>1. WhitelistPulled(c, j)
    BY <1>1, <1>7 DEF Continue, Answered
  <2>2. CASE Respond(c, j, 500, {})
    BY <1>2, <2>2, RefusedPromises
  <2>3. CASE Respond(c, j, 200, Feed(j.got, j.answer.data))
    <3>1. last' = Over([status |-> 200, got |-> Feed(j.got, j.answer.data)], j)
      BY <2>3 DEF Respond
    <3>2. QED
      BY <1>2, <1>3, <1>7, <3>1, FeedServed
  <2>4. QED
    BY <2>1, <2>2, <2>3 DEF WhitelistPulled
<1>8. QED
  BY <1>2, <1>4, <1>5, <1>6, <1>7 DEF Answered, Stages

\* Nothing changes.
LEMMA UnchangedPromises ==
    ASSUME Promises, UNCHANGED vars
    PROVE  Promises'
<1>1. /\ now' = now /\ rows' = rows /\ reported' = reported /\ unlogged' = unlogged
      /\ last' = last
  BY DEF vars
<1>2. (ServedFeed' <=> ServedFeed) /\ (ServedSearch' <=> ServedSearch)
  BY <1>1 DEF ServedFeed, ServedSearch, Served
<1>3. FeedClean' /\ FeedReported'
  BY <1>1, <1>2 DEF Promises, FeedClean, FeedReported
<1>4. AnswersOwn' /\ FindsAll' /\ Traceable'
  BY <1>1, <1>2 DEF Promises, AnswersOwn, FindsAll, Traceable
<1>5. QED
  BY <1>3, <1>4 DEF Promises

\* Every step keeps the promises.
LEMMA NextPromises ==
    ASSUME NobodyIsNoRecord, AllInv, Promises, [Next]_vars
    PROVE  Promises'
<1>1. CASE Handle \/ Tick
  BY <1>1, AskedPromises DEF Handle, Tick
<1>2. QED
  BY <1>1, ArrivePromises, ContinuePromises, GiveUpPromises, UnchangedPromises DEF Next

\* What clients have in hand, and what waits, is what TypeOK says.
LEMMA Typed ==
    ASSUME AllInv
    PROVE  TypeOK
<1>1. now \in 0..MaxNow /\ \A r \in rows : r.reported_at \in 0..now
  BY DEF AllInv, TableInv, IsTable, IsRow
<1>2. \A n \in DOMAIN inbox :
          inbox[n].client \in Clients \cup {Nobody} /\ inbox[n].token \in DOMAIN Rights
  BY DEF AllInv, LineInv, IsMessage
<1>3. ASSUME NEW c \in Clients, job[c] # Nobody
      PROVE  /\ job[c].req \in Requests /\ job[c].stage \in {"search", "feed", "whitelist"}
             /\ job[c].since \in 0..now
  <2>1. PICK j : j = job[c]
    OBVIOUS
  <2>2. Shaped(j)
    BY <1>3, <2>1 DEF AllInv, JobInv, JobFacts
  <2>3. QED
    BY <2>1, <2>2 DEF Shaped, Stages
<1>4. QED
  BY <1>1, <1>2, <1>3 DEF TypeOK, AllInv

-----------------------------------------------------------------------------
(* The theorems.                                                           *)

\* The invariant, and the promises of the responses.
LEMMA Kept == NobodyIsNoRecord /\ Spec => [](AllInv /\ Promises)
<1>1. Init => AllInv /\ Promises
  <2>1. Init => ~Served
    BY DEF Init, Served
  <2>2. ~Served => Promises
    BY DEF Promises, FeedClean, FeedReported, AnswersOwn, FindsAll, Traceable,
           ServedFeed, ServedSearch
  <2>3. QED
    BY <2>1, <2>2, InitHolds
<1>2. NobodyIsNoRecord /\ AllInv /\ Promises /\ [Next]_vars => (AllInv /\ Promises)'
  BY NextKeeps, NextPromises
<1>3. NobodyIsNoRecord => NobodyIsNoRecord'
  BY DEF NobodyIsNoRecord
<1>4. QED
  BY <1>1, <1>2, <1>3, PTL DEF Spec

\* Every variable stays in its range.
THEOREM QueriesTyped == NobodyIsNoRecord /\ Spec => []TypeOK
BY Kept, Typed, PTL

\* No feed holds anything that was on the whitelist when the feed was pulled.
THEOREM FeedsAreClean == NobodyIsNoRecord /\ Spec => []FeedClean
<1>1. Promises => FeedClean
  BY DEF Promises
<1>2. QED
  BY <1>1, Kept, PTL

\* Whatever a feed holds was reported by somebody in the time it is asked for.
THEOREM FeedsAreReported == NobodyIsNoRecord /\ Spec => []FeedReported
<1>1. Promises => FeedReported
  BY DEF Promises
<1>2. QED
  BY <1>1, Kept, PTL

\* Every row of the answer to a search has to do with what was searched for, or
\* is visible anyway where an empty element of the list asks for a listing, and
\* is in a group the request names or its token has.
THEOREM AnswersAreOwn == NobodyIsNoRecord /\ Spec => []AnswersOwn
<1>1. Promises => AnswersOwn
  BY DEF Promises
<1>2. QED
  BY <1>1, Kept, PTL

\* The answer to a search that does not reach the limit has every row that
\* lies in what was searched for and was there when it was asked.
THEOREM SearchesFindAll == NobodyIsNoRecord /\ Spec => []FindsAll
<1>1. Promises => FindsAll
  BY DEF Promises
<1>2. QED
  BY <1>1, Kept, PTL

\* A search that was answered has left a row that names its user for each element
\* that is neither empty nor has a wildcard, unless that write failed.
THEOREM SearchesLeaveTraces == NobodyIsNoRecord /\ Spec => []Traceable
<1>1. Promises => Traceable
  BY DEF Promises
<1>2. QED
  BY <1>1, Kept, PTL
=============================================================================
