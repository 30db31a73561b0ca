---------------------------- MODULE NoticesProofs ----------------------------
(***************************************************************************)
(* What a client of the firehose sees and which hooks a search is posted   *)
(* to, for any traffic, hooks, number of clients and length of the queues. *)
(***************************************************************************)
EXTENDS Notices, SequenceTheorems, TLAPS

\* What the messages are does not matter, as long as they are the same kind of
\* thing everywhere.
StreamsOf(S) == /\ published \in Seq(S)
                /\ queue \in [Watchers -> Seq(S)]
                /\ seen \in [Watchers -> Seq(S)]

Streams == \E S : StreamsOf(S)

Positions == /\ watch \in [Watchers -> {"off", "joining", "open", "ping"}]
             /\ joined \in [Watchers -> Nat]
             /\ \A c \in Watchers : joined[c] <= Len(published)

\* Nothing is kept for a client that has not subscribed yet, and nothing was
\* sent to one that is about to.
Quiet == \A c \in Watchers :
    /\ watch[c] \in {"off", "joining"} => queue[c] = <<>>
    /\ watch[c] = "joining" => seen[c] = <<>>

IInv == Streams /\ Positions /\ Quiet /\ NoGap

-----------------------------------------------------------------------------
(* Sequences. *)

LEMMA AppendMoves ==
    ASSUME NEW S, NEW s \in Seq(S), NEW t \in Seq(S), NEW x \in S
    PROVE  s \o Append(t, x) = Append(s \o t, x)
<1>1. <<x>> \in Seq(S) /\ s \o t \in Seq(S)
  BY ConcatProperties
<1>2. s \o (t \o <<x>>) = (s \o t) \o <<x>>
  BY <1>1, ConcatAssociative
<1>3. QED
  BY <1>1, <1>2, AppendIsConcat

LEMMA HeadMoves ==
    ASSUME NEW S, NEW s \in Seq(S), NEW t \in Seq(S), t # <<>>
    PROVE  Append(s, Head(t)) \o Tail(t) = s \o t
<1>1. Head(t) \in S /\ Tail(t) \in Seq(S) /\ <<Head(t)>> \in Seq(S)
  BY HeadTailProperties
<1>2. Append(s, Head(t)) \o Tail(t) = (s \o <<Head(t)>>) \o Tail(t)
  BY <1>1, AppendIsConcat
<1>3. @ = s \o (<<Head(t)>> \o Tail(t))
  BY <1>1, ConcatAssociative
<1>4. <<Head(t)>> \o Tail(t) = t
  BY <1>1
<1>5. QED
  BY <1>2, <1>3, <1>4

LEMMA LastOne ==
    ASSUME NEW S, NEW s \in Seq(S), s # <<>>
    PROVE  Tail(s) = <<>> <=> Len(s) = 1
<1>1. Tail(s) \in Seq(S) /\ Len(Tail(s)) = Len(s) - 1
  BY HeadTailProperties
<1>2. Tail(s) = <<>> <=> Len(Tail(s)) = 0
  BY <1>1, EmptySeq
<1>3. Len(s) \in Nat
  BY LenProperties
<1>4. QED
  BY <1>1, <1>2, <1>3

LEMMA SuffixGrows ==
    ASSUME NEW S, NEW s \in Seq(S), NEW x \in S, NEW j \in 0..Len(s)
    PROVE  SubSeq(Append(s, x), j + 1, Len(Append(s, x)))
           = Append(SubSeq(s, j + 1, Len(s)), x)
<1> DEFINE l == SubSeq(Append(s, x), j + 1, Len(s) + 1)
           r == Append(SubSeq(s, j + 1, Len(s)), x)
<1>1. Len(s) \in Nat /\ j \in Nat
  BY LenProperties
<1>2. /\ Append(s, x) \in Seq(S) /\ Len(Append(s, x)) = Len(s) + 1
      /\ \A i \in 1..Len(s) : Append(s, x)[i] = s[i]
      /\ Append(s, x)[Len(s) + 1] = x
  BY AppendProperties
<1>3. /\ l \in Seq(S) /\ Len(l) = Len(s) - j + 1
      /\ \A i \in 1..Len(s) - j + 1 : l[i] = Append(s, x)[j + i]
  BY <1>1, <1>2
<1>4. /\ SubSeq(s, j + 1, Len(s)) \in Seq(S) /\ Len(SubSeq(s, j + 1, Len(s))) = Len(s) - j
      /\ \A i \in 1..Len(s) - j : SubSeq(s, j + 1, Len(s))[i] = s[j + i]
  BY <1>1
<1>5. /\ r \in Seq(S) /\ Len(r) = Len(s) - j + 1
      /\ \A i \in 1..Len(s) - j : r[i] = s[j + i]
      /\ r[Len(s) - j + 1] = x
  BY <1>1, <1>4, AppendProperties
<1>6. \A i \in 1..Len(l) : l[i] = r[i]
  <2>1. SUFFICES ASSUME NEW i \in 1..Len(l) PROVE l[i] = r[i]
    OBVIOUS
  <2>2. CASE i <= Len(s) - j
    BY <1>1, <1>2, <1>3, <1>5, <2>2
  <2>3. CASE i = Len(s) - j + 1
    BY <1>1, <1>2, <1>3, <1>5, <2>3
  <2>4. QED
    BY <1>1, <1>3, <2>2, <2>3
<1>7. l = r
  BY <1>3, <1>5, <1>6, SeqEqual
<1>8. QED
  BY <1>2, <1>7

-----------------------------------------------------------------------------
(* The steps. *)

LEMMA InitInv == Init => IInv
<1> SUFFICES ASSUME Init PROVE IInv
  OBVIOUS
<1>1. StreamsOf({})
  BY DEF Init, StreamsOf
<1>2. Streams
  BY <1>1 DEF Streams
<1>3. Positions /\ Quiet /\ NoGap
  BY DEF Init, Positions, Quiet, NoGap, Listening
<1>4. QED
  BY <1>2, <1>3 DEF IInv

\* Where the stream and its clients are left alone.
LEMMA Elsewhere == ASSUME IInv, UNCHANGED <<published, watchVars>> PROVE IInv'
BY DEF IInv, watchVars, Streams, StreamsOf, Positions, Quiet, NoGap, Listening

\* One message more, for the stream and for each client whose queue has room.
LEMMA Publishes == ASSUME IInv, Publish PROVE IInv'
<1> USE DEF IInv
<1> DEFINE x == Head(streamPipe)
           full == {c \in Watchers : Listening(c) /\ Len(queue[c]) >= HWM}
<1>1. /\ published' = Append(published, x) /\ missed' = missed \cup full
      /\ queue' = [c \in Watchers |-> IF Listening(c) /\ c \notin full
                                      THEN Append(queue[c], x) ELSE queue[c]]
      /\ UNCHANGED <<watch, seen, joined>>
  BY DEF Publish
<1>2. PICK S : x \in S /\ StreamsOf(S)
  <2>1. PICK R : StreamsOf(R)
    BY DEF Streams
  <2>2. StreamsOf(R \cup {x})
    BY <2>1, SeqMonotonic DEF StreamsOf
  <2>3. QED
    BY <2>2
<1>3. x \in S
  BY <1>2
<1>4. StreamsOf(S)
  BY <1>2
<1> HIDE DEF x, full
<1>5. StreamsOf(S)'
  <2>1. published' \in Seq(S)
    BY <1>1, <1>3, <1>4, AppendProperties DEF StreamsOf
  <2>2. \A c \in Watchers : queue[c] \in Seq(S) /\ Append(queue[c], x) \in Seq(S)
    BY <1>3, <1>4, AppendProperties DEF StreamsOf
  <2>3. queue' \in [Watchers -> Seq(S)]
    BY <1>1, <2>2
  <2>4. QED
    BY <1>1, <1>4, <2>1, <2>3 DEF StreamsOf
<1>6. Len(published') = Len(published) + 1 /\ Len(published) \in Nat
  BY <1>1, <1>3, <1>4, AppendProperties, LenProperties DEF StreamsOf
<1>7. Positions'
  BY <1>1, <1>6 DEF Positions
<1>8. Quiet'
  BY <1>1 DEF Quiet, Listening
<1>9. ASSUME NEW c \in Watchers, Listening(c)', c \notin missed'
      PROVE  seen'[c] \o queue'[c] = SubSeq(published', joined'[c] + 1, Len(published'))
  <2>1. Listening(c) /\ c \notin missed /\ c \notin full
    BY <1>1, <1>9 DEF Listening
  <2>2. seen[c] \o queue[c] = SubSeq(published, joined[c] + 1, Len(published))
    BY <2>1 DEF NoGap
  <2>3. seen'[c] = seen[c] /\ joined'[c] = joined[c] /\ queue'[c] = Append(queue[c], x)
    BY <1>1, <2>1
  <2>4. seen[c] \o Append(queue[c], x) = Append(seen[c] \o queue[c], x)
    BY <1>3, <1>4, AppendMoves DEF StreamsOf
  <2>5. joined[c] \in 0..Len(published)
    BY <1>6 DEF Positions
  <2>6. SubSeq(published', joined[c] + 1, Len(published'))
        = Append(SubSeq(published, joined[c] + 1, Len(published)), x)
    BY <1>1, <1>3, <1>4, <2>5, SuffixGrows DEF StreamsOf
  <2>7. QED
    BY <2>2, <2>3, <2>4, <2>6
<1>10. QED
  BY <1>5, <1>7, <1>8, <1>9 DEF Streams, NoGap

\* What one client does is no other client's business.
LEMMA Watches == ASSUME IInv, NEW c \in Watchers, Watching(c) PROVE IInv'
<1> USE DEF IInv
<1>1. PICK S : StreamsOf(S)
  BY DEF Streams
<1>2. PICK to \in {"off", "joining", "open", "ping"} :
         watch' = [watch EXCEPT ![c] = to] /\ published' = published
  BY DEF Watching, Watch, Join, Frame, Ping, Pong, Leave, WatchStep
<1>3. watch'[c] = to /\ Len(published) \in Nat
  BY <1>1, <1>2, LenProperties DEF Positions, StreamsOf
<1>4. \A d \in Watchers \ {c} :
         watch'[d] = watch[d] /\ queue'[d] = queue[d] /\ seen'[d] = seen[d]
         /\ joined'[d] = joined[d] /\ (d \in missed' <=> d \in missed)
  BY <1>1, <1>2 DEF Watching, Watch, Join, Frame, Ping, Pong, Leave, WatchStep, Positions,
                    StreamsOf
\* It is enough to look at that client.
<1>5. ASSUME StreamsOf(S)', joined' \in [Watchers -> Nat], joined'[c] <= Len(published),
             to \in {"off", "joining"} => queue'[c] = <<>>,
             to = "joining" => seen'[c] = <<>>,
             to \in {"open", "ping"} /\ c \notin missed' =>
                seen'[c] \o queue'[c] = SubSeq(published, joined'[c] + 1, Len(published))
      PROVE  IInv'
  <2>1. Positions' /\ Quiet'
    BY <1>2, <1>3, <1>4, <1>5 DEF Positions, Quiet
  <2>2. NoGap'
    BY <1>2, <1>3, <1>4, <1>5 DEF NoGap, Listening
  <2>3. QED
    BY <1>5, <2>1, <2>2 DEF Streams
<1>6. CASE Watch(c)
  <2>1. watch[c] = "off" /\ to = "joining" /\ seen[c] = <<>> /\ queue[c] = <<>>
        /\ UNCHANGED <<queue, seen, joined, missed>>
    BY <1>2, <1>3, <1>6 DEF Watch, WatchStep, Positions, Quiet
  <2>2. QED
    BY <1>1, <1>2, <1>5, <2>1 DEF StreamsOf, Positions
<1>7. CASE Join(c)
  <2>1. watch[c] = "joining" /\ to = "open" /\ seen[c] = <<>> /\ queue[c] = <<>>
        /\ joined' = [joined EXCEPT ![c] = Len(published)]
        /\ UNCHANGED <<queue, seen, missed>>
    BY <1>2, <1>3, <1>7 DEF Join, WatchStep, Positions, Quiet
  <2>2. joined' \in [Watchers -> Nat] /\ joined'[c] = Len(published)
    BY <1>3, <2>1 DEF Positions
  <2>3. seen'[c] \o queue'[c] = SubSeq(published, joined'[c] + 1, Len(published))
    <3>1. SubSeq(published, joined'[c] + 1, Len(published)) = <<>>
      BY <1>3, <2>2, SubSeqEmpty
    <3>2. <<>> \o <<>> = <<>>
      BY EmptySeq, ConcatEmptySeq
    <3>3. QED
      BY <2>1, <3>1, <3>2
  <2>4. QED
    BY <1>1, <1>2, <1>3, <1>5, <2>1, <2>2, <2>3 DEF StreamsOf
<1>8. CASE Frame(c)
  <2>1. watch[c] = "open" /\ to = "open" /\ queue[c] # <<>>
        /\ seen' = [seen EXCEPT ![c] = Append(@, Head(queue[c]))]
        /\ queue' = [queue EXCEPT ![c] = Tail(@)]
        /\ UNCHANGED <<joined, missed>>
    BY <1>2, <1>3, <1>8 DEF Frame, WatchStep, Positions
  <2>2. queue[c] \in Seq(S) /\ seen[c] \in Seq(S)
    BY <1>1 DEF StreamsOf
  <2>3. Append(seen[c], Head(queue[c])) \in Seq(S) /\ Tail(queue[c]) \in Seq(S)
    BY <2>1, <2>2, HeadTailProperties, AppendProperties
  <2>4. StreamsOf(S)'
    BY <1>1, <1>2, <2>1, <2>3 DEF StreamsOf
  <2>5. seen'[c] \o queue'[c] = seen[c] \o queue[c]
    BY <1>1, <2>1, <2>2, HeadMoves DEF StreamsOf
  <2>6. c \notin missed => seen[c] \o queue[c]
                          = SubSeq(published, joined[c] + 1, Len(published))
    BY <2>1 DEF NoGap, Listening
  <2>7. QED
    BY <1>5, <2>1, <2>4, <2>5, <2>6 DEF Positions
<1>9. CASE Ping(c) \/ Pong(c)
  <2>1. Listening(c) /\ to \in {"open", "ping"} /\ UNCHANGED <<queue, seen, joined, missed>>
    BY <1>2, <1>3, <1>9 DEF Ping, Pong, WatchStep, Positions, Listening
  <2>2. StreamsOf(S)'
    BY <1>1, <1>2, <2>1 DEF StreamsOf
  <2>3. QED
    BY <1>5, <2>1, <2>2 DEF Positions, NoGap
<1>10. CASE Leave(c)
  <2>1. to = "off" /\ queue' = [queue EXCEPT ![c] = <<>>] /\ UNCHANGED <<seen, joined, missed>>
    BY <1>2, <1>3, <1>10 DEF Leave, WatchStep, Positions
  <2>2. StreamsOf(S)' /\ queue'[c] = <<>>
    BY <1>1, <1>2, <2>1, EmptySeq DEF StreamsOf
  <2>3. QED
    BY <1>5, <2>1, <2>2 DEF Positions
<1>11. QED
  BY <1>6, <1>7, <1>8, <1>9, <1>10 DEF Watching

LEMMA NextInv == IInv /\ [Next]_vars => IInv'
<1> SUFFICES ASSUME IInv, [Next]_vars PROVE IInv'
  OBVIOUS
<1>1. CASE Router \/ Webhooks \/ (\E p \in Parts : End(p)) \/ UNCHANGED vars
  <2>1. UNCHANGED <<published, watchVars>>
    BY <1>1 DEF Router, HandleInput, SendCopy, Webhooks, TakeNotice, Post, End, vars,
                streamVars, watchVars
  <2>2. QED
    BY <2>1, Elsewhere
<1>2. CASE Publish
  BY <1>2, Publishes
<1>3. CASE \E c \in Watchers : Watching(c)
  BY <1>3, Watches
<1>4. QED
  BY <1>1, <1>2, <1>3 DEF Next

-----------------------------------------------------------------------------
(* The webhooks: where an item is on its way to the hooks.                 *)

Named == "webhooks"
Sent(i) == \E n \in DOMAIN sending : sending[n].to = Named /\ sending[n].item = i
Piped(i) == \E n \in DOMAIN hookPipe : hookPipe[n] = i
InHand(i) == posting # Idle /\ posting.item = i
Untold(i) == posts[i] = <<>> /\ ~InHand(i)

Copy == [to : Parts, item : Items]

Kinds ==
    /\ enabled \subseteq Parts \ {"router"}
    /\ hooks \in HookFiles /\ due \subseteq Inputs
    /\ sending \in Seq(Copy) /\ \A n \in DOMAIN sending : sending[n].to \in enabled
    /\ hookPipe \in Seq(Items)
    /\ posting = Idle \/ posting \in [item : Notify, left : Seq(STRING), text : BOOLEAN]
    /\ posts \in [Items -> Seq(STRING)]

\* An item is in one place of the way at a time, and in each place once.
CopiedOnce == \A n, m \in DOMAIN sending :
    n # m /\ sending[n].to = Named /\ sending[m].to = Named
       => sending[n].item # sending[m].item
PipedOnce == \A n, m \in DOMAIN hookPipe : n # m => hookPipe[n] # hookPipe[m]
DueFirst == \A x \in due : \A i \in ToSet(x.items) : Untold(i) /\ ~Sent(i) /\ ~Piped(i)
SentNext == \A i \in Items : Sent(i) => Untold(i) /\ ~Piped(i)
PipedThen == \A i \in Items : Piped(i) => Untold(i)

\* The hooks an item was posted to, and those that are left, are all of them.
HooksLeft == posting # Idle =>
    posting.left # <<>> /\ posts[posting.item] \o posting.left = hooks

HookInv == /\ Kinds /\ CopiedOnce /\ PipedOnce /\ DueFirst /\ SentNext /\ PipedThen
           /\ HooksLeft /\ EveryHookTold

-----------------------------------------------------------------------------
(* The copies of an input.                                                 *)

LEMMA ItemsOf ==
    ASSUME NEW x \in Inputs
    PROVE  /\ x.items \in Seq(STRING) /\ ToSet(x.items) \subseteq Items
           /\ ToSet(x.items) = {x.items[n] : n \in 1..Len(x.items)}
           /\ \A m, n \in 1..Len(x.items) : m # n => x.items[m] # x.items[n]
<1>1. x.items \in Seq(STRING)
  BY NoticesAssumption DEF Input
<1>2. DOMAIN x.items = 1..Len(x.items)
  BY <1>1, LenProperties
<1>3. ToSet(x.items) = {x.items[n] : n \in 1..Len(x.items)}
  BY <1>2 DEF ToSet
<1>4. IsInjective(x.items)
  BY NoticesAssumption
<1>5. QED
  BY <1>1, <1>2, <1>3, <1>4 DEF Items, IsInjective

\* There is a copy of an item for the webhooks at most once.
LEMMA CopiesAre ==
    ASSUME Kinds, NEW x \in Inputs
    PROVE  /\ Copies(x) \in Seq(Copy)
           /\ \A n \in DOMAIN Copies(x) : /\ Copies(x)[n].to \in enabled
                                          /\ Copies(x)[n].item \in ToSet(x.items)
           /\ \A m, n \in DOMAIN Copies(x) :
                 m # n /\ Copies(x)[m].to = Named /\ Copies(x)[n].to = Named
                    => Copies(x)[m].item # Copies(x)[n].item
<1> DEFINE l == Len(x.items)
           k == Len(Present)
           at(n) == ((n - 1) \div k) + 1
           c == [n \in 1..l * k |-> [to |-> Present[((n - 1) % k) + 1],
                                     item |-> x.items[at(n)]]]
<1>1. l \in Nat
  BY ItemsOf, LenProperties
<1>2. /\ k \in 0..2 /\ \A n \in 1..k : Present[n] \in enabled \cap Parts
      /\ k = 2 => Present[1] # Named
  BY DEF Present, Kinds, Named, Parts
<1>3. l * k \in Nat /\ \A n \in 1..l * k : at(n) \in 1..l /\ ((n - 1) % k) + 1 \in 1..k
  <2>1. CASE k = 0
    BY <1>1, <2>1
  <2>2. CASE k = 1
    BY <1>1, <2>2
  <2>3. CASE k = 2
    BY <1>1, <2>3
  <2>4. QED
    BY <1>2, <2>1, <2>2, <2>3
<1>4. Copies(x) = c
  BY DEF Copies, CopiesTo
<1>5. \A n \in 1..l * k : /\ c[n].item = x.items[at(n)] /\ c[n].item \in ToSet(x.items)
                         /\ c[n].to \in enabled \cap Parts /\ c[n] \in Copy
  BY <1>2, <1>3, ItemsOf DEF Copy
<1>6. c \in Seq(Copy) /\ DOMAIN c = 1..l * k
  <2>1. c \in [1..l * k -> Copy]
    BY <1>5
  <2> DEFINE L == l * k
  <2>2. L \in Nat /\ c \in [1..L -> Copy]
    BY <1>3, <2>1
  <2> HIDE DEF c, L
  <2>3. c \in Seq(Copy) /\ DOMAIN c = 1..L
    BY <2>2, SeqDef
  <2>4. QED
    BY <2>3 DEF L
<1>7. ASSUME NEW m \in 1..l * k, NEW n \in 1..l * k, m # n, c[m].to = Named, c[n].to = Named
      PROVE  c[m].item # c[n].item
  <2>1. at(m) # at(n)
    <3>1. CASE k = 0
      BY <1>1, <1>7, <3>1
    <3>2. CASE k = 1
      BY <1>1, <1>7, <3>2
    <3>3. CASE k = 2
      <4>1. (m - 1) % 2 = 1 /\ (n - 1) % 2 = 1
        <5>1. (m - 1) % 2 \in {0, 1} /\ (n - 1) % 2 \in {0, 1}
          BY <1>1, <3>3
        <5>2. Present[((m - 1) % 2) + 1] = Named /\ Present[((n - 1) % 2) + 1] = Named
          BY <1>7, <3>3
        <5>3. QED
          BY <1>2, <3>3, <5>1, <5>2
      <4>2. m \in Int /\ n \in Int
        BY <1>1, <3>3
      <4>3. m - 1 = 2 * ((m - 1) \div 2) + 1 /\ n - 1 = 2 * ((n - 1) \div 2) + 1
        BY <4>1, <4>2
      <4>4. QED
        BY <1>7, <3>3, <4>2, <4>3
    <3>4. QED
      BY <1>2, <3>1, <3>2, <3>3
  <2>2. QED
    BY <1>3, <1>5, <2>1, ItemsOf
<1> HIDE DEF c
<1>8. QED
  BY <1>4, <1>5, <1>6, <1>7

-----------------------------------------------------------------------------
(* The hooks.                                                              *)

LEMMA PrefixOf ==
    ASSUME NEW S, NEW s \in Seq(S), NEW t \in Seq(S)
    PROVE  IsPrefix(s, s \o t)
<1>1. Len(s) \in Nat /\ Len(t) \in Nat
  BY LenProperties
<1>2. Len(s \o t) = Len(s) + Len(t) /\ s \o t \in Seq(S)
  BY ConcatProperties
<1>3. SubSeq(s, 1, Len(s)) = SubSeq(s \o t, 1, Len(s))
  <2>1. CASE Len(s) = 0
    BY <2>1, SubSeqEmpty
  <2>2. CASE Len(s) # 0
    BY <1>1, <2>2, SubSeqOfConcat1
  <2>3. QED
    BY <2>1, <2>2
<1>4. QED
  BY <1>1, <1>2, <1>3 DEF IsPrefix

LEMMA SuffixOf ==
    ASSUME NEW S, NEW s \in Seq(S), NEW t \in Seq(S)
    PROVE  IsSuffix(t, s \o t)
<1> DEFINE u == s \o t
           m == Len(t)
           l == Len(s)
           p == SubSeq(Reverse(t), 1, m)
           q == SubSeq(Reverse(u), 1, m)
<1>1. m \in Nat /\ l \in Nat /\ t \in Seq(S)
  BY LenProperties
<1>2. u \in Seq(S) /\ Len(u) = l + m /\ \A i \in 1..m : u[l + i] = t[i]
  BY <1>1, ConcatProperties
<1> HIDE DEF u, m, l
<1>3. /\ Reverse(t) \in Seq(S) /\ Len(Reverse(t)) = m
      /\ \A i \in 1..m : Reverse(t)[i] = t[m - i + 1]
  BY <1>1 DEF Reverse, m
<1>4. /\ Reverse(u) \in Seq(S) /\ Len(Reverse(u)) = l + m
      /\ \A i \in 1..(l + m) : Reverse(u)[i] = u[l + m - i + 1]
  BY <1>1, <1>2 DEF Reverse
<1>5. \A i \in 1..m : Reverse(t)[i] = Reverse(u)[i]
  <2> SUFFICES ASSUME NEW i \in 1..m PROVE Reverse(t)[i] = Reverse(u)[i]
    OBVIOUS
  <2>1. m - i + 1 \in 1..m /\ l + (m - i + 1) = l + m - i + 1 /\ i \in 1..(l + m)
    BY <1>1
  <2>2. u[l + (m - i + 1)] = t[m - i + 1]
    BY <1>2, <2>1
  <2>3. QED
    BY <1>3, <1>4, <2>1, <2>2
<1>6. /\ p \in Seq(S) /\ Len(p) = m /\ \A i \in 1..m : p[i] = Reverse(t)[i]
      /\ q \in Seq(S) /\ Len(q) = m /\ \A i \in 1..m : q[i] = Reverse(u)[i]
  BY <1>1, <1>3, <1>4
<1> HIDE DEF p, q
<1>7. p = q
  BY <1>5, <1>6, SeqEqual
<1>8. QED
  BY <1>1, <1>3, <1>4, <1>7 DEF IsSuffix, IsPrefix, p, q, u, m

LEMMA HooksAre == ASSUME Kinds PROVE hooks \in Seq(STRING)
BY NoticesAssumption DEF Kinds

LEMMA HookInit == Init => HookInv
<1> SUFFICES ASSUME Init PROVE HookInv
  OBVIOUS
<1>1. /\ posts = [i \in Items |-> <<>>] /\ posting = Idle /\ sending = <<>> /\ hookPipe = <<>>
      /\ due = Inputs /\ hooks \in HookFiles /\ enabled \subseteq Parts \ {"router"}
  BY DEF Init, Parts
<1>2. Kinds
  BY <1>1, EmptySeq DEF Kinds
<1>3. DueFirst
  BY <1>1, ItemsOf DEF DueFirst, Untold, InHand, Sent, Piped
<1>4. EveryHookTold
  <2>1. IsPrefix(<<>>, hooks)
    <3>1. <<>> \in Seq(STRING) /\ hooks \in Seq(STRING) /\ <<>> \o hooks = hooks
      BY <1>2, HooksAre, ConcatEmptySeq, EmptySeq
    <3>2. QED
      BY <3>1, PrefixOf
  <2>2. QED
    BY <1>1, <2>1 DEF EveryHookTold
<1>5. QED
  BY <1>1, <1>2, <1>3, <1>4
     DEF HookInv, CopiedOnce, PipedOnce, SentNext, PipedThen, Sent, Piped, HooksLeft

-----------------------------------------------------------------------------
(* The steps of the router, the webhooks and what ends them.               *)

\* Where the way to the hooks is left alone.
LEMMA HooksElsewhere ==
    ASSUME HookInv, UNCHANGED <<enabled, hooks, due, sending, hookVars>>
    PROVE  HookInv'
BY DEF HookInv, hookVars, Kinds, CopiedOnce, PipedOnce, DueFirst, SentNext, PipedThen,
       Sent, Piped, InHand, Untold, HooksLeft, EveryHookTold

\* The items of an input leave those that are due.
LEMMA HookInput == ASSUME HookInv, NEW x \in Inputs, HandleInput(x) PROVE HookInv'
<1> USE DEF HookInv
<1>1. /\ sending = <<>> /\ x \in due /\ due' = due \ {x} /\ sending' = Copies(x)
      /\ UNCHANGED <<enabled, hooks, hookPipe, posting, posts, spoiled>>
  BY DEF HandleInput, fixedVars, hookVars
<1>2. /\ sending' \in Seq(Copy)
      /\ \A n \in DOMAIN sending' : /\ sending'[n].to \in enabled
                                    /\ sending'[n].item \in ToSet(x.items)
      /\ \A m, n \in DOMAIN sending' :
            m # n /\ sending'[m].to = Named /\ sending'[n].to = Named
               => sending'[m].item # sending'[n].item
  BY <1>1, CopiesAre
<1>3. Kinds' /\ CopiedOnce'
  BY <1>1, <1>2 DEF Kinds, CopiedOnce
<1>4. \A i : Sent(i)' => i \in ToSet(x.items)
  BY <1>2 DEF Sent
<1>5. \A i \in ToSet(x.items) : Untold(i) /\ ~Piped(i)
  BY <1>1 DEF DueFirst
<1>6. \A i : (Untold(i)' <=> Untold(i)) /\ (Piped(i)' <=> Piped(i))
  BY <1>1 DEF Untold, InHand, Piped
<1>7. DueFirst'
  <2> SUFFICES ASSUME NEW y \in due', NEW i \in ToSet(y.items)
               PROVE  (Untold(i) /\ ~Piped(i))' /\ ~Sent(i)'
    BY DEF DueFirst
  <2>1. y \in due /\ y # x
    BY <1>1
  <2>2. i \notin ToSet(x.items)
    BY <2>1, NoticesAssumption DEF Kinds
  <2>3. QED
    BY <1>4, <1>6, <2>1, <2>2 DEF DueFirst
<1>8. SentNext' /\ PipedThen'
  BY <1>4, <1>5, <1>6 DEF SentNext, PipedThen
<1>9. (PipedOnce /\ HooksLeft /\ EveryHookTold)'
  BY <1>1 DEF PipedOnce, HooksLeft, EveryHookTold
<1>10. QED
  BY <1>3, <1>7, <1>8, <1>9

\* A copy goes from the handler to a pipe.
LEMMA HookCopy == ASSUME HookInv, SendCopy PROVE HookInv'
<1> USE DEF HookInv
<1>0. PICK i0 : i0 = Head(sending).item
  OBVIOUS
<1>1. /\ sending # <<>> /\ sending' = Tail(sending)
      /\ \/ Head(sending).to = Named /\ hookPipe' = Append(hookPipe, i0)
         \/ Head(sending).to # Named /\ hookPipe' = hookPipe
      /\ UNCHANGED <<enabled, hooks, due, posting, posts, spoiled>>
  BY <1>0 DEF SendCopy, fixedVars, SendToWebhooks, SendToStreamer, Named
<1>2. sending \in Seq(Copy) /\ hookPipe \in Seq(Items)
  BY DEF Kinds
<1>3. /\ Head(sending) = sending[1] /\ Head(sending) \in Copy /\ 1 \in DOMAIN sending
      /\ Tail(sending) \in Seq(Copy)
      /\ \A n \in DOMAIN Tail(sending) : n + 1 \in DOMAIN sending /\ n + 1 # 1
                                         /\ Tail(sending)[n] = sending[n + 1]
  BY <1>1, <1>2
<1>4. i0 \in Items
  BY <1>0, <1>3 DEF Copy
<1>5. \A i : Sent(i)' => Sent(i)
  BY <1>1, <1>3 DEF Sent
<1>6. CopiedOnce'
  <2> SUFFICES ASSUME NEW n \in DOMAIN sending', NEW m \in DOMAIN sending', n # m,
                      sending'[n].to = Named, sending'[m].to = Named
               PROVE  sending'[n].item # sending'[m].item
    BY DEF CopiedOnce
  <2>1. n \in Int /\ m \in Int
    BY <1>1, <1>2, <1>3
  <2>2. n + 1 # m + 1
    BY <2>1
  <2>3. QED
    BY <1>1, <1>3, <2>2 DEF CopiedOnce
<1>7. \A i : Untold(i)' <=> Untold(i)
  BY <1>1 DEF Untold, InHand
<1>8. (HooksLeft /\ EveryHookTold)'
  BY <1>1 DEF HooksLeft, EveryHookTold
<1>9. CASE hookPipe' = hookPipe
  <2>1. Kinds'
    BY <1>1, <1>2, <1>3, <1>9 DEF Kinds
  <2>2. \A i : Piped(i)' <=> Piped(i)
    BY <1>9 DEF Piped
  <2>3. (PipedOnce /\ DueFirst /\ SentNext /\ PipedThen)'
    BY <1>1, <1>5, <1>7, <1>9, <2>2 DEF PipedOnce, DueFirst, SentNext, PipedThen
  <2>4. QED
    BY <1>6, <1>8, <2>1, <2>3
<1>10. CASE Head(sending).to = Named /\ hookPipe' = Append(hookPipe, i0)
  <2>1. hookPipe' \in Seq(Items)
    BY <1>2, <1>4, <1>10, AppendProperties
  <2>2. Kinds'
    BY <1>1, <1>3, <2>1 DEF Kinds
  <2>3. /\ Len(hookPipe) \in Nat /\ DOMAIN hookPipe = 1..Len(hookPipe)
        /\ DOMAIN hookPipe' = 1..Len(hookPipe) + 1
        /\ \A n \in 1..Len(hookPipe) : hookPipe'[n] = hookPipe[n]
        /\ hookPipe'[Len(hookPipe) + 1] = i0
    BY <1>2, <1>4, <1>10, AppendProperties, LenProperties
  <2>4. \A i : Piped(i)' => Piped(i) \/ i = i0
    BY <2>3 DEF Piped
  <2>5. Sent(i0) /\ Untold(i0) /\ ~Piped(i0)
    BY <1>0, <1>3, <1>4, <1>10 DEF SentNext, Sent
  <2>6. ~Sent(i0)'
    BY <1>0, <1>1, <1>3, <1>10 DEF Sent, CopiedOnce
  <2>7. PipedOnce'
    <3> SUFFICES ASSUME NEW n \in DOMAIN hookPipe', NEW m \in DOMAIN hookPipe', n # m
                 PROVE  hookPipe'[n] # hookPipe'[m]
      BY DEF PipedOnce
    <3>1. CASE n = Len(hookPipe) + 1
      BY <2>3, <2>5, <3>1 DEF Piped
    <3>2. CASE m = Len(hookPipe) + 1
      BY <2>3, <2>5, <3>2 DEF Piped
    <3>3. CASE n \in DOMAIN hookPipe /\ m \in DOMAIN hookPipe
      BY <2>3, <3>3 DEF PipedOnce
    <3>4. QED
      BY <2>3, <3>1, <3>2, <3>3
  <2>8. DueFirst'
    <3> SUFFICES ASSUME NEW y \in due, NEW i \in ToSet(y.items)
                 PROVE  (Untold(i) /\ ~Sent(i) /\ ~Piped(i))'
      BY <1>1 DEF DueFirst
    <3>1. Untold(i) /\ ~Sent(i) /\ ~Piped(i)
      BY DEF DueFirst
    <3>2. QED
      BY <1>5, <1>7, <2>4, <2>5, <3>1
  <2>9. SentNext' /\ PipedThen'
    BY <1>5, <1>7, <2>4, <2>5, <2>6 DEF SentNext, PipedThen
  <2>10. QED
    BY <1>6, <1>8, <2>2, <2>7, <2>8, <2>9
<1>11. QED
  BY <1>1, <1>9, <1>10

\* What is in hand is nowhere else on the way.
LEMMA OnlyInHand ==
    ASSUME HookInv, posting # Idle
    PROVE  /\ posting \in [item : Notify, left : Seq(STRING), text : BOOLEAN]
           /\ posting.item \in Items /\ ~Sent(posting.item) /\ ~Piped(posting.item)
           /\ \A x \in due : posting.item \notin ToSet(x.items)
<1>1. posting \in [item : Notify, left : Seq(STRING), text : BOOLEAN]
  BY DEF HookInv, Kinds
<1>2. posting.item \in Items
  BY <1>1, NoticesAssumption
<1>3. InHand(posting.item)
  BY DEF InHand
<1>4. QED
  BY <1>1, <1>2, <1>3 DEF HookInv, DueFirst, SentNext, PipedThen, Untold

\* What the worker does to the item in hand is no other item's business.
LEMMA HookInHand ==
    ASSUME HookInv, posting # Idle, NEW p \in Seq(STRING), NEW l \in Seq(STRING),
           posts' = [posts EXCEPT ![posting.item] = p], p \o l = hooks,
           spoiled \subseteq spoiled',
           \/ posting' = Idle /\ (posting.item \in spoiled' \/ p = hooks)
           \/ \E b \in BOOLEAN :
                 /\ posting' = [item |-> posting.item, left |-> l, text |-> b]
                 /\ l # <<>>,
           UNCHANGED <<enabled, hooks, due, sending, hookPipe>>
    PROVE  HookInv'
<1> USE DEF HookInv
<1>0. PICK i0 : i0 = posting.item
  OBVIOUS
<1>1. /\ posting \in [item : Notify, left : Seq(STRING), text : BOOLEAN]
      /\ i0 \in Items /\ i0 \in Notify /\ ~Sent(i0) /\ ~Piped(i0)
      /\ \A x \in due : i0 \notin ToSet(x.items)
  BY <1>0, OnlyInHand
<1>2. \/ posting' = Idle /\ (i0 \in spoiled' \/ p = hooks)
      \/ /\ posting' \in [item : Notify, left : Seq(STRING), text : BOOLEAN]
         /\ posting'.item = i0 /\ posting'.left = l /\ l # <<>> /\ posting' # Idle
  BY <1>0, <1>1, NoticesAssumption
<1>3. /\ posts' \in [Items -> Seq(STRING)] /\ posts'[i0] = p
      /\ \A i \in Items \ {i0} : posts'[i] = posts[i]
  BY <1>0, <1>1 DEF Kinds
<1>4. Kinds'
  BY <1>2, <1>3 DEF Kinds
<1>5. \A i \in Items \ {i0} : Untold(i) => Untold(i)'
  BY <1>2, <1>3 DEF Untold, InHand
<1>6. \A i : (Sent(i)' <=> Sent(i)) /\ (Piped(i)' <=> Piped(i))
  BY DEF Sent, Piped
<1>7. (CopiedOnce /\ PipedOnce)'
  BY DEF CopiedOnce, PipedOnce
<1>8. DueFirst'
  <2> SUFFICES ASSUME NEW x \in due, NEW i \in ToSet(x.items)
               PROVE  Untold(i)' /\ ~Sent(i)' /\ ~Piped(i)'
    BY DEF DueFirst
  <2>1. i \in Items \ {i0}
    BY <1>1, ItemsOf DEF Kinds
  <2>2. QED
    BY <1>5, <1>6, <2>1 DEF DueFirst
<1>9. (SentNext /\ PipedThen)'
  BY <1>1, <1>5, <1>6 DEF SentNext, PipedThen
<1>10. HooksLeft'
  BY <1>0, <1>2, <1>3 DEF HooksLeft
<1>11. EveryHookTold'
  <2> SUFFICES ASSUME NEW i \in Items
               PROVE  /\ IsPrefix(posts'[i], hooks)
                      /\ i \notin spoiled' /\ (posting' # Idle => posting'.item # i)
                         => posts'[i] \in {<<>>, hooks}
    BY DEF EveryHookTold
  <2>1. CASE i = i0
    <3>1. IsPrefix(posts'[i], hooks)
      <4>1. IsPrefix(p, p \o l)
        BY PrefixOf
      <4>2. QED
        BY <1>3, <2>1, <4>1
    <3>2. CASE posting' = Idle
      BY <1>0, <1>2, <1>3, <2>1, <3>1, <3>2
    <3>3. CASE posting' # Idle
      BY <1>0, <1>2, <1>3, <2>1, <3>1, <3>3
    <3>4. QED
      BY <3>2, <3>3
  <2>2. CASE i # i0
    BY <1>0, <1>3, <2>2 DEF EveryHookTold
  <2>3. QED
    BY <2>1, <2>2
<1>12. QED
  BY <1>4, <1>7, <1>8, <1>9, <1>10, <1>11

\* A hook is posted to, or is not.
LEMMA HookPost == ASSUME HookInv, Post PROVE HookInv'
<1>1. /\ posting # Idle /\ UNCHANGED <<enabled, hooks, due, sending, hookPipe>>
      /\ PostSlackLate \/ Answered \/ Unanswered
  BY DEF Post, fixedVars
<1> DEFINE i0 == posting.item
           s == posts[i0]
           t == posting.left
           h == Head(t)
<1>2. /\ posting \in [item : Notify, left : Seq(STRING), text : BOOLEAN] /\ i0 \in Items
      /\ posts \in [Items -> Seq(STRING)] /\ s \in Seq(STRING) /\ t \in Seq(STRING)
      /\ t # <<>> /\ s \o t = hooks /\ hooks \in Seq(STRING)
  BY <1>1, OnlyInHand, HooksAre DEF HookInv, Kinds, HooksLeft
<1>3. h \in STRING /\ Tail(t) \in Seq(STRING) /\ Append(s, h) \in Seq(STRING)
  BY <1>2, HeadTailProperties, AppendProperties
<1>4. Append(s, h) \o Tail(t) = hooks
  BY <1>2, HeadMoves
<1>5. posts = [posts EXCEPT ![i0] = s]
  BY <1>2
<1>6. Posted(h) = [posts EXCEPT ![i0] = Append(s, h)]
  BY DEF Posted
<1>7. CASE PostSlackLate \/ Unanswered
  <2>1. /\ posts' = posts \/ posts' = Posted(h)
        /\ spoiled' = spoiled \cup {i0} /\ posting' = Idle
    BY <1>7 DEF PostSlackLate, Unanswered, Spoil
  <2> HIDE DEF s, t, h
  <2>2. CASE posts' = posts
    BY <1>1, <1>2, <1>5, <2>1, <2>2, HookInHand
  <2>3. CASE posts' = Posted(h)
    BY <1>1, <1>3, <1>4, <1>6, <2>1, <2>3, HookInHand
  <2>4. QED
    BY <2>1, <2>2, <2>3
<1>8. CASE Answered
  <2>1. posts' = Posted(h) /\ posting' = AfterPost /\ spoiled' = spoiled
    BY <1>8 DEF Answered
  <2>2. CASE Len(t) = 1
    <3>1. Tail(t) = <<>>
      BY <1>2, <2>2, LastOne
    <3>2. Append(s, h) = hooks
      BY <1>3, <1>4, <3>1, ConcatEmptySeq
    <3>3. posting' = Idle
      BY <2>1, <2>2 DEF AfterPost
    <3> HIDE DEF s, t, h
    <3>4. QED
      BY <1>1, <1>3, <1>4, <1>6, <2>1, <3>2, <3>3, HookInHand
  <2>3. CASE Len(t) # 1
    <3>1. Tail(t) # <<>>
      BY <1>2, <2>3, LastOne
    <3>2. posting' = [item |-> i0, left |-> Tail(t), text |-> TRUE]
      BY <1>2, <2>1, <2>3 DEF AfterPost
    <3> HIDE DEF s, t, h
    <3>3. QED
      BY <1>1, <1>3, <1>4, <1>6, <2>1, <3>1, <3>2, HookInHand
  <2>4. QED
    BY <2>2, <2>3
<1>9. QED
  BY <1>1, <1>7, <1>8

\* A message is taken from the pipe: into the hand, or for nothing.
LEMMA HookTake == ASSUME HookInv, TakeNotice PROVE HookInv'
<1> USE DEF HookInv
<1>0. PICK i0 : i0 = Head(hookPipe)
  OBVIOUS
<1>1. /\ posting = Idle /\ hookPipe # <<>> /\ hookPipe' = Tail(hookPipe)
      /\ posting' = IF i0 \in Notify /\ hooks # <<>>
                    THEN [item |-> i0, left |-> hooks, text |-> FALSE] ELSE Idle
      /\ UNCHANGED <<enabled, hooks, due, sending, posts, spoiled>>
  BY <1>0 DEF TakeNotice, fixedVars
<1>2. hookPipe \in Seq(Items) /\ hooks \in Seq(STRING)
  BY HooksAre DEF Kinds
<1>3. /\ i0 = hookPipe[1] /\ i0 \in Items /\ 1 \in DOMAIN hookPipe
      /\ Tail(hookPipe) \in Seq(Items)
      /\ \A n \in DOMAIN Tail(hookPipe) : n \in Int /\ n + 1 \in DOMAIN hookPipe /\ n + 1 # 1
                                          /\ Tail(hookPipe)[n] = hookPipe[n + 1]
  BY <1>0, <1>1, <1>2
<1>4. Piped(i0) /\ Untold(i0) /\ ~Sent(i0) /\ \A x \in due : i0 \notin ToSet(x.items)
  BY <1>3 DEF Piped, PipedThen, SentNext, DueFirst
<1>5. PipedOnce'
  <2> SUFFICES ASSUME NEW n \in DOMAIN hookPipe', NEW m \in DOMAIN hookPipe', n # m
               PROVE  hookPipe'[n] # hookPipe'[m]
    BY DEF PipedOnce
  <2>1. n + 1 # m + 1
    BY <1>1, <1>3
  <2>2. QED
    BY <1>1, <1>3, <2>1 DEF PipedOnce
<1>6. ~Piped(i0)' /\ \A i : Piped(i)' => Piped(i)
  BY <1>1, <1>3 DEF Piped, PipedOnce
<1>7. \A i : Sent(i)' <=> Sent(i)
  BY <1>1 DEF Sent
<1>8. \A i \in Items : i # i0 => (Untold(i)' <=> Untold(i))
  BY <1>1 DEF Untold, InHand
<1>9. posting' = Idle \/ posting' \in [item : Notify, left : Seq(STRING), text : BOOLEAN]
  BY <1>1, <1>2
<1>10. Kinds' /\ CopiedOnce'
  BY <1>1, <1>3, <1>9 DEF Kinds, CopiedOnce
<1>11. DueFirst'
  <2> SUFFICES ASSUME NEW x \in due, NEW i \in ToSet(x.items)
               PROVE  Untold(i)' /\ ~Sent(i)' /\ ~Piped(i)'
    BY <1>1 DEF DueFirst
  <2>1. i \in Items /\ i # i0
    BY <1>4, ItemsOf DEF Kinds
  <2>2. QED
    BY <1>6, <1>7, <1>8, <2>1 DEF DueFirst
<1>12. (SentNext /\ PipedThen)'
  BY <1>4, <1>6, <1>7, <1>8 DEF SentNext, PipedThen
<1>13. HooksLeft'
  <2>1. posts[i0] = <<>> /\ <<>> \o hooks = hooks
    BY <1>2, <1>4, ConcatEmptySeq DEF Untold
  <2>2. QED
    BY <1>1, <2>1 DEF HooksLeft
<1>14. EveryHookTold'
  BY <1>1 DEF EveryHookTold
<1>15. QED
  BY <1>5, <1>10, <1>11, <1>12, <1>13, <1>14

\* What ends takes along what it has in hand, and the pipe.
LEMMA HookEnd == ASSUME HookInv, NEW p, End(p) PROVE HookInv'
<1> USE DEF HookInv
<1>1. /\ sending' = sending \/ sending' = <<>>
      /\ hookPipe' = hookPipe \/ hookPipe' = <<>>
      /\ \/ posting' = posting /\ spoiled' = spoiled
         \/ /\ posting' = Idle /\ spoiled \subseteq spoiled'
            /\ posting # Idle => posting.item \in spoiled'
      /\ UNCHANGED <<enabled, hooks, due, posts>>
  BY DEF End
<1>2. \A i : (Sent(i)' => Sent(i)) /\ (Piped(i)' => Piped(i)) /\ (Untold(i) => Untold(i)')
  BY <1>1 DEF Sent, Piped, Untold, InHand
<1>3. Kinds'
  <2>1. sending' \in Seq(Copy) /\ hookPipe' \in Seq(Items)
    BY <1>1, EmptySeq DEF Kinds
  <2>2. \A n \in DOMAIN sending' : sending'[n].to \in enabled
    BY <1>1 DEF Kinds
  <2>3. posting' = Idle \/ posting' \in [item : Notify, left : Seq(STRING), text : BOOLEAN]
    BY <1>1 DEF Kinds
  <2>4. QED
    BY <1>1, <2>1, <2>2, <2>3 DEF Kinds
<1>4. (CopiedOnce /\ PipedOnce)'
  BY <1>1 DEF CopiedOnce, PipedOnce
<1>5. (DueFirst /\ SentNext /\ PipedThen)'
  BY <1>1, <1>2 DEF DueFirst, SentNext, PipedThen
<1>6. (HooksLeft /\ EveryHookTold)'
  BY <1>1 DEF HooksLeft, EveryHookTold
<1>7. QED
  BY <1>3, <1>4, <1>5, <1>6

LEMMA HookNext == HookInv /\ [Next]_vars => HookInv'
<1> SUFFICES ASSUME HookInv, [Next]_vars PROVE HookInv'
  OBVIOUS
<1>1. CASE Publish \/ (\E c \in Watchers : Watching(c)) \/ UNCHANGED vars
  <2>1. UNCHANGED <<enabled, hooks, due, sending, hookVars>>
    BY <1>1 DEF Publish, Watching, Watch, Join, Frame, Ping, Pong, Leave, WatchStep, vars,
                fixedVars, hookVars
  <2>2. QED
    BY <2>1, HooksElsewhere
<1>2. CASE Router
  BY <1>2, HookInput, HookCopy DEF Router
<1>3. CASE Webhooks
  BY <1>3, HookTake, HookPost DEF Webhooks
<1>4. CASE \E p \in Parts : End(p)
  BY <1>4, HookEnd
<1>5. QED
  BY <1>1, <1>2, <1>3, <1>4 DEF Next

-----------------------------------------------------------------------------
(* The ranges.                                                             *)

Room == /\ alive \subseteq enabled \cup {"router"} /\ spoiled \subseteq Notify
        /\ streamPipe \in Seq(Items)
        /\ Len(hookPipe) <= HWM /\ Len(streamPipe) <= HWM
        /\ \A c \in Watchers : Len(queue[c]) <= HWM

AllInv == IInv /\ HookInv /\ Room

LEMMA Shorter ==
    ASSUME NEW S, NEW s \in Seq(S), s # <<>>, Len(s) <= HWM
    PROVE  Tail(s) \in Seq(S) /\ Len(Tail(s)) <= HWM
BY NoticesAssumption, HeadTailProperties, LenProperties

LEMMA Longer ==
    ASSUME NEW S, NEW s \in Seq(S), NEW x \in S, ~(Len(s) >= HWM)
    PROVE  Append(s, x) \in Seq(S) /\ Len(Append(s, x)) <= HWM
BY NoticesAssumption, AppendProperties, LenProperties

LEMMA RoomInit == Init => Room
<1>1. Len(<<>>) = 0 /\ <<>> \in Seq(Items)
  BY EmptySeq
<1>2. QED
  BY <1>1, NoticesAssumption DEF Init, Room

LEMMA RoomNext == AllInv /\ [Next]_vars => Room'
<1> SUFFICES ASSUME AllInv, [Next]_vars PROVE Room'
  OBVIOUS
<1> USE DEF AllInv, Room
<1>0. Len(<<>>) <= HWM /\ <<>> \in Seq(Items)
  BY EmptySeq, NoticesAssumption
<1>1. hookPipe \in Seq(Items) /\ sending \in Seq(Copy)
  BY DEF HookInv, Kinds
<1>2. PICK S : StreamsOf(S)
  BY DEF IInv, Streams
<1>3. CASE \E x \in Inputs : HandleInput(x)
  BY <1>3 DEF HandleInput, fixedVars, hookVars, streamVars, watchVars
<1>4. CASE SendCopy
  <2>1. Head(sending).item \in Items
    <3>1. sending # <<>>
      BY <1>4 DEF SendCopy
    <3>2. Head(sending) \in Copy
      BY <1>1, <3>1
    <3>3. QED
      BY <3>2 DEF Copy
  <2>2. CASE SendToWebhooks(Head(sending).item)
    <3>1. hookPipe' = Append(hookPipe, Head(sending).item) /\ streamPipe' = streamPipe
          /\ ~(Len(hookPipe) >= HWM)
      BY <1>1, <2>2, LenProperties, NoticesAssumption DEF SendToWebhooks
    <3>2. Len(hookPipe') <= HWM
      BY <1>1, <2>1, <3>1, Longer
    <3>3. QED
      BY <1>4, <3>1, <3>2 DEF SendCopy, fixedVars, watchVars
  <2>3. CASE SendToStreamer(Head(sending).item)
    <3>1. streamPipe' = Append(streamPipe, Head(sending).item) /\ hookPipe' = hookPipe
          /\ ~(Len(streamPipe) >= HWM)
      BY <2>3, LenProperties, NoticesAssumption DEF SendToStreamer
    <3>2. streamPipe' \in Seq(Items) /\ Len(streamPipe') <= HWM
      BY <2>1, <3>1, Longer
    <3>3. QED
      BY <1>4, <3>1, <3>2 DEF SendCopy, fixedVars, watchVars
  <2>4. QED
    BY <1>4, <2>2, <2>3 DEF SendCopy
<1>5. CASE TakeNotice
  <2>1. hookPipe' = Tail(hookPipe) /\ hookPipe # <<>>
        /\ UNCHANGED <<alive, enabled, spoiled, streamPipe, queue>>
    BY <1>5 DEF TakeNotice, fixedVars, streamVars, watchVars
  <2>2. Len(hookPipe') <= HWM
    BY <1>1, <2>1, Shorter
  <2>3. QED
    BY <2>1, <2>2
<1>6. CASE Post
  <2>1. posting # Idle /\ spoiled' \in {spoiled, spoiled \cup {posting.item}}
        /\ UNCHANGED <<alive, enabled, hookPipe, streamPipe, queue>>
    BY <1>6 DEF Post, PostSlackLate, Answered, Unanswered, Spoil, fixedVars, streamVars,
                watchVars
  <2>2. posting.item \in Notify
    BY <2>1, OnlyInHand
  <2>3. QED
    BY <2>1, <2>2
<1>7. CASE Publish
  <2> DEFINE full == {c \in Watchers : Listening(c) /\ Len(queue[c]) >= HWM}
             x == Head(streamPipe)
  <2>1. /\ streamPipe # <<>> /\ streamPipe' = Tail(streamPipe)
        /\ queue' = [c \in Watchers |-> IF Listening(c) /\ c \notin full
                                        THEN Append(queue[c], x) ELSE queue[c]]
        /\ UNCHANGED <<alive, enabled, spoiled, hookPipe>>
    BY <1>7 DEF Publish, fixedVars, hookVars
  <2>2. streamPipe' \in Seq(Items) /\ Len(streamPipe') <= HWM
    BY <2>1, Shorter
  <2>3. ASSUME NEW c \in Watchers PROVE Len(queue'[c]) <= HWM
    <3>1. queue[c] \in Seq(S \cup {x}) /\ x \in S \cup {x}
      BY <1>2, SeqMonotonic DEF StreamsOf
    <3>2. CASE Listening(c) /\ c \notin full
      <4>1. ~(Len(queue[c]) >= HWM)
        BY <3>2
      <4>2. Len(Append(queue[c], x)) <= HWM
        BY <3>1, <4>1, Longer
      <4>3. QED
        BY <2>1, <3>2, <4>2
    <3>3. CASE ~(Listening(c) /\ c \notin full)
      BY <2>1, <3>3
    <3>4. QED
      BY <3>2, <3>3
  <2>4. QED
    BY <2>1, <2>2, <2>3
<1>8. CASE \E c \in Watchers : Watching(c)
  <2>1. PICK c \in Watchers : Watching(c)
    BY <1>8
  <2>2. /\ UNCHANGED <<alive, enabled, spoiled, hookPipe, streamPipe>>
        /\ \/ queue' = queue
           \/ queue[c] # <<>> /\ queue' = [queue EXCEPT ![c] = Tail(@)]
           \/ queue' = [queue EXCEPT ![c] = <<>>]
    BY <2>1 DEF Watching, Watch, Join, Frame, Ping, Pong, Leave, WatchStep, fixedVars, hookVars
  <2>3. queue \in [Watchers -> Seq(S)]
    BY <1>2 DEF StreamsOf
  <2>4. queue[c] # <<>> => Len(Tail(queue[c])) <= HWM
    BY <2>3, Shorter
  <2>5. QED
    BY <1>0, <2>2, <2>3, <2>4
<1>9. CASE \E p \in Parts : End(p)
  <2>1. /\ hookPipe' = hookPipe \/ hookPipe' = <<>>
        /\ spoiled' = spoiled \/ (posting # Idle /\ spoiled' = spoiled \cup {posting.item})
        /\ alive' \subseteq alive /\ UNCHANGED <<enabled, streamPipe, queue>>
    BY <1>9 DEF End, streamVars, watchVars
  <2>2. posting # Idle => posting.item \in Notify
    BY OnlyInHand
  <2>3. QED
    BY <1>0, <2>1, <2>2
<1>10. CASE UNCHANGED vars
  BY <1>10 DEF vars, fixedVars, hookVars, streamVars, watchVars
<1>11. QED
  BY <1>3, <1>4, <1>5, <1>6, <1>7, <1>8, <1>9, <1>10 DEF Next, Router, Webhooks

-----------------------------------------------------------------------------
(* The theorems.                                                           *)

LEMMA AllInvHolds == Spec => []AllInv
<1>1. Init => AllInv
  BY InitInv, HookInit, RoomInit DEF AllInv
<1>2. AllInv /\ [Next]_vars => AllInv'
  BY NextInv, HookNext, RoomNext DEF AllInv
<1>3. QED
  BY <1>1, <1>2, PTL DEF Spec

\* Pipes and queues stay within their limit, only searches are posted, and what
\* is in hand is what is left of the hooks.
THEOREM NoticesTyped == Spec => []TypeOK
<1>1. AllInv => TypeOK
  <2> SUFFICES ASSUME AllInv PROVE TypeOK
    OBVIOUS
  <2>1. posting # Idle => posting.item \in Notify /\ IsSuffix(posting.left, hooks)
    <3> SUFFICES ASSUME posting # Idle
                 PROVE  posting.item \in Notify /\ IsSuffix(posting.left, hooks)
      OBVIOUS
    <3>1. /\ posting.item \in Notify /\ posting.item \in Items /\ posting.left \in Seq(STRING)
          /\ posts[posting.item] \in Seq(STRING)
          /\ posts[posting.item] \o posting.left = hooks
      BY OnlyInHand DEF AllInv, HookInv, Kinds, HooksLeft
    <3>2. IsSuffix(posting.left, posts[posting.item] \o posting.left)
      BY <3>1, SuffixOf
    <3>3. QED
      BY <3>1, <3>2
  <2>2. \A c \in Watchers : joined[c] \in 0..Len(published)
    <3>1. Len(published) \in Nat
      BY LenProperties DEF AllInv, IInv, Streams, StreamsOf
    <3>2. QED
      BY <3>1 DEF AllInv, IInv, Positions
  <2>3. QED
    BY <2>1, <2>2 DEF AllInv, IInv, Positions, HookInv, Kinds, Room, TypeOK
<1>2. QED
  BY <1>1, AllInvHolds, PTL

\* A search is posted to every hook once, in the order of the file, up to the
\* hook where something is raised, whatever else passes through the router and
\* whoever ends (webhooks.py:68-92).
THEOREM HooksTold == Spec => []EveryHookTold
<1>1. AllInv => EveryHookTold
  BY DEF AllInv, HookInv
<1>2. QED
  BY <1>1, AllInvHolds, PTL

\* A client of the firehose sees the stream from where it joined, in order and
\* without a gap, unless its queue overflowed (streamer.py:45-47,
\* httpd/app.py:196-219).
THEOREM StreamComplete == Spec => []NoGap
<1>1. IInv => NoGap
  BY DEF IInv
<1>2. QED
  BY <1>1, InitInv, NextInv, PTL DEF Spec
=============================================================================
