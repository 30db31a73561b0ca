----------------------------- MODULE StoreProofs -----------------------------
(***************************************************************************)
(* Types, the count, the bookkeeping and the age of the create queue, for  *)
(* any tokens, workloads and values of the queue's constants.              *)
(***************************************************************************)
EXTENDS Store, FiniteSetTheorems, TLAPS

\* The requests for which nothing has been done.
Untouched == {r \in Requests : reply[r] = "none" /\ attempts[r] = 0 /\ r \notin Pending}

\* A request is yet to be made, or waits once on its own socket, or neither.
WaitsOnce ==
    /\ due \subseteq Untouched
    /\ \A s \in Sockets : \A n \in DOMAIN inbox[s] :
          /\ inbox[s][n].socket = s
          /\ inbox[s][n] \notin due
          /\ inbox[s][n] \in Untouched
          /\ \A m \in DOMAIN inbox[s] : inbox[s][m] = inbox[s][n] => m = n

\* An entry holds single indicators of its token, and none if it counts none.
EntriesOwn ==
    \A t \in Tokens :
        /\ \A r \in create_queue[t].messages : r.token = t /\ r.kind = "single"
        /\ create_queue[t].count = 0 => create_queue[t].messages = {}

\* The loop comes to its polls with room for one more, which each of the two
\* that may add one takes up.
RoomLeft ==
    /\ pc \in {"router", "write"} => create_queue_count < CREATE_QUEUE_MAX
    /\ pc = "write_h" => create_queue_count <= CREATE_QUEUE_MAX

\* What waits has not been handed over, but for the tokens a flush has done.
HandedOver ==
    /\ pc \in Sockets \cup {"check"} => \A r \in Pending : attempts[r] = 0
    /\ pc = "flush" =>
          \A r \in Pending : attempts[r] = IF r.token \in todo THEN 0 ELSE 1

\* The one clock of all tokens is at least as old as what waits.
ClockCovers == \A r \in Pending : age[r] <= elapsed

IInv == /\ TypeOK /\ WaitsOnce /\ EntriesOwn /\ CountMatches /\ RoomLeft
        /\ HandedOver /\ AckedAccounted /\ ClockCovers

-----------------------------------------------------------------------------
(* What is in the queue. *)

LEMMA RequestType ==
    ASSUME NEW r \in Requests
    PROVE  /\ r.token \in Tokens /\ r.kind \in Kinds /\ r.socket \in Sockets
           /\ r.kind \in {"single", "batch"} <=> r.socket # "router"
BY StoreAssumption DEF Request

LEMMA PendingIs ==
    ASSUME TypeOK
    PROVE  /\ Pending \subseteq Requests /\ IsFiniteSet(Pending)
           /\ Cardinality(Pending) \in Nat
           /\ \A r : r \in Pending <=> \E t \in Tokens : r \in create_queue[t].messages
<1>1. \A r : r \in Pending <=> \E t \in Tokens : r \in create_queue[t].messages
  BY DEF Pending
<1>2. Pending \subseteq Requests
  BY <1>1 DEF TypeOK, Entry
<1>3. IsFiniteSet(Pending)
  BY <1>2, StoreAssumption, FS_Subset
<1>4. QED
  BY <1>1, <1>2, <1>3, FS_CardinalityType

\* Whatever waits does so in the entry of its own token.
LEMMA PendingByToken ==
    ASSUME TypeOK, EntriesOwn, NEW r \in Pending
    PROVE  /\ r \in Requests /\ r.token \in Tokens /\ r.kind = "single"
           /\ r \in create_queue[r.token].messages /\ r.token \in Queued
<1>1. PICK t \in Tokens : r \in create_queue[t].messages
  BY PendingIs
<1>2. r.token = t /\ r.kind = "single" /\ create_queue[t].count # 0
  BY <1>1 DEF EntriesOwn
<1>3. create_queue[t].count > 0
  BY <1>2 DEF TypeOK, Entry
<1>4. QED
  BY <1>1, <1>2, <1>3, PendingIs DEF Queued

LEMMA InitInv == Init => IInv
<1> SUFFICES ASSUME Init PROVE IInv
  OBVIOUS
<1>1. due \in SUBSET Requests
  BY DEF Init, Requests
<1>2. NoQueue \in Entry
  BY DEF NoQueue, Entry
<1>3. TypeOK
  BY <1>1, <1>2, StoreAssumption DEF Init, TypeOK, Sockets
<1>4. Pending = {}
  BY DEF Init, Pending, NoQueue
<1>5. CountMatches
  BY <1>4, FS_EmptySet, StoreAssumption DEF Init, CountMatches
<1>6. WaitsOnce
  BY <1>1, <1>4 DEF Init, WaitsOnce, Untouched
<1>7. EntriesOwn /\ RoomLeft /\ HandedOver /\ ClockCovers
  BY <1>4, StoreAssumption DEF Init, EntriesOwn, NoQueue, RoomLeft, HandedOver, ClockCovers
<1>8. AckedAccounted
  BY <1>4 DEF Init, AckedAccounted
<1>9. QED
  BY <1>3, <1>5, <1>6, <1>7, <1>8 DEF IInv

-----------------------------------------------------------------------------
(* Handling a request. *)

\* One more waits, and its sender is told.
Taken(r) ==
    /\ r.kind = "single" /\ Pending' = Pending \cup {r}
    /\ create_queue_count' = create_queue_count + 1
    /\ reply' = [reply EXCEPT ![r] = "success"]
    /\ age' = [age EXCEPT ![r] = 0]
    /\ attempts' = attempts

\* The queue stays, and of a single indicator nothing is handed over.
PassedBy(r) ==
    /\ UNCHANGED <<create_queue, create_queue_count, age>> /\ Pending' = Pending
    /\ \E status \in {"none", "success", "failed"} :
          /\ reply' = [reply EXCEPT ![r] = status]
          /\ r.kind = "single" => status = "failed"
    /\ \/ attempts' = attempts
       \/ r.kind # "single" /\ attempts' = [attempts EXCEPT ![r] = 1]

LEMMA QueueingAdds ==
    ASSUME TypeOK, EntriesOwn, NEW r \in Requests, r.kind = "single", QueueIndicator(r)
    PROVE  /\ create_queue' \in [Tokens -> Entry] /\ EntriesOwn'
           /\ Pending' = Pending \cup {r}
<1> DEFINE old == create_queue[r.token]
           new == [count |-> old.count + 1, idle |-> 0, messages |-> old.messages \cup {r}]
<1>1. r.token \in Tokens
  BY RequestType
<1>2. create_queue' = [create_queue EXCEPT ![r.token] = new]
  BY DEF QueueIndicator
<1>3. old \in Entry
  BY <1>1 DEF TypeOK
<1>4. new \in Entry /\ new.count # 0 /\ new.messages = old.messages \cup {r}
  BY <1>3 DEF Entry
<1> HIDE DEF new
<1>5. create_queue'[r.token] = new
      /\ \A t \in Tokens : t # r.token => create_queue'[t] = create_queue[t]
  BY <1>1, <1>2 DEF TypeOK
<1>6. create_queue' \in [Tokens -> Entry]
  BY <1>2, <1>4 DEF TypeOK
<1>7. EntriesOwn'
  BY <1>1, <1>4, <1>5 DEF EntriesOwn
<1>8. \A q : (\E t \in Tokens : q \in create_queue'[t].messages)
             <=> q = r \/ \E t \in Tokens : q \in create_queue[t].messages
  BY <1>1, <1>4, <1>5
<1>9. Pending' = Pending \cup {r}
  BY <1>8 DEF Pending
<1>10. QED
  BY <1>6, <1>7, <1>9

LEMMA Handling ==
    ASSUME TypeOK, EntriesOwn, NEW r \in Requests, r \in Untouched, HandleMessage(r)
    PROVE  /\ Taken(r) \/ PassedBy(r)
           /\ create_queue' \in [Tokens -> Entry] /\ EntriesOwn'
<1>1. CASE QueueIndicator(r) /\ Answer(r, "success") /\ r.kind = "single"
           /\ UNCHANGED attempts
  BY <1>1, QueueingAdds DEF QueueIndicator, Answer, Taken
<1>2. CASE /\ UNCHANGED <<create_queue, create_queue_count, age>>
           /\ \/ /\ UNCHANGED attempts
                 /\ \/ Answer(r, "failed")
                    \/ r.kind \in {"other", "unknown"}
                       /\ (reply' = reply \/ Answer(r, "success"))
              \/ /\ r.kind = "batch" /\ Answer(r, "success")
                 /\ attempts' = [attempts EXCEPT ![r] = @ + 1]
  <2>1. create_queue' \in [Tokens -> Entry] /\ EntriesOwn' /\ Pending' = Pending
    BY <1>2 DEF TypeOK, EntriesOwn, Pending
  <2>2. reply = [reply EXCEPT ![r] = "none"]
    BY DEF TypeOK, Untouched
  <2>3. [attempts EXCEPT ![r] = @ + 1] = [attempts EXCEPT ![r] = 1]
    BY DEF TypeOK, Untouched
  <2>4. \E status \in {"none", "success", "failed"} :
           /\ reply' = [reply EXCEPT ![r] = status]
           /\ r.kind = "single" => status = "failed"
    <3>1. CASE Answer(r, "failed")
      BY <3>1 DEF Answer
    <3>2. CASE r.kind # "single" /\ Answer(r, "success")
      BY <3>2 DEF Answer
    <3>3. CASE r.kind # "single" /\ reply' = reply
      BY <2>2, <3>3
    <3>4. QED
      BY <1>2, <3>1, <3>2, <3>3
  <2>5. \/ attempts' = attempts
        \/ r.kind # "single" /\ attempts' = [attempts EXCEPT ![r] = 1]
    BY <1>2, <2>3
  <2>6. PassedBy(r)
    BY <1>2, <2>1, <2>4, <2>5 DEF PassedBy
  <2>7. QED
    BY <2>1, <2>6
<1>3. QED
  BY <1>1, <1>2 DEF HandleMessage, HandleIndicatorsCreate, Answer

-----------------------------------------------------------------------------
(* The loop. *)

\* What is left on the sockets when one request has been taken.
LEMMA Remaining ==
    ASSUME TypeOK, WaitsOnce, NEW s \in Sockets, inbox[s] # <<>>,
           inbox' = [inbox EXCEPT ![s] = Tail(@)]
    PROVE  /\ Head(inbox[s]) \in Requests /\ Head(inbox[s]).socket = s
           /\ Head(inbox[s]) \notin due /\ Head(inbox[s]) \in Untouched
           /\ inbox' \in [Sockets -> Seq(Requests)]
           /\ \A z \in Sockets : \A n \in DOMAIN inbox'[z] :
                 /\ inbox'[z][n] # Head(inbox[s])
                 /\ \E k \in DOMAIN inbox[z] : inbox'[z][n] = inbox[z][k]
                 /\ \A m \in DOMAIN inbox'[z] : inbox'[z][m] = inbox'[z][n] => m = n
<1>1. inbox[s] \in Seq(Requests) /\ Len(inbox[s]) > 0 /\ Head(inbox[s]) = inbox[s][1]
      /\ 1 \in DOMAIN inbox[s]
  BY DEF TypeOK
<1>2. Tail(inbox[s]) \in Seq(Requests)
  BY <1>1
<1>3. inbox' \in [Sockets -> Seq(Requests)] /\ inbox'[s] = Tail(inbox[s])
  BY <1>2 DEF TypeOK
<1>4. \A n \in DOMAIN inbox'[s] :
         n + 1 \in DOMAIN inbox[s] /\ inbox'[s][n] = inbox[s][n + 1] /\ n \in Nat /\ n > 0
  BY <1>1, <1>3
<1>5. ASSUME NEW z \in Sockets, NEW n \in DOMAIN inbox'[z]
      PROVE  /\ inbox'[z][n] # Head(inbox[s])
             /\ \E k \in DOMAIN inbox[z] : inbox'[z][n] = inbox[z][k]
             /\ \A m \in DOMAIN inbox'[z] : inbox'[z][m] = inbox'[z][n] => m = n
  <2>1. CASE z = s
    <3>1. inbox[s][n + 1] # inbox[s][1]
      BY <1>1, <1>4, <2>1 DEF WaitsOnce
    <3>2. ASSUME NEW m \in DOMAIN inbox'[z], inbox'[z][m] = inbox'[z][n] PROVE m = n
      <4>1. m + 1 = n + 1
        BY <1>4, <2>1, <3>2 DEF WaitsOnce
      <4>2. QED
        BY <1>4, <2>1, <4>1
    <3>3. QED
      BY <1>1, <1>4, <2>1, <3>1, <3>2
  <2>2. CASE z # s
    <3>1. inbox'[z] = inbox[z]
      BY <2>2 DEF TypeOK
    <3>2. inbox[z][n].socket = z /\ Head(inbox[s]).socket = s
      BY <1>1, <3>1 DEF WaitsOnce
    <3>3. QED
      BY <2>2, <3>1, <3>2 DEF WaitsOnce
  <2>3. QED
    BY <2>1, <2>2
<1>6. QED
  BY <1>1, <1>3, <1>5 DEF WaitsOnce

\* A request other than the one in hand is as it was.
LEMMA OthersUntouched ==
    ASSUME TypeOK, NEW r \in Requests, Taken(r) \/ PassedBy(r),
           NEW q \in Requests, q # r
    PROVE  /\ reply'[q] = reply[q] /\ attempts'[q] = attempts[q]
           /\ q \in Pending' <=> q \in Pending
           /\ q \in Untouched => q \in Untouched'
BY DEF TypeOK, Taken, PassedBy, Untouched

\* The type of what a handler changes, and what it makes of the queue.
LEMMA HandlingKeeps ==
    ASSUME IInv, NEW r \in Requests, r \in Untouched, Taken(r) \/ PassedBy(r)
    PROVE  /\ create_queue_count' \in Nat /\ attempts' \in [Requests -> Nat]
           /\ reply' \in [Requests -> {"none", "success", "failed"}]
           /\ age' \in [Requests -> Nat]
           /\ create_queue_count' = Cardinality(Pending')
           /\ AckedAccounted'
           /\ elapsed' = elapsed => ClockCovers'
<1> USE DEF IInv
<1>1. CASE Taken(r)
  <2>1. /\ create_queue_count' \in Nat /\ attempts' \in [Requests -> Nat]
        /\ reply' \in [Requests -> {"none", "success", "failed"}]
        /\ age' \in [Requests -> Nat]
    BY <1>1 DEF TypeOK, Taken
  <2>2. create_queue_count' = Cardinality(Pending')
    BY <1>1, PendingIs, FS_AddElement DEF Taken, Untouched, CountMatches
  <2>3. AckedAccounted'
    BY <1>1, <2>1 DEF Taken, AckedAccounted, TypeOK
  <2>4. elapsed' = elapsed => ClockCovers'
    BY <1>1, PendingIs DEF Taken, ClockCovers, TypeOK
  <2>5. QED
    BY <2>1, <2>2, <2>3, <2>4
<1>2. CASE PassedBy(r)
  <2>1. /\ create_queue_count' \in Nat /\ attempts' \in [Requests -> Nat]
        /\ reply' \in [Requests -> {"none", "success", "failed"}]
        /\ age' \in [Requests -> Nat]
    BY <1>2 DEF TypeOK, PassedBy
  <2>2. create_queue_count' = Cardinality(Pending')
    BY <1>2 DEF PassedBy, CountMatches
  <2>3. ASSUME NEW q \in Requests
        PROVE  /\ attempts'[q] <= 1
               /\ q.kind = "single" =>
                     ((reply'[q] = "success") <=> (q \in Pending' \/ attempts'[q] = 1))
    <3>1. CASE q = r
      BY <1>2, <3>1 DEF PassedBy, Untouched, TypeOK
    <3>2. CASE q # r
      BY <1>2, <3>2, OthersUntouched DEF AckedAccounted
    <3>3. QED
      BY <3>1, <3>2
  <2>4. AckedAccounted'
    BY <2>3 DEF AckedAccounted
  <2>5. elapsed' = elapsed => ClockCovers'
    BY <1>2 DEF PassedBy, ClockCovers
  <2>6. QED
    BY <2>1, <2>2, <2>4, <2>5
<1>3. QED
  BY <1>1, <1>2

\* The polls. The socket of the router brings no indicators to create, so the
\* count grows at the other two only.
LEMMA Polls == ASSUME IInv, NEW s \in Sockets, Poll(s) PROVE IInv'
<1> USE DEF IInv
<1>1. /\ pc = s /\ pc' = After(s) /\ UNCHANGED <<elapsed, todo, rightVars, due>>
      /\ pc' \in Sockets \cup {"check"} /\ s \in {"router", "write", "write_h"}
  BY DEF Poll, After, Sockets
<1>2. CASE UNCHANGED <<inbox, create_queue, create_queue_count, age, reply, attempts>>
  <2>1. Pending' = Pending
    BY <1>2 DEF Pending
  <2>2. TypeOK' /\ EntriesOwn' /\ WaitsOnce' /\ AckedAccounted' /\ ClockCovers'
    BY <1>1, <1>2, <2>1 DEF TypeOK, rightVars, EntriesOwn, WaitsOnce, Untouched,
                            AckedAccounted, ClockCovers
  <2>3. CountMatches' /\ RoomLeft'
    BY <1>1, <1>2, <2>1, StoreAssumption DEF CountMatches, RoomLeft, After, TypeOK
  <2>4. HandedOver'
    BY <1>1, <1>2, <2>1 DEF HandedOver, Sockets
  <2>5. QED
    BY <2>2, <2>3, <2>4
<1>3. CASE inbox[s] # <<>> /\ inbox' = [inbox EXCEPT ![s] = Tail(@)]
           /\ HandleMessage(Head(inbox[s]))
  <2> DEFINE r == Head(inbox[s])
  <2>1. r \in Requests /\ r.socket = s /\ r \notin due /\ r \in Untouched
    BY <1>3, Remaining
  <2>2. /\ Taken(r) \/ PassedBy(r)
        /\ create_queue' \in [Tokens -> Entry] /\ EntriesOwn'
    BY <1>3, <2>1, Handling
  <2>3. /\ inbox' \in [Sockets -> Seq(Requests)]
        /\ \A z \in Sockets : \A n \in DOMAIN inbox'[z] :
              /\ inbox'[z][n] # r
              /\ \E k \in DOMAIN inbox[z] : inbox'[z][n] = inbox[z][k]
              /\ \A m \in DOMAIN inbox'[z] : inbox'[z][m] = inbox'[z][n] => m = n
    <3>1. inbox[s] # <<>> /\ inbox' = [inbox EXCEPT ![s] = Tail(@)]
      BY <1>3
    <3>2. QED
      BY <3>1, Remaining, Zenon
  <2>4. ASSUME NEW q \in Untouched, q # r PROVE q \in Untouched'
    BY <2>1, <2>2, <2>4, OthersUntouched DEF Untouched
  <2>5. ASSUME NEW z \in Sockets, NEW n \in DOMAIN inbox'[z]
        PROVE  /\ inbox'[z][n].socket = z /\ inbox'[z][n] \notin due'
               /\ inbox'[z][n] \in Untouched'
               /\ \A m \in DOMAIN inbox'[z] : inbox'[z][m] = inbox'[z][n] => m = n
    <3>1. PICK k \in DOMAIN inbox[z] : inbox'[z][n] = inbox[z][k]
      BY <2>3, Zenon
    <3>2. inbox'[z][n] # r /\ inbox[z][k] \in Untouched
      <4>1. inbox'[z][n] # r
        BY <2>3, Zenon
      <4>2. QED
        BY <4>1 DEF WaitsOnce
    <3>3. inbox'[z][n] \in Untouched'
      BY <2>4, <3>1, <3>2
    <3>4. inbox'[z][n].socket = z /\ inbox'[z][n] \notin due'
      BY <1>1, <3>1 DEF WaitsOnce
    <3>5. ASSUME NEW m \in DOMAIN inbox'[z], inbox'[z][m] = inbox'[z][n] PROVE m = n
      BY <2>3, <3>5
    <3>6. QED
      BY <3>3, <3>4, <3>5
  <2>6. WaitsOnce'
    <3>1. due' \subseteq Untouched'
      BY <1>1, <2>1, <2>4 DEF WaitsOnce
    <3>2. QED
      BY <2>5, <3>1 DEF WaitsOnce
  <2>7. TypeOK'
    BY <1>1, <2>1, <2>2, <2>3, HandlingKeeps DEF TypeOK, rightVars
  <2>8. Taken(r) => s # "router"
    BY <2>1, RequestType DEF Taken
  <2>9. RoomLeft' /\ CountMatches'
    <3>1. create_queue_count' = Cardinality(Pending')
      BY <2>1, <2>2, HandlingKeeps
    <3>2. \/ create_queue_count' = create_queue_count
          \/ s # "router" /\ create_queue_count' = create_queue_count + 1
      BY <2>2, <2>8 DEF Taken, PassedBy
    <3>3. QED
      BY <1>1, <3>1, <3>2, StoreAssumption
         DEF RoomLeft, CountMatches, After, TypeOK
  <2>10. HandedOver'
    <3>1. ASSUME NEW q \in Pending' PROVE attempts'[q] = 0
      <4>1. CASE Taken(r)
        BY <1>1, <2>1, <3>1, <4>1 DEF Taken, HandedOver, Untouched
      <4>2. CASE PassedBy(r)
        BY <1>1, <2>1, <3>1, <4>2, PendingIs DEF PassedBy, HandedOver, Untouched, TypeOK
      <4>3. QED
        BY <2>2, <4>1, <4>2
    <3>2. QED
      BY <1>1, <3>1 DEF HandedOver, Sockets
  <2>11. AckedAccounted' /\ ClockCovers'
    BY <1>1, <2>1, <2>2, HandlingKeeps
  <2>12. QED
    BY <2>2, <2>6, <2>7, <2>9, <2>10, <2>11
<1>4. QED
  BY <1>2, <1>3 DEF Poll

\* What the loop, the clock and the environment leave alone together.
LEMMA QueueUnchanged ==
    ASSUME UNCHANGED create_queue
    PROVE  Pending' = Pending /\ Queued' = Queued /\ (EntriesOwn => EntriesOwn')
BY DEF Pending, Queued, EntriesOwn

\* The look at the queue. The clock starts again only when nothing waits; and a
\* flush has every token to do that something waits of.
LEMMA Checks == ASSUME IInv, CheckCreateQueue PROVE IInv'
<1> USE DEF IInv
<1>1. /\ Pending' = Pending /\ Queued' = Queued /\ EntriesOwn'
      /\ pc = "check" /\ pc' \in {"router", "flush"}
      /\ UNCHANGED <<inbox, create_queue, create_queue_count, rightVars, due, reply,
                     attempts, age>>
  BY QueueUnchanged DEF CheckCreateQueue
<1>2. todo = {} => todo' \in SUBSET Tokens
  BY DEF CheckCreateQueue, Queued
<1>3. TypeOK'
  BY <1>1 DEF CheckCreateQueue, TypeOK, rightVars, Queued, Sockets
<1>4. Queued = {} => Pending = {}
  BY PendingByToken
<1>5. RoomLeft'
  <2>1. CASE Queued = {}
    BY <1>1, <1>4, <2>1, FS_EmptySet, StoreAssumption
       DEF CheckCreateQueue, RoomLeft, CountMatches
  <2>2. CASE Queued # {}
    BY <1>1, <2>2 DEF CheckCreateQueue, RoomLeft, MayWait
  <2>3. QED
    BY <2>1, <2>2
<1>6. HandedOver'
  <2>1. CASE pc' = "router"
    BY <1>1, <2>1 DEF HandedOver
  <2>2. CASE pc' = "flush"
    <3>1. ASSUME NEW r \in Pending PROVE r.token \in todo'
      BY <2>2, PendingByToken DEF CheckCreateQueue
    <3>2. QED
      BY <1>1, <2>2, <3>1 DEF HandedOver, Sockets
  <2>3. QED
    BY <1>1, <2>1, <2>2
<1>7. ClockCovers'
  BY <1>1, <1>4 DEF CheckCreateQueue, ClockCovers
<1>8. WaitsOnce' /\ CountMatches' /\ AckedAccounted'
  BY <1>1 DEF WaitsOnce, Untouched, CountMatches, AckedAccounted
<1>9. QED
  BY <1>1, <1>3, <1>5, <1>6, <1>7, <1>8

\* The messages of a token are handed over once: it is done with afterwards.
LEMMA Flushes == ASSUME IInv, NEW t \in Tokens, FlushToken(t) PROVE IInv'
<1> USE DEF IInv
<1>1. /\ Pending' = Pending /\ EntriesOwn' /\ pc = "flush" /\ t \in todo
      /\ UNCHANGED <<inbox, create_queue, create_queue_count, elapsed, rightVars, due,
                     reply, age>>
  BY QueueUnchanged DEF FlushToken
<1>2. CASE pc' = "dead" /\ UNCHANGED <<todo, attempts>>
  <2>1. TypeOK'
    BY <1>1, <1>2 DEF TypeOK, rightVars
  <2>2. QED
    BY <1>1, <1>2, <2>1 DEF WaitsOnce, Untouched, CountMatches, RoomLeft, HandedOver,
                            Sockets, AckedAccounted, ClockCovers
<1>3. CASE /\ attempts' = [r \in Requests |->
                              IF r \in create_queue[t].messages THEN attempts[r] + 1
                                                                ELSE attempts[r]]
           /\ todo' = todo \ {t} /\ pc' = pc
  <2>1. TypeOK'
    BY <1>1, <1>3 DEF TypeOK, rightVars
  <2>2. \A r \in create_queue[t].messages : r \in Pending /\ attempts[r] = 0 /\ r.token = t
    BY <1>1, PendingIs DEF EntriesOwn, HandedOver
  <2>3. \A r \in Requests : r \notin Pending => attempts'[r] = attempts[r]
    BY <1>3, PendingIs
  <2>4. \A r \in Untouched : r \in Untouched'
    BY <1>1, <2>3 DEF Untouched
  <2>5. WaitsOnce'
    BY <1>1, <2>4 DEF WaitsOnce
  <2>6. ASSUME NEW r \in Pending PROVE attempts'[r] = IF r.token \in todo' THEN 0 ELSE 1
    <3>1. r \in Requests /\ r \in create_queue[r.token].messages
      BY PendingByToken
    <3>2. attempts[r] = IF r.token \in todo THEN 0 ELSE 1
      BY <1>1 DEF HandedOver
    <3>3. CASE r.token = t
      BY <1>1, <1>3, <3>1, <3>2, <3>3
    <3>4. CASE r.token # t
      BY <1>3, <2>2, <3>1, <3>2, <3>4
    <3>5. QED
      BY <3>3, <3>4
  <2>7. HandedOver'
    BY <1>1, <1>3, <2>6 DEF HandedOver, Sockets
  <2>8. AckedAccounted'
    <3>1. \A r \in Requests : r \in Pending => attempts'[r] \in {0, 1}
      BY <2>6
    <3>2. QED
      BY <1>1, <2>3, <3>1 DEF AckedAccounted
  <2>9. CountMatches' /\ RoomLeft' /\ ClockCovers'
    BY <1>1, <1>3 DEF CountMatches, RoomLeft, ClockCovers
  <2>10. QED
    BY <1>1, <2>1, <2>5, <2>7, <2>8, <2>9
<1>4. QED
  BY <1>2, <1>3 DEF FlushToken

\* The end of a flush: everything that waited has been handed over.
LEMMA Prunes == ASSUME IInv, Prune PROVE IInv'
<1> USE DEF IInv
<1>1. /\ pc = "flush" /\ todo = {} /\ pc' = "router" /\ elapsed' = 0
      /\ create_queue_count' = 0 /\ age' = [r \in Requests |-> 0]
      /\ UNCHANGED <<inbox, todo, rightVars, due, reply, attempts>>
  BY DEF Prune
<1>2. \A t \in Tokens : create_queue'[t].messages = {}
  BY DEF Prune, NoQueue, TypeOK, Entry
<1>3. create_queue' \in [Tokens -> Entry]
  BY DEF Prune, NoQueue, TypeOK, Entry
<1>4. Pending' = {}
  BY <1>2 DEF Pending
<1>5. TypeOK'
  BY <1>1, <1>3 DEF TypeOK, rightVars, Sockets
<1>6. EntriesOwn' /\ HandedOver' /\ ClockCovers' /\ WaitsOnce'
  BY <1>1, <1>2, <1>4 DEF EntriesOwn, HandedOver, ClockCovers, WaitsOnce, Untouched
<1>7. CountMatches' /\ RoomLeft'
  BY <1>1, <1>4, FS_EmptySet, StoreAssumption DEF CountMatches, RoomLeft
<1>8. AckedAccounted'
  BY <1>1, <1>4 DEF AckedAccounted, HandedOver
<1>9. QED
  BY <1>5, <1>6, <1>7, <1>8

-----------------------------------------------------------------------------
(* Around the loop. *)

\* A request comes to its socket as the last one, and was nowhere before.
LEMMA Sends == ASSUME IInv, NEW r \in Requests, Send(r) PROVE IInv'
<1> USE DEF IInv
<1>1. /\ r \in due /\ due' = due \ {r} /\ Pending' = Pending /\ EntriesOwn'
      /\ inbox' = [inbox EXCEPT ![r.socket] = Append(@, r)]
      /\ UNCHANGED <<queueVars, pc, rightVars, reply, attempts, age>>
  BY QueueUnchanged DEF Send, queueVars
<1>2. r.socket \in Sockets /\ r \in Untouched
  BY <1>1, RequestType DEF WaitsOnce
<1>3. Untouched' = Untouched
  BY <1>1 DEF Untouched
<1> DEFINE old == inbox[r.socket]
<1>4. old \in Seq(Requests)
  BY <1>2 DEF TypeOK
<1>5. /\ Append(old, r) \in Seq(Requests)
      /\ DOMAIN Append(old, r) = DOMAIN old \cup {Len(old) + 1}
      /\ \A n \in DOMAIN old : Append(old, r)[n] = old[n]
      /\ Append(old, r)[Len(old) + 1] = r
  BY <1>4
<1>6. inbox' \in [Sockets -> Seq(Requests)] /\ inbox'[r.socket] = Append(old, r)
  BY <1>1, <1>2, <1>5 DEF TypeOK
<1>7. TypeOK'
  BY <1>1, <1>6 DEF TypeOK, queueVars, rightVars
<1>8. ASSUME NEW s \in Sockets, NEW n \in DOMAIN inbox'[s]
      PROVE  /\ inbox'[s][n].socket = s /\ inbox'[s][n] \notin due'
             /\ inbox'[s][n] \in Untouched'
             /\ \A m \in DOMAIN inbox'[s] : inbox'[s][m] = inbox'[s][n] => m = n
  <2>1. CASE s = r.socket
    <3>1. \A m \in DOMAIN old : old[m] # r /\ old[m].socket = s /\ old[m] \notin due
                              /\ old[m] \in Untouched
      BY <1>1, <1>2, <2>1 DEF WaitsOnce
    <3>2. \A k, m \in DOMAIN old : old[k] = old[m] => k = m
      BY <1>2 DEF WaitsOnce
    <3>3. n \in DOMAIN old \/ n = Len(old) + 1
      BY <1>5, <1>6, <2>1
    <3>4. inbox'[s][n].socket = s /\ inbox'[s][n] \notin due' /\ inbox'[s][n] \in Untouched'
      BY <1>1, <1>2, <1>3, <1>5, <1>6, <2>1, <3>1, <3>3
    <3>5. ASSUME NEW m \in DOMAIN inbox'[s], inbox'[s][m] = inbox'[s][n] PROVE m = n
      <4>1. m \in DOMAIN old \/ m = Len(old) + 1
        BY <1>5, <1>6, <2>1
      <4>2. QED
        BY <1>5, <1>6, <2>1, <3>1, <3>2, <3>3, <3>5, <4>1
    <3>6. QED
      BY <3>4, <3>5
  <2>2. CASE s # r.socket
    <3>1. inbox'[s] = inbox[s]
      BY <1>1, <2>2 DEF TypeOK
    <3>2. QED
      BY <1>1, <1>3, <3>1 DEF WaitsOnce
  <2>3. QED
    BY <2>1, <2>2
<1>9. WaitsOnce'
  <2>1. due' \subseteq Untouched'
    BY <1>1, <1>3 DEF WaitsOnce
  <2>2. QED
    BY <1>8, <2>1 DEF WaitsOnce
<1>10. (CountMatches /\ RoomLeft /\ HandedOver /\ AckedAccounted /\ ClockCovers)'
  BY <1>1 DEF queueVars, CountMatches, RoomLeft, HandedOver, AckedAccounted, ClockCovers
<1>11. QED
  BY <1>1, <1>7, <1>9, <1>10

LEMMA Disturbs == ASSUME IInv, RightsChange \/ Kill PROVE IInv'
<1> USE DEF IInv
<1>1. /\ Pending' = Pending /\ EntriesOwn' /\ pc' \in {pc, "killed"}
      /\ UNCHANGED <<inbox, queueVars, due, reply, attempts, age>>
  BY QueueUnchanged DEF RightsChange, Kill, queueVars
<1>2. held' \in SUBSET Tokens /\ sinceHeld' \in [Tokens -> Nat]
  <2>1. CASE RightsChange
    <3>1. sinceHeld' = [t \in Tokens |-> IF t \in held' THEN 0 ELSE sinceHeld[t]]
          /\ held' \in SUBSET Tokens
      BY <2>1 DEF RightsChange
    <3>2. \A t \in Tokens : (IF t \in held' THEN 0 ELSE sinceHeld[t]) \in Nat
      BY DEF TypeOK
    <3>3. QED
      BY <3>1, <3>2
  <2>2. CASE Kill
    BY <2>2 DEF Kill, rightVars, TypeOK
  <2>3. QED
    BY <2>1, <2>2
<1>3. TypeOK'
  BY <1>1, <1>2 DEF TypeOK, queueVars
<1>4. WaitsOnce'
  BY <1>1 DEF WaitsOnce, Untouched
<1>5. (CountMatches /\ RoomLeft /\ HandedOver /\ AckedAccounted /\ ClockCovers)'
  BY <1>1 DEF queueVars, CountMatches, RoomLeft, HandedOver, AckedAccounted, ClockCovers,
              Sockets
<1>6. QED
  BY <1>1, <1>3, <1>4, <1>5

LEMMA OlderIs ==
    ASSUME NEW m \in Nat, NEW n \in Nat, NEW limit \in Nat
    PROVE  Older(n, limit) \in Nat /\ (m <= n => Older(m, limit) <= Older(n, limit))
BY DEF Older

\* A second passes, for the clock and for all that waits.
LEMMA Ticks == ASSUME IInv, Tick PROVE IInv'
<1> USE DEF IInv
<1>1. UNCHANGED <<inbox, create_queue_count, pc, todo, held, due, reply, attempts>>
  BY DEF Tick
<1>2. \A t \in Tokens : /\ create_queue'[t] \in Entry
                        /\ create_queue'[t].messages = create_queue[t].messages
                        /\ create_queue'[t].count = create_queue[t].count
  <2>1. ASSUME NEW t \in Tokens
        PROVE  /\ create_queue'[t] \in Entry
               /\ create_queue'[t].messages = create_queue[t].messages
               /\ create_queue'[t].count = create_queue[t].count
    <3>1. create_queue[t] \in Entry
      BY DEF TypeOK
    <3>2. CASE t \in Queued
      <4>1. create_queue'[t] =
              [create_queue[t] EXCEPT !.idle = Older(@, CREATE_QUEUE_TIMEOUT)]
        BY <3>2 DEF Tick
      <4>2. Older(create_queue[t].idle, CREATE_QUEUE_TIMEOUT) \in Nat
        BY <3>1, OlderIs, StoreAssumption DEF Entry
      <4>3. QED
        BY <3>1, <4>1, <4>2 DEF Entry
    <3>3. CASE t \notin Queued
      <4>1. create_queue'[t] = NoQueue
        BY <3>3 DEF Tick
      <4>2. create_queue[t].count = 0
        BY <3>1, <3>3 DEF Queued, Entry
      <4>3. create_queue[t].messages = {}
        BY <4>2 DEF EntriesOwn
      <4>4. QED
        BY <4>1, <4>2, <4>3 DEF NoQueue, Entry
    <3>4. QED
      BY <3>2, <3>3
  <2>2. QED
    BY <2>1
<1>3. create_queue' \in [Tokens -> Entry]
  BY <1>2 DEF Tick
<1>4. Pending' = Pending
  BY <1>2 DEF Pending
<1>5. EntriesOwn'
  BY <1>2 DEF EntriesOwn
<1>6. elapsed' \in Nat /\ age' \in [Requests -> Nat] /\ sinceHeld' \in [Tokens -> Nat]
  BY OlderIs, StoreAssumption DEF Tick, TypeOK
<1>7. TypeOK'
  BY <1>1, <1>3, <1>6 DEF TypeOK
<1>8. ClockCovers'
  <2>1. ASSUME NEW r \in Pending PROVE age'[r] <= elapsed'
    <3>1. r \in Requests
      BY PendingIs
    <3>2. age'[r] = Older(age[r], CREATE_QUEUE_FLUSH)
          /\ elapsed' = Older(elapsed, CREATE_QUEUE_FLUSH)
      BY <3>1 DEF Tick
    <3>3. age[r] \in Nat /\ elapsed \in Nat /\ age[r] <= elapsed
          /\ CREATE_QUEUE_FLUSH \in Nat
      BY <3>1, StoreAssumption DEF TypeOK, ClockCovers
    <3>4. QED
      BY <3>2, <3>3, OlderIs
  <2>2. QED
    BY <1>4, <2>1 DEF ClockCovers
<1>9. WaitsOnce'
  BY <1>1, <1>4 DEF WaitsOnce, Untouched
<1>10. (CountMatches /\ RoomLeft /\ HandedOver /\ AckedAccounted)'
  BY <1>1, <1>4 DEF CountMatches, RoomLeft, HandedOver, AckedAccounted
<1>11. QED
  BY <1>5, <1>7, <1>8, <1>9, <1>10

LEMMA NextInv == IInv /\ [Next]_vars => IInv'
<1> SUFFICES ASSUME IInv, [Next]_vars PROVE IInv'
  OBVIOUS
<1>1. CASE Loop
  BY <1>1, Polls, Checks, Flushes, Prunes DEF Loop
<1>2. CASE Environment
  BY <1>2, Sends, Disturbs DEF Environment
<1>3. CASE Tick
  BY <1>3, Ticks
<1>4. CASE UNCHANGED vars
  <2>1. Pending' = Pending /\ (EntriesOwn => EntriesOwn')
    BY <1>4, QueueUnchanged DEF vars, queueVars
  <2>2. QED
    BY <1>4, <2>1 DEF vars, queueVars, rightVars, IInv, TypeOK, WaitsOnce, Untouched,
                      CountMatches, RoomLeft, HandedOver, AckedAccounted, ClockCovers
<1>5. QED
  BY <1>1, <1>2, <1>3, <1>4 DEF Next

LEMMA Invariance == Spec => []IInv
BY InitInv, NextInv, PTL DEF Spec

-----------------------------------------------------------------------------
\* Every variable stays in its range.
THEOREM TypeCorrect == Spec => []TypeOK
<1>1. IInv => TypeOK
  BY DEF IInv
<1>2. QED
  BY <1>1, Invariance, PTL

\* create_queue_count is the number of indicators in the queue and exceeds
\* CREATE_QUEUE_MAX by one at most (store/__init__.py:97-98, 113, 336-339).
THEOREM CountAlwaysMatches == Spec => []CountMatches
<1>1. IInv => CountMatches
  BY DEF IInv
<1>2. QED
  BY <1>1, Invariance, PTL

\* What was acknowledged is handed over once or still waits, and nothing else
\* is: no workload, no change of rights and no end of the process makes the
\* store write anything twice (store/__init__.py:103-104, 149-181, 305-311).
THEOREM AlwaysAccounted == Spec => []AckedAccounted
<1>1. IInv => AckedAccounted
  BY DEF IInv
<1>2. QED
  BY <1>1, Invariance, PTL

\* What a look at the queue leaves there has not waited for longer than
\* CREATE_QUEUE_FLUSH (store/__init__.py:93-99, 115).
THEOREM NeverStale == Spec => NoStaleQueue
<1> DEFINE Fresh == pc = "check" /\ pc' = "router" =>
                        \A r \in Pending : age[r] <= CREATE_QUEUE_FLUSH
<1>1. ASSUME IInv, Next, pc = "check", pc' = "router", NEW r \in Pending
      PROVE  age[r] <= CREATE_QUEUE_FLUSH
  <2>1. CheckCreateQueue
    BY <1>1 DEF Next, Loop, Environment, Poll, FlushToken, Prune, Send, RightsChange,
                Kill, Tick, Sockets
  <2>2. Queued # {}
    BY <1>1, PendingByToken DEF IInv
  <2>3. elapsed <= CREATE_QUEUE_FLUSH
    BY <1>1, <2>1, <2>2 DEF CheckCreateQueue, MayWait
  <2>4. age[r] <= elapsed /\ age[r] \in Nat /\ elapsed \in Nat
    BY <1>1, PendingIs DEF IInv, ClockCovers, TypeOK
  <2>5. QED
    BY <2>3, <2>4, StoreAssumption
<1>2. IInv /\ [Next]_vars => [Fresh]_vars
  BY <1>1
<1>3. QED
  BY <1>2, Invariance, PTL DEF Spec, NoStaleQueue
=============================================================================
