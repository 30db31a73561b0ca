-------------------------------- MODULE Store --------------------------------
(***************************************************************************)
(* The store process (store/__init__.py): one loop that takes at most one  *)
(* request from each of its three sockets, answers it, and then looks at   *)
(* the create queue, in which single indicators wait to be written in      *)
(* bulk after their sender has been told "success".                        *)
(*                                                                         *)
(* Rights change at any moment (an administrator, an expiry, the command   *)
(* line); a check answers as TokenAuth promises, from knowledge at most    *)
(* TOKEN_CACHE_DELAY old. Only the right to write matters here.            *)
(*                                                                         *)
(* The code keeps absolute times and compares their differences with       *)
(* constants; here each difference is a variable of its own, which stops   *)
(* growing one second past the constant it is compared with.               *)
(***************************************************************************)
EXTENDS Integers, Sequences, SequencesExt, FiniteSets

CONSTANTS Tokens,
          Workloads,  \* sets of requests: the clients make those of one set, once each
          CREATE_QUEUE_FLUSH, CREATE_QUEUE_TIMEOUT, CREATE_QUEUE_MAX,
          TOKEN_CACHE_DELAY

Sockets == {"router", "write", "write_h"}

\* One indicator to create, several, any other known type or data that is not
\* JSON ("other"), and a type no handler exists for.
Kinds == {"single", "batch", "other", "unknown"}

Request == [id : Nat, token : Tokens, kind : Kinds, socket : Sockets]

Requests == UNION Workloads

ASSUME StoreAssumption ==
    /\ {CREATE_QUEUE_FLUSH, CREATE_QUEUE_TIMEOUT, TOKEN_CACHE_DELAY} \subseteq Nat
    /\ CREATE_QUEUE_MAX \in Nat \ {0}
    /\ Requests \subseteq Request /\ IsFiniteSet(Requests)
    /\ \A r \in Requests : r.kind \in {"single", "batch"} <=> r.socket # "router"

VARIABLES inbox,              \* what waits on each socket
          create_queue,       \* token -> its entry, or NoQueue
          create_queue_count,
          elapsed,            \* now - last_flushed
          pc,                 \* where the loop is
          todo,               \* the tokens the flush in progress has yet to do
          held,               \* the tokens that may write now
          sinceHeld,          \* how long ago each token last could
          due,                \* the requests clients have yet to make
          reply,              \* history: the status each request was answered with
          attempts,           \* history: how often its data went to the database
          age                 \* history: how long it has been in the queue

queueVars == <<create_queue, create_queue_count, elapsed, todo>>
rightVars == <<held, sinceHeld>>
vars == <<inbox, queueVars, pc, rightVars, due, reply, attempts, age>>

-----------------------------------------------------------------------------
\* An entry is made and counted at once: a token without one has count 0.
Entry == [count : Nat, idle : Nat, messages : SUBSET Requests]
NoQueue == [count |-> 0, idle |-> 0, messages |-> {}]

Queued == {t \in Tokens : create_queue[t].count > 0}
Pending == UNION {create_queue[t].messages : t \in Tokens}

\* The promise of TokenAuth for the right to write.
MayGrant(t) == sinceHeld[t] <= TOKEN_CACHE_DELAY
MayRefuse(t) == t \notin held

\* One second more, up to one past the constant that it is compared with.
Older(n, limit) == IF n <= limit THEN n + 1 ELSE n

-----------------------------------------------------------------------------
(* Handling one request. *)

\* The socket a reply leaves by. It only knows the peers of its own: the reply
\* to a create that came in by the hunters' socket is dropped.
ReplySocket(r) == IF r.kind \in {"single", "batch"} THEN "write" ELSE "router"

Told(r) == reply[r] # "none" /\ ReplySocket(r) = r.socket

\* Mutant: the handler's MORE_DATA_NEEDED goes out as it is.
AnswerRaw(r, status) ==
    reply' = [reply EXCEPT ![r] = IF r.kind = "single" THEN "more" ELSE status]

Answer(r, status) == reply' = [reply EXCEPT ![r] = status]

\* _queue_indicator
QueueIndicator(r) ==
    /\ create_queue' = [create_queue EXCEPT
                          ![r.token] = [count |-> @.count + 1, idle |-> 0,
                                        messages |-> @.messages \cup {r}]]
    /\ create_queue_count' = create_queue_count + 1
    /\ age' = [age EXCEPT ![r] = 0]

\* handle_indicators_create: refused, or an indicator fails _check_indicator,
\* or it is queued (one) or created at once (several). What the database makes
\* of a create is swallowed: the reply is a success.
HandleIndicatorsCreate(r) ==
    \/ /\ MayRefuse(r.token)
       /\ Answer(r, "failed")
       /\ UNCHANGED <<create_queue, create_queue_count, age, attempts>>
    \/ /\ MayGrant(r.token)
       /\ \/ /\ Answer(r, "failed")
             /\ UNCHANGED <<create_queue, create_queue_count, age, attempts>>
          \/ /\ r.kind = "single"
             /\ Answer(r, "success")
             /\ QueueIndicator(r)
             /\ UNCHANGED attempts
          \/ /\ r.kind = "batch"
             /\ Answer(r, "success")
             /\ attempts' = [attempts EXCEPT ![r] = @ + 1]
             /\ UNCHANGED <<create_queue, create_queue_count, age>>

\* handle_message. A type without a handler raises before anything is sent: the
\* loop logs it and the request stays unanswered.
HandleMessage(r) ==
    \/ r.kind \in {"single", "batch"} /\ HandleIndicatorsCreate(r)
    \/ /\ \/ r.kind = "other" /\ \E status \in {"success", "failed"} : Answer(r, status)
          \/ r.kind = "unknown" /\ UNCHANGED reply
       /\ UNCHANGED <<create_queue, create_queue_count, age, attempts>>

After(s) == CASE s = "router" -> "write"
              [] s = "write" -> "write_h"
              [] s = "write_h" -> "check"

\* The loop polls a socket, and takes one request if there is one.
Poll(s) ==
    /\ pc = s
    /\ pc' = After(s)
    /\ \/ /\ inbox[s] = <<>>
          /\ UNCHANGED <<inbox, create_queue, create_queue_count, age, reply, attempts>>
       \/ /\ inbox[s] # <<>>
          /\ inbox' = [inbox EXCEPT ![s] = Tail(@)]
          /\ HandleMessage(Head(inbox[s]))
    /\ UNCHANGED <<elapsed, todo, rightVars, due>>

-----------------------------------------------------------------------------
(* _check_create_queue and _flush_create_queue. *)

\* Mutant: either condition is enough to wait.
MayWaitEither == elapsed <= CREATE_QUEUE_FLUSH \/ create_queue_count < CREATE_QUEUE_MAX

MayWait == elapsed <= CREATE_QUEUE_FLUSH /\ create_queue_count < CREATE_QUEUE_MAX

\* Mutant: a look at the queue that decides to wait restarts the clock.
CheckRestartsClock ==
    /\ pc = "check"
    /\ \/ /\ Queued = {} \/ MayWait
          /\ elapsed' = 0 /\ pc' = "router" /\ UNCHANGED todo
       \/ /\ Queued # {} /\ ~MayWait
          /\ pc' = "flush"
          /\ todo' = {t \in Queued : create_queue[t].messages # {}}
          /\ UNCHANGED elapsed
    /\ UNCHANGED <<inbox, create_queue, create_queue_count, rightVars, due, reply,
                   attempts, age>>

CheckCreateQueue ==
    /\ pc = "check"
    /\ \/ /\ Queued = {}
          /\ elapsed' = 0 /\ pc' = "router" /\ UNCHANGED todo
       \/ /\ Queued # {} /\ MayWait
          /\ pc' = "router" /\ UNCHANGED <<elapsed, todo>>
       \/ /\ Queued # {} /\ ~MayWait
          /\ pc' = "flush" /\ todo' = {t \in Queued : create_queue[t].messages # {}}
          /\ UNCHANGED elapsed
    /\ UNCHANGED <<inbox, create_queue, create_queue_count, rightVars, due, reply,
                   attempts, age>>

\* The messages of one token: its right is checked again and its data handed
\* to the database in one call, whose failure is logged. The reply built after
\* it is never sent. A refusal is raised outside the try and ends the process.
FlushToken(t) ==
    /\ pc = "flush" /\ t \in todo
    /\ \/ /\ MayRefuse(t)
          /\ pc' = "dead"
          /\ UNCHANGED <<todo, attempts>>
       \/ /\ MayGrant(t)
          /\ attempts' = [r \in Requests |->
                            IF r \in create_queue[t].messages THEN attempts[r] + 1
                                                              ELSE attempts[r]]
          /\ todo' = todo \ {t}
          /\ UNCHANGED pc
    /\ UNCHANGED <<inbox, create_queue, create_queue_count, elapsed, rightVars, due,
                   reply, age>>

\* Mutant: the count goes on from where it was.
PruneKeepsCount ==
    /\ pc = "flush" /\ todo = {}
    /\ create_queue' = [t \in Tokens |->
           IF create_queue[t].idle > CREATE_QUEUE_TIMEOUT
             THEN NoQueue
             ELSE [create_queue[t] EXCEPT !.messages = {}]]
    /\ elapsed' = 0
    /\ age' = [r \in Requests |-> 0]
    /\ pc' = "router"
    /\ UNCHANGED <<inbox, create_queue_count, todo, rightVars, due, reply, attempts>>

\* Mutant: only the tokens that are pruned lose their messages.
PruneKeepsMessages ==
    /\ pc = "flush" /\ todo = {}
    /\ create_queue' = [t \in Tokens |->
           IF create_queue[t].idle > CREATE_QUEUE_TIMEOUT THEN NoQueue ELSE create_queue[t]]
    /\ create_queue_count' = Cardinality(Pending)
    /\ elapsed' = 0
    /\ age' = [r \in Requests |-> 0]
    /\ pc' = "router"
    /\ UNCHANGED <<inbox, todo, rightVars, due, reply, attempts>>

\* After the flush: no messages, no idle tokens, the count and clock reset.
Prune ==
    /\ pc = "flush" /\ todo = {}
    /\ create_queue' = [t \in Tokens |->
           IF create_queue[t].idle > CREATE_QUEUE_TIMEOUT
             THEN NoQueue
             ELSE [create_queue[t] EXCEPT !.messages = {}]]
    /\ create_queue_count' = 0
    /\ elapsed' = 0
    /\ age' = [r \in Requests |-> 0]
    /\ pc' = "router"
    /\ UNCHANGED <<inbox, todo, rightVars, due, reply, attempts>>

-----------------------------------------------------------------------------
(* Around the loop. *)

\* The router hands a request over.
Send(r) == /\ r \in due
           /\ due' = due \ {r}
           /\ inbox' = [inbox EXCEPT ![r.socket] = Append(@, r)]
           /\ UNCHANGED <<queueVars, pc, rightVars, reply, attempts, age>>

RightsChange ==
    /\ held' \in SUBSET Tokens
    /\ sinceHeld' = [t \in Tokens |-> IF t \in held' THEN 0 ELSE sinceHeld[t]]
    /\ UNCHANGED <<inbox, queueVars, pc, due, reply, attempts, age>>

\* SIGTERM from the manager, or an interrupt: the loop ends without a flush.
\* Nobody starts the process again.
Kill == /\ pc \notin {"dead", "killed"}
        /\ pc' = "killed"
        /\ UNCHANGED <<inbox, queueVars, rightVars, due, reply, attempts, age>>

Tick ==
    /\ elapsed' = Older(elapsed, CREATE_QUEUE_FLUSH)
    /\ age' = [r \in Requests |->
                 IF r \in Pending THEN Older(age[r], CREATE_QUEUE_FLUSH) ELSE age[r]]
    /\ create_queue' = [t \in Tokens |->
           IF t \in Queued
             THEN [create_queue[t] EXCEPT !.idle = Older(@, CREATE_QUEUE_TIMEOUT)]
             ELSE NoQueue]
    /\ sinceHeld' = [t \in Tokens |-> IF t \in held THEN 0
                                      ELSE Older(sinceHeld[t], TOKEN_CACHE_DELAY)]
    /\ UNCHANGED <<inbox, create_queue_count, pc, todo, held, due, reply, attempts>>

-----------------------------------------------------------------------------
Init == /\ inbox = [s \in Sockets |-> <<>>]
        /\ create_queue = [t \in Tokens |-> NoQueue]
        /\ create_queue_count = 0
        /\ elapsed = 0
        /\ pc = "router"
        /\ todo = {}
        /\ held \in SUBSET Tokens
        /\ sinceHeld = [t \in Tokens |-> IF t \in held THEN 0 ELSE TOKEN_CACHE_DELAY + 1]
        /\ due \in Workloads
        /\ reply = [r \in Requests |-> "none"]
        /\ attempts = [r \in Requests |-> 0]
        /\ age = [r \in Requests |-> 0]

Loop == \/ \E s \in Sockets : Poll(s)
        \/ CheckCreateQueue
        \/ \E t \in Tokens : FlushToken(t)
        \/ Prune

Environment == (\E r \in Requests : Send(r)) \/ RightsChange \/ Kill

Next == Loop \/ Environment \/ Tick

\* Polls time out, so the loop never stands still while the process lives; and
\* the clock runs.
Fairness == WF_vars(Loop) /\ WF_vars(Tick)

Spec == Init /\ [][Next]_vars /\ Fairness

-----------------------------------------------------------------------------
(* Properties. *)

Stopped == pc \in {"dead", "killed"}

Waits(r) == r \in ToSet(inbox[r.socket])

\* Every variable stays in its range.
TypeOK ==
    /\ inbox \in [Sockets -> Seq(Requests)]
    /\ create_queue \in [Tokens -> Entry]
    /\ create_queue_count \in Nat
    /\ elapsed \in Nat
    /\ pc \in Sockets \cup {"check", "flush", "dead", "killed"}
    /\ todo \in SUBSET Tokens
    /\ held \in SUBSET Tokens
    /\ sinceHeld \in [Tokens -> Nat]
    /\ due \in SUBSET Requests
    /\ reply \in [Requests -> {"none", "success", "failed"}]
    /\ attempts \in [Requests -> Nat]
    /\ age \in [Requests -> Nat]

\* create_queue_count, which is kept apart from the queue and decides when to
\* flush, is the number of indicators in it, and never exceeds
\* CREATE_QUEUE_MAX by more than one: two sockets feed the queue between two
\* looks at it (store/__init__.py:97-98, 113, 336-339).
CountMatches == /\ create_queue_count = Cardinality(Pending)
                /\ create_queue_count <= CREATE_QUEUE_MAX + 1

\* An indicator whose sender was told "success" has been handed to the database
\* once, or still waits for it; nothing is handed over twice, and nothing that
\* was answered otherwise is (store/__init__.py:103-104, 149-181, 305-311).
AckedAccounted ==
    \A r \in Requests :
        /\ attempts[r] <= 1
        /\ r.kind = "single" =>
               ((reply[r] = "success") <=> (r \in Pending \/ attempts[r] = 1))

\* Whatever stays in the queue when the loop has looked at it has waited no
\* longer than CREATE_QUEUE_FLUSH, although one clock is shared by all tokens
\* and moves only at a flush or while no token is queued
\* (store/__init__.py:93-99, 115).
NoStaleQueue == [][
    pc = "check" /\ pc' = "router" =>
        \A r \in Pending : age[r] <= CREATE_QUEUE_FLUSH ]_vars

\* The sender of every request of a known type gets an answer, hunters apart,
\* and every queued indicator gets to the database, unless the process ends
\* (store/__init__.py:212-254, 320-324).
AllServed ==
    \A r \in Requests :
        /\ r.kind # "unknown" /\ r.socket # "write_h" /\ Waits(r) ~> Stopped \/ Told(r)
        /\ r \in Pending ~> Stopped \/ attempts[r] = 1

\* A token that loses the right to write while its indicators are queued does
\* not end the process: a refusal is an error for that token
\* (store/__init__.py:164-165).
RefusalSurvived == pc # "dead"
=============================================================================
