------------------------------ MODULE Lifecycle ------------------------------
(***************************************************************************)
(* How the router starts its parts and stops them again (router.py, start, *)
(* stop and main; utils/manager.py; the Manager classes). Each part is a   *)
(* manager, an attribute of the router with the sockets it needs, and      *)
(* worker processes, forked one after the other and remembered in a list.  *)
(* A signal or an error may end the start anywhere: stop() then tells the  *)
(* workers that are remembered, by the attributes that are set. The        *)
(* process itself ends when all its children have, and a hunter that is    *)
(* told in the middle of a plugin takes no notice.                         *)
(*                                                                         *)
(* The hunters' token is made by the store's first start and written to    *)
(* router.yml, which the router and each hunter read, each once.           *)
(***************************************************************************)
EXTENDS Integers, Sequences, FiniteSets

CONSTANTS Threads,   \* manager -> the number of its workers, 0 if not enabled
          NoToken,   \* router.yml is not there, or is still empty
          NewToken,  \* what the store makes
          MaxStarts  \* bound on the number of starts

\* start() and stop(), in their order.
Starting == <<"store", "gatherers", "hunters", "streamer", "webhooks">>

\* Mutant: the store goes before the gatherers.
StoppingEarly == <<"hunters", "store", "gatherers", "streamer", "webhooks">>

Stopping == <<"hunters", "gatherers", "streamer", "webhooks", "store">>

Managers == {Starting[n] : n \in DOMAIN Starting}
Workers == UNION {{m} \X (1..Threads[m]) : m \in Managers}

ASSUME LifecycleAssumption ==
    /\ Threads \in [Managers -> Nat]
    /\ Threads["store"] = 1 /\ Threads["gatherers"] > 0
    /\ NoToken # NewToken
    /\ MaxStarts \in Nat

VARIABLES pc,          \* "off", "start", "loop", "stop" or "exit"
          at,          \* the position in Starting or Stopping
          managers,    \* the managers that are attributes of the router
          workers,     \* the workers on their lists
          alive,       \* the processes that run
          told,        \* history: the workers that have got a signal
          pending,     \* those that have yet to act on it
          router_yml,  \* "none", "open" while the store writes it, "empty", "written"
          routerToken, \* the hunters' token, as the router knows it
          hunterToken, \* the token each hunter works with
          settled,     \* history: router.yml was complete before the start
          spawned,     \* history: a worker forked and not yet on its list
          signals,     \* history: how often the router was interrupted
          starts       \* the number of starts

bootVars == <<pc, at, managers, workers, spawned>>
signalVars == <<told, pending>>
tokenVars == <<router_yml, routerToken, hunterToken, settled>>
vars == <<bootVars, alive, signalVars, tokenVars, signals, starts>>

-----------------------------------------------------------------------------
(* The start. *)

TokenInFile == IF router_yml = "written" THEN NewToken ELSE NoToken

\* main makes the router, which reads its settings.
Launch == /\ pc = "off" /\ alive = {} /\ starts < MaxStarts
          /\ pc' = "start" /\ at' = 1
          /\ managers' = {} /\ workers' = {} /\ told' = {} /\ spawned' = {}
          /\ pending' = {}
          /\ routerToken' = TokenInFile
          /\ settled' = (router_yml = "written")
          /\ signals' = 0
          /\ starts' = starts + 1
          /\ UNCHANGED <<alive, router_yml, hunterToken>>

\* The part whose turn it is.
Part == Starting[at]
ListOf(m) == {w \in workers : w[1] = m}
Waiting == pc = "start" /\ at <= Len(Starting) /\ spawned = {}

MakeManager == /\ Waiting /\ Part \notin managers /\ Threads[Part] > 0
               /\ managers' = managers \cup {Part}
               /\ UNCHANGED <<pc, at, workers, spawned, alive, signalVars, tokenVars, signals, starts>>

Forked(w) ==
    /\ alive' = alive \cup {w}
    /\ spawned' = {w}
    /\ hunterToken' = IF w[1] = "hunters" THEN [hunterToken EXCEPT ![w[2]] = TokenInFile]
                      ELSE hunterToken
    /\ UNCHANGED <<pc, at, managers, workers, signalVars, router_yml, routerToken, settled,
                   signals, starts>>

NextWorker == <<Part, Cardinality(ListOf(Part)) + 1>>

\* Mutant: one worker more than there are threads.
SpawnOneMore == /\ Waiting /\ Part \in managers
                /\ NextWorker[2] <= Threads[Part] + 1
                /\ Forked(NextWorker)

\* Manager.start: a worker is made, which for a hunter reads the settings, and
\* forked.
Spawn == /\ Waiting /\ Part \in managers
         /\ NextWorker \in Workers
         /\ Forked(NextWorker)

\* The worker is put on the list.
Remember == /\ pc = "start" /\ spawned # {}
            /\ workers' = workers \cup spawned
            /\ spawned' = {}
            /\ UNCHANGED <<pc, at, managers, alive, signalVars, tokenVars, signals, starts>>

\* All workers of the part run, or it is not wanted.
NextPart == /\ Waiting
            /\ Cardinality(ListOf(Part)) = Threads[Part]
            /\ Threads[Part] > 0 => Part \in managers
            /\ at' = at + 1
            /\ UNCHANGED <<pc, managers, workers, spawned, alive, signalVars, tokenVars, signals, starts>>

\* The front end is bound, last of all.
Loop == /\ pc = "start" /\ at > Len(Starting)
        /\ pc' = "loop"
        /\ UNCHANGED <<at, managers, workers, spawned, alive, signalVars, tokenVars, signals, starts>>

Writes(yml) == /\ <<"store", 1>> \in alive
               /\ router_yml' = yml
               /\ UNCHANGED <<bootVars, alive, signalVars, routerToken, hunterToken, settled,
                              signals, starts>>

\* Mutant: every start of the store makes the file anew.
StoreTokenAlways == \/ router_yml # "open" /\ Writes("open")
                    \/ router_yml = "open" /\ Writes("written")

\* The store's first start, in a process of its own: the file is made, then
\* written. The router gives it five seconds, and does not look.
StoreToken == \/ router_yml = "none" /\ Writes("open")
              \/ router_yml = "open" /\ Writes("written")

-----------------------------------------------------------------------------
(* The end. *)

Signal(ws) == /\ told' = told \cup ws
              /\ pending' = pending \cup (ws \cap alive)

\* SIGTERM, an error or, from the terminal to all processes, SIGINT. The first
\* one leads to stop(); in there the next one leads out of it.
Interrupt ==
    /\ pc \in {"start", "loop", "stop"}
    /\ pc' = IF pc = "stop" THEN "exit" ELSE "stop"
    /\ at' = 1
    /\ signals' = signals + 1
    /\ \E ws \in {{}, alive} : Signal(ws)
    /\ UNCHANGED <<managers, workers, spawned, alive, tokenVars, starts>>

\* Mutant: stop() takes every attribute for a manager, and fails on None.
StopPartUnchecked ==
    /\ pc = "stop" /\ at <= Len(Stopping)
    /\ \/ Stopping[at] \in managers /\ Signal(ListOf(Stopping[at]))
          /\ at' = at + 1 /\ UNCHANGED pc
       \/ Stopping[at] \notin managers /\ pc' = "exit" /\ UNCHANGED <<at, signalVars>>
    /\ UNCHANGED <<managers, workers, spawned, alive, tokenVars, signals, starts>>

\* stop(): one manager after the other tells its workers, and does not wait.
StopPart ==
    /\ pc = "stop" /\ at <= Len(Stopping)
    /\ Signal(IF Stopping[at] \in managers THEN ListOf(Stopping[at]) ELSE {})
    /\ at' = at + 1
    /\ UNCHANGED <<pc, managers, workers, spawned, alive, tokenVars, signals, starts>>

Stopped == /\ pc = "stop" /\ at > Len(Stopping)
           /\ pc' = "exit"
           /\ UNCHANGED <<at, managers, workers, spawned, alive, signalVars, tokenVars, signals, starts>>

\* A worker that was told ends, on SystemExit or KeyboardInterrupt. The file
\* the store has open stays as it is.
End(w) == /\ w \in pending
          /\ alive' = alive \ {w}
          /\ pending' = pending \ {w}
          /\ router_yml' = IF w[1] = "store" /\ router_yml = "open" THEN "empty"
                           ELSE router_yml
          /\ UNCHANGED <<bootVars, told, routerToken, hunterToken, settled, signals, starts>>

\* In a plugin either exception is caught, and only ends the loop over the
\* plugins: the hunter waits for its next message.
Swallow(w) == /\ w \in pending /\ w[1] = "hunters"
              /\ pending' = pending \ {w}
              /\ UNCHANGED <<bootVars, alive, told, tokenVars, signals, starts>>

\* The interpreter waits for its children before it ends.
Exit == /\ pc = "exit" /\ alive = {}
        /\ pc' = "off"
        /\ UNCHANGED <<at, managers, workers, spawned, alive, signalVars, tokenVars, signals, starts>>

Init == /\ pc = "off" /\ at = 1
        /\ managers = {} /\ workers = {} /\ alive = {} /\ spawned = {}
        /\ told = {} /\ pending = {}
        /\ router_yml = "none" /\ routerToken = NoToken
        /\ hunterToken = [n \in 1..Threads["hunters"] |-> NoToken]
        /\ settled = FALSE
        /\ signals = 0 /\ starts = 0

Boot == Launch \/ MakeManager \/ Spawn \/ Remember \/ NextPart \/ Loop \/ StoreToken
Halt == StopPart \/ Stopped \/ Exit
Heed == \E w \in Workers : End(w) \/ Swallow(w)

Next == Boot \/ Interrupt \/ Halt \/ Heed

Spec == Init /\ [][Next]_vars

\* stop() goes on until it is done, and a signal is acted on: a poll ends by its
\* timeout, and so do a query and a post. Nobody has to start the router or to
\* interrupt it.
FairSpec == Spec /\ WF_vars(Halt) /\ WF_vars(Heed)

-----------------------------------------------------------------------------
(* Properties. *)

\* Every variable stays in its range, and what is on a list was forked.
TypeOK ==
    /\ pc \in {"off", "start", "loop", "stop", "exit"}
    /\ at \in 1..Len(Starting) + 1
    /\ managers \subseteq Managers
    /\ workers \subseteq Workers /\ alive \subseteq Workers
    /\ told \subseteq workers \cup spawned /\ pending \subseteq told \cap alive
    /\ router_yml \in {"none", "open", "empty", "written"}
    /\ routerToken \in {NoToken, NewToken}
    /\ hunterToken \in [1..Threads["hunters"] -> {NoToken, NewToken}]
    /\ settled \in BOOLEAN
    /\ spawned \subseteq Workers /\ Cardinality(spawned) <= 1
    /\ signals \in 0..2 /\ starts \in 0..MaxStarts

\* The store is the last to be told: everything that writes to it is told
\* before, wherever the start was cut short and the stop interrupted
\* (router.py:294-300, "hunters come first").
StoreLast == <<"store", 1>> \in told => workers \subseteq told

\* Once router.yml is complete, every later start of the router gives it and
\* all its hunters the same token, so that it can tell what comes from them:
\* however the start before has ended, none of them meets a file that is being
\* written (router.py:81-83, hunter/__init__.py:69-78, store/__init__.py:193).
TokensAgree ==
    settled => \A n \in DOMAIN hunterToken :
        <<"hunters", n>> \in alive => hunterToken[n] = routerToken

Deaf == (alive \cap told) \ pending

\* One signal, at whatever moment of the start or of the work, ends the router
\* and all of its workers, except a worker that was forked and not yet put on
\* its list and a hunter that was in a plugin: for these the router waits
\* (router.py:286-300, utils/manager.py:12-26, hunter/__init__.py:133-139).
Ends == (pc = "stop" /\ signals = 1 /\ spawned = {}) ~> (pc = "off" \/ signals > 1 \/ Deaf # {})
=============================================================================
