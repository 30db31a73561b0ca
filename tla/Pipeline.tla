------------------------------ MODULE Pipeline ------------------------------
(***************************************************************************)
(* The way of a request through the router (router.py), the gatherers      *)
(* (gatherer/__init__.py) and the hunters (hunter/__init__.py), to the     *)
(* store and back.                                                         *)
(*                                                                         *)
(* The router is one loop. It polls the front end and the store's three    *)
(* sockets, handles one message of each that has some, then polls the      *)
(* gatherers' and the hunters' sinks. A handler sends, and a send to the   *)
(* gatherers waits while all of their pipes are full: `out` and `copies`   *)
(* hold what the handler in progress has yet to send.                      *)
(*                                                                         *)
(* A pipe to or from a gatherer holds HWM messages. The others have no     *)
(* limit here: they hold a million, or make only hunters wait. The store   *)
(* answers everything in the order in which it gets it.                    *)
(***************************************************************************)
EXTENDS Hunters, FiniteSets, Functions

CONSTANTS Requests,       \* what clients may send, each once
          Gatherers, HunterIds,
          RouterToken,    \* the hunters' token, by router.yml as the router read it
          HunterToken,    \* the token the hunters send with
          HWM,
          Idle, Dead, None

\* Indicators with, as history, the one each was made of, or None.
Item == [i : Indicator, of : Indicator \cup {None}]

Mtypes == {"create", "search", "other"}
\* `ok`: its data are indicators the library takes.
Message == [id : STRING, token : STRING, mtype : Mtypes, ok : BOOLEAN,
            data : SUBSET Item]

\* The store's sockets, named as in store/__init__.py.
Lanes == {"socket", "s_write", "s_hunter_write"}

\* A message on its way, and where to.
Handing == [to : Lanes \cup {"gatherers"}, msg : Message]

ASSUME PipelineAssumption ==
    /\ Requests \subseteq Message /\ IsFiniteSet(Requests)
    /\ \A r \in Requests : \A x \in r.data : x.of = None
    /\ \A r \in Requests : r.mtype = "search" => Cardinality(r.data) <= 1
    /\ \A r, s \in Requests : r.id = s.id => r = s
    /\ IsFiniteSet(Gatherers) /\ IsFiniteSet(HunterIds) /\ HunterIds \subseteq STRING
    /\ \A r \in Requests : r.id \notin HunterIds
    /\ RouterToken \in STRING /\ HunterToken \in STRING
    /\ HWM \in Nat \ {0}
    /\ Idle \notin Message /\ Dead \notin Message /\ Idle # Dead
    /\ None \notin Indicator /\ None \notin Handing

VARIABLES frontend,     \* requests waiting at the front end
          half,         \* which half of the loop was polled last
          ready,        \* the sockets found readable, not yet handled
          out,          \* the message being passed on, and where to, or None
          copies,       \* the indicators to copy to the hunters after it
          jobs,         \* the pipe to each gatherer
          work,         \* what each gatherer has in hand
          gathered,     \* the pipe from each gatherer
          hunts,        \* the pipe to each hunter
          prey,         \* what each hunter has in hand, and the plugins to run
          hunted,       \* the hunters' sink
          store,        \* what the store got and the router has not relayed the
                        \* answer to, by socket
          sent,         \* history: requests made
          answered,     \* history: how often each request was answered
          lost          \* history: what died with a gatherer

routerVars == <<half, ready, out, copies>>
gathererVars == <<jobs, work, gathered>>
hunterVars == <<hunts, prey, hunted>>
vars == <<frontend, routerVars, gathererVars, hunterVars, store,
          sent, answered, lost>>

-----------------------------------------------------------------------------
Init ==
    /\ frontend = <<>>
    /\ half = "backend" /\ ready = {} /\ out = None /\ copies = {}
    /\ jobs = [g \in Gatherers |-> <<>>]
    /\ work = [g \in Gatherers |-> Idle]
    /\ gathered = [g \in Gatherers |-> <<>>]
    /\ hunts = [h \in HunterIds |-> <<>>]
    /\ prey = [h \in HunterIds |-> Idle]
    /\ hunted = <<>>
    /\ store = [s \in Lanes |-> <<>>]
    /\ sent = {} /\ lost = {}
    /\ answered = [r \in Requests |-> 0]

Send(r) ==
    /\ r \notin sent
    /\ sent' = sent \cup {r}
    /\ frontend' = Append(frontend, r)
    /\ UNCHANGED <<routerVars, gathererVars, hunterVars, store, answered, lost>>

-----------------------------------------------------------------------------
(* The router                                                              *)

Handled == out = None /\ copies = {}

\* Mutant: the write socket is not registered with the poller.
FrontSocketsUnregistered == {"frontend", "socket", "s_hunter_write"}

FrontSockets == Lanes \cup {"frontend"}

BackSockets == IF HunterIds = {} THEN {"sink_s"} ELSE {"sink_s", "sink"}

\* The order in which readable sockets are handled.
Position == [frontend |-> 1, socket |-> 2, s_write |-> 3, s_hunter_write |-> 4,
             sink_s |-> 1, sink |-> 2]

Readable(s) ==
    CASE s = "frontend" -> frontend # <<>>
      [] s \in Lanes -> store[s] # <<>>
      [] s = "sink_s" -> \E g \in Gatherers : gathered[g] # <<>>
      [] s = "sink" -> hunted # <<>>

\* Without input the poll times out, and the loop goes on.
PollFrontend ==
    /\ Handled /\ ready = {} /\ half = "backend"
    /\ half' = "frontend"
    /\ ready' = {s \in FrontSockets : Readable(s)}
    /\ UNCHANGED <<frontend, out, copies, gathererVars, hunterVars, store,
                   sent, answered, lost>>

PollBackend ==
    /\ Handled /\ ready = {} /\ half = "frontend"
    /\ half' = "backend"
    /\ ready' = {s \in BackSockets : Readable(s)}
    /\ UNCHANGED <<frontend, out, copies, gathererVars, hunterVars, store,
                   sent, answered, lost>>

\* It is the turn of socket s.
Turn(s) ==
    /\ Handled /\ s \in ready
    /\ \A t \in ready : Position[s] <= Position[t]
    /\ ready' = ready \ {s}
    /\ UNCHANGED half

\* Without hunters there is nobody to copy to.
Copied(items) == IF HunterIds = {} THEN {} ELSE items

\* Creates go by the gatherers. A search is copied to the hunters before
\* anybody has looked at its token.
Route(m) ==
    /\ out' = [to |-> IF m.mtype = "create" THEN "gatherers" ELSE "socket", msg |-> m]
    /\ copies' = IF m.mtype = "search" THEN Copied(m.data) ELSE {}

\* Mutant: chosen by what the message holds.
LaneByContent(m) ==
    IF \E x \in m.data : "pdns" \in x.i.tags THEN "s_hunter_write" ELSE "s_write"

\* Messages with the hunters' token have a socket of their own.
Lane(m) == IF m.token = RouterToken THEN "s_hunter_write" ELSE "s_write"

HandleFrontend ==
    /\ Turn("frontend")
    /\ Route(Head(frontend))
    /\ frontend' = Tail(frontend)
    /\ UNCHANGED <<gathererVars, hunterVars, store, sent, answered, lost>>

HandleHunted ==
    /\ Turn("sink")
    /\ Route(Head(hunted))
    /\ hunted' = Tail(hunted)
    /\ UNCHANGED <<frontend, gathererVars, hunts, prey, store, sent, answered, lost>>

HandleGathered ==
    /\ Turn("sink_s")
    /\ \E g \in Gatherers :
          /\ gathered[g] # <<>>
          /\ LET m == Head(gathered[g])
             IN  /\ out' = [to |-> Lane(m), msg |-> m]
                 /\ copies' = Copied({x \in m.data : Huntable(x.i)})
          /\ gathered' = [gathered EXCEPT ![g] = Tail(@)]
    /\ UNCHANGED <<frontend, jobs, work, hunterVars, store, sent, answered, lost>>

\* An answer goes to the peer it is addressed to. The front end has no peer
\* with a hunter's identity and drops the answers to hunters.
Relay(s) ==
    /\ Turn(s)
    /\ store' = [store EXCEPT ![s] = Tail(@)]
    /\ answered' = [r \in Requests |->
                       IF r.id = Head(store[s]).id THEN answered[r] + 1 ELSE answered[r]]
    /\ UNCHANGED <<frontend, out, copies, gathererVars, hunterVars, sent, lost>>

\* Mutant: one message more than the pipe holds.
HasRoomForOneMore(pipe) == Len(pipe) <= HWM

HasRoom(pipe) == Len(pipe) < HWM

\* Mutant: a socket that publishes to the gatherers instead of sharing out.
SendJobToAll ==
    /\ out # None /\ out.to = "gatherers"
    /\ \A g \in Gatherers : work[g] = Dead \/ HasRoom(jobs[g])
    /\ jobs' = [g \in Gatherers |->
                  IF work[g] = Dead THEN jobs[g] ELSE Append(jobs[g], out.msg)]
    /\ out' = None
    /\ UNCHANGED <<frontend, half, ready, copies, work, gathered, hunterVars,
                   store, sent, answered, lost>>

\* Waits while every living gatherer's pipe is full, or none lives.
SendJob ==
    /\ out # None /\ out.to = "gatherers"
    /\ \E g \in Gatherers :
          /\ work[g] # Dead /\ HasRoom(jobs[g])
          /\ jobs' = [jobs EXCEPT ![g] = Append(@, out.msg)]
    /\ out' = None
    /\ UNCHANGED <<frontend, half, ready, copies, work, gathered, hunterVars,
                   store, sent, answered, lost>>

SendStore ==
    /\ out # None /\ out.to \in Lanes
    /\ store' = [store EXCEPT ![out.to] = Append(@, out.msg)]
    /\ out' = None
    /\ UNCHANGED <<frontend, half, ready, copies, gathererVars, hunterVars,
                   sent, answered, lost>>

\* The copies follow, one by one.
SendHunt ==
    /\ out = None
    /\ \E x \in copies, h \in HunterIds :
          /\ hunts' = [hunts EXCEPT ![h] = Append(@, x)]
          /\ copies' = copies \ {x}
    /\ UNCHANGED <<frontend, half, ready, out, gathererVars, prey, hunted,
                   store, sent, answered, lost>>

Router == \/ PollFrontend \/ PollBackend
          \/ HandleFrontend \/ HandleGathered \/ HandleHunted
          \/ \E s \in Lanes : Relay(s)
          \/ SendJob \/ SendHunt \/ SendStore

-----------------------------------------------------------------------------
(* The gatherers                                                           *)

TakeJob(g) ==
    /\ work[g] = Idle /\ jobs[g] # <<>>
    /\ work' = [work EXCEPT ![g] = Head(jobs[g])]
    /\ jobs' = [jobs EXCEPT ![g] = Tail(@)]
    /\ UNCHANGED <<frontend, routerVars, gathered, hunterVars, store,
                   sent, answered, lost>>

Busy(g) == work[g] \notin {Idle, Dead}

PushGathered(g) ==
    /\ Busy(g) /\ work[g].ok /\ HasRoom(gathered[g])
    /\ gathered' = [gathered EXCEPT ![g] = Append(@, work[g])]
    /\ work' = [work EXCEPT ![g] = Idle]
    /\ UNCHANGED <<frontend, routerVars, jobs, hunterVars, store,
                   sent, answered, lost>>

\* The router waits for room in the pipes of the gatherers that live. Only
\* that keeps it from their results for as long as SNDTIMEO, 30 seconds.
Stuck ==
    /\ out # None /\ out.to = "gatherers"
    /\ \A g \in Gatherers : work[g] # Dead => ~HasRoom(jobs[g])

\* Nothing catches what process() or the push raises, and nothing starts the
\* process again: its message and its pipe are lost. It dies of an indicator
\* the library does not take, and of a router that takes no result for
\* SNDTIMEO.
Die(g) ==
    /\ Busy(g) /\ (work[g].ok => ~HasRoom(gathered[g]) /\ Stuck)
    /\ work' = [work EXCEPT ![g] = Dead]
    /\ jobs' = [jobs EXCEPT ![g] = <<>>]
    /\ lost' = lost \cup (Requests \cap ({work[g]} \cup Range(jobs[g])))
    /\ UNCHANGED <<frontend, routerVars, gathered, hunterVars, store,
                   sent, answered>>

Gather(g) == TakeJob(g) \/ PushGathered(g) \/ Die(g)

-----------------------------------------------------------------------------
(* The hunters                                                             *)

TakeHunt(h) ==
    /\ prey[h] = Idle /\ hunts[h] # <<>>
    /\ prey' = [prey EXCEPT ![h] = [item |-> Head(hunts[h]), left |-> Plugins]]
    /\ hunts' = [hunts EXCEPT ![h] = Tail(@)]
    /\ UNCHANGED <<frontend, routerVars, gathererVars, hunted, store,
                   sent, answered, lost>>

\* What the plugin makes goes back as a create, even if that is nothing.
Created(h, i, made) ==
    [id |-> h, token |-> HunterToken, mtype |-> "create", ok |-> TRUE,
     data |-> {[i |-> o, of |-> i] : o \in made}]

Rest(p) == IF Len(p.left) = 1 THEN Idle ELSE [p EXCEPT !.left = Tail(@)]

RunPlugin(h) ==
    /\ prey[h] # Idle
    /\ \E a \in Answers :
          LET i == prey[h].item.i
          IN  hunted' = Append(hunted, Created(h, i, Output(Head(prey[h].left), i, a)))
    /\ prey' = [prey EXCEPT ![h] = Rest(@)]
    /\ UNCHANGED <<frontend, routerVars, gathererVars, hunts, store,
                   sent, answered, lost>>

\* A plugin that raises has made nothing, and the next one has its turn.
PluginFails(h) ==
    /\ prey[h] # Idle
    /\ prey' = [prey EXCEPT ![h] = Rest(@)]
    /\ UNCHANGED <<frontend, routerVars, gathererVars, hunts, hunted, store,
                   sent, answered, lost>>

Hunt(h) == TakeHunt(h) \/ RunPlugin(h) \/ PluginFails(h)

-----------------------------------------------------------------------------
Next == \/ \E r \in Requests : Send(r)
        \/ Router
        \/ \E g \in Gatherers : Gather(g)
        \/ \E h \in HunterIds : Hunt(h)

\* Every process goes on when it can: all of them poll with a timeout.
Fairness == /\ WF_vars(Router)
            /\ \A g \in Gatherers : WF_vars(Gather(g))
            /\ \A h \in HunterIds : WF_vars(Hunt(h))

Spec == Init /\ [][Next]_vars
FairSpec == Spec /\ Fairness

-----------------------------------------------------------------------------
(* Properties                                                              *)

Prey == [item : Item, left : Seq(PluginNames) \ {<<>>}]

\* Every variable has its type, the pipes of the gatherers hold no more than
\* they can, and nothing waits for a dead gatherer.
TypeOK ==
    /\ frontend \in Seq(Message)
    /\ half \in {"frontend", "backend"}
    /\ ready \subseteq FrontSockets \cup {"sink_s", "sink"}
    /\ out \in Handing \cup {None} /\ copies \subseteq Item
    /\ jobs \in [Gatherers -> Seq(Message)]
    /\ work \in [Gatherers -> Message \cup {Idle, Dead}]
    /\ gathered \in [Gatherers -> Seq(Message)]
    /\ \A g \in Gatherers : /\ Len(jobs[g]) <= HWM /\ Len(gathered[g]) <= HWM
                            /\ work[g] = Dead => jobs[g] = <<>>
    /\ hunts \in [HunterIds -> Seq(Item)]
    /\ prey \in [HunterIds -> Prey \cup {Idle}]
    /\ hunted \in Seq(Message)
    /\ store \in [Lanes -> Seq(Message)]
    /\ sent \subseteq Requests /\ lost \subseteq Requests
    /\ answered \in [Requests -> Nat]

\* The places r has in the pipes of a family.
Places(r, pipes) ==
    UNION {{x} \X {k \in DOMAIN pipes[x] : pipes[x][k].id = r.id} : x \in DOMAIN pipes}

In(r, pipes) == Cardinality(Places(r, pipes))
With(r) == {g \in Gatherers : work[g] = r}
Is(b) == IF b THEN 1 ELSE 0

\* Whatever workers and sockets it passes, a request is in one place at a
\* time, or has been answered once, or has died with a gatherer (router.py,
\* the PUSH and PULL sockets of gatherer/__init__.py).
OnceOnly ==
    \A r \in Requests :
        In(r, <<frontend>>) + Is(out # None /\ out.msg = r)
        + In(r, jobs) + Cardinality(With(r)) + In(r, gathered) + In(r, store)
        + answered[r] + Is(r \in lost)
        = Is(r \in sent)

\* What hunters make takes the hunters' socket to the store, and nothing else
\* does, as long as the router and the hunters agree on the token and no
\* client has it (router.py: handle_message_gatherer).
HuntersOwnLane ==
    \A s \in Lanes : \A k \in DOMAIN store[s] :
        store[s][k].id \in HunterIds <=> s = "s_hunter_write"

\* What was made by a hunter and will be hunted is lower than its origin.
Lower(x) == Huntable(x.i) /\ x.of # None => Descends(x.i, x.of)

\* What the hunters are given or will be, and was made by a hunter, is lower
\* in a well-founded order than what it was made of: no answer of the network
\* feeds the hunters with their own work for ever (hunter/*.py, router.py:236).
CascadeDescends ==
    /\ \A h \in HunterIds :
          /\ \A k \in DOMAIN hunts[h] : Lower(hunts[h][k])
          /\ prey[h] # Idle => Lower(prey[h].item)
    /\ \A x \in copies : Lower(x)

\* Every request is answered, unless a gatherer dies with it or all gatherers
\* are dead, which stops the router.
Served ==
    \A r \in Requests :
        r \in sent ~> \/ answered[r] > 0 \/ r \in lost
                     \/ \A g \in Gatherers : work[g] = Dead

\* The router gets to what waits at the front end (router.py:281).
FrontendServed ==
    \A r \in Requests : r \in Range(frontend) ~> r \notin Range(frontend)
=============================================================================
