--------------------------- MODULE PipelineProofs ---------------------------
(***************************************************************************)
(* Types, the descent of the hunters' cascade, the socket hunters write    *)
(* through and the one place a request is in at a time, for any requests,  *)
(* workers, plugins, answers of the network and pipe sizes.                *)
(***************************************************************************)
EXTENDS Pipeline, FiniteSetTheorems, TLAPS

\* What Copy returns.
LEMMA CopyIs ==
    ASSUME NEW i \in Indicator, NEW t \in Itypes, NEW c \in Int, NEW s \in SUBSET Tags
    PROVE  /\ Copy(i, t, c, s) \in Indicator
           /\ Copy(i, t, c, s).itype = t /\ Copy(i, t, c, s).confidence = c
           /\ Copy(i, t, c, s).tags = s /\ Copy(i, t, c, s).provider = i.provider
BY DEF Indicator, Copy

LEMMA Derived ==
    ASSUME NEW i \in Indicator, NEW t \in Itypes
    PROVE  /\ Pdns(i, t) \in Indicator
           /\ Pdns(i, t).itype = t /\ Pdns(i, t).tags = {"pdns"}
           /\ Pdns(i, t).provider = i.provider
           /\ NameOf(i, t) \in Indicator /\ NameOf(i, t).confidence = 0
           /\ ResolvedTo(i, t) \in Indicator
           /\ ResolvedTo(i, t).itype = t /\ ResolvedTo(i, t).tags = i.tags
           /\ ResolvedTo(i, t).provider = i.provider
           /\ ResolvedTo(i, t).confidence =
                 IF i.confidence > 0 THEN i.confidence - 1 ELSE 0
<1>1. i.tags \in SUBSET Tags /\ i.confidence \in Int /\ {"pdns"} \in SUBSET Tags
  BY DEF Indicator, Tags
<1>2. (IF i.confidence > 0 THEN i.confidence - 1 ELSE 0) \in Int
  BY <1>1
<1>3. QED
  BY <1>1, <1>2, CopyIs DEF Pdns, NameOf, ResolvedTo

\* A name is narrow; so whatever it yields that is wider lies lower.
LEMMA NameDescends ==
    ASSUME NEW i \in Indicator, NEW o \in Indicator,
           IsFqdn(i), o.provider = i.provider,
           \/ "pdns" \in o.tags /\ "pdns" \notin i.tags
           \/ o.tags = i.tags /\ o.confidence < i.confidence
    PROVE  Descends(o, i)
<1>1. Unlisted(o) = Unlisted(i)
  BY DEF Unlisted
<1>2. Narrow(i) = 1 /\ Narrow(o) \in {0, 1}
  BY DEF Narrow, IsFqdn
<1>3. Plain(o) < Plain(i) \/ (Plain(o) = Plain(i) /\ o.confidence < i.confidence)
  BY DEF Plain
<1>4. QED
  BY <1>1, <1>2, <1>3 DEF Descends

LEMMA FqdnDescends ==
    ASSUME NEW i \in Indicator, NEW a \in Answer, NEW o \in FqdnOutput(i, a)
    PROVE  o \in Indicator /\ (Huntable(o) => Descends(o, i))
<1>1. IsFqdn(i) /\ "pdns" \notin i.tags
  BY DEF FqdnOutput
<1>2. a.rdata \subseteq Itypes /\ a.names \subseteq Itypes /\ a.nsdata \subseteq Itypes
  BY DEF Answer
<1>3. i.confidence \in Int
  BY DEF Indicator
<1>4. CASE \E t \in Itypes : o = ResolvedTo(i, t)
  <2>1. PICK t \in Itypes : o = ResolvedTo(i, t)
    BY <1>4
  <2>2. o \in Indicator /\ o.provider = i.provider /\ o.tags = i.tags
    BY <2>1, Derived
  <2>3. o.confidence = IF i.confidence > 0 THEN i.confidence - 1 ELSE 0
    BY <2>1, Derived
  <2>4. Huntable(o) => o.confidence < i.confidence
    BY <1>3, <2>3 DEF Huntable, HUNTER_MIN_CONFIDENCE
  <2>5. QED
    BY <1>1, <2>2, <2>4, NameDescends
<1>5. CASE \E t \in Itypes : o = Pdns(i, t)
  <2>1. o \in Indicator /\ o.provider = i.provider /\ o.tags = {"pdns"}
    BY <1>5, Derived
  <2>2. "pdns" \in o.tags
    BY <2>1
  <2>3. QED
    BY <1>1, <2>1, <2>2, NameDescends
<1>6. CASE \E t \in Itypes : o = NameOf(i, t)
  BY <1>6, Derived DEF Huntable, HUNTER_MIN_CONFIDENCE
<1>7. \/ o \in {ResolvedTo(i, t) : t \in a.rdata}
      \/ o \in {Pdns(i, t) : t \in a.rdata \cap IpTypes}
      \/ o \in {NameOf(i, t) : t \in a.names}
      \/ o \in {Pdns(i, t) : t \in a.nsdata}
  BY <1>1 DEF FqdnOutput
<1>8. (\E t \in Itypes : o = ResolvedTo(i, t) \/ o = Pdns(i, t) \/ o = NameOf(i, t))
  BY <1>2, <1>7
<1>9. QED
  BY <1>4, <1>5, <1>6, <1>8

LEMMA UrlDescends ==
    ASSUME NEW i \in Indicator, NEW a \in Answer, NEW o \in UrlOutput(i, a)
    PROVE  o \in Indicator /\ (Huntable(o) => Descends(o, i))
<1>1. i.itype = "url" /\ a.host \subseteq {"fqdn", "subdomain", "ipv4", "ipv6"}
  BY DEF UrlOutput, Answer
<1>2. DEFINE c == IF i.confidence = 1 THEN 0 ELSE i.confidence - 2
<1>3. PICK t \in a.host : o = Copy(i, t, c, i.tags)
  BY DEF UrlOutput
<1>4. i.confidence \in Int /\ c \in Int /\ i.tags \in SUBSET Tags /\ t \in Itypes
  BY <1>1 DEF Indicator, Itypes
<1>5. /\ o \in Indicator /\ o.itype = t /\ o.confidence = c
      /\ o.tags = i.tags /\ o.provider = i.provider
  BY <1>3, <1>4, CopyIs
<1>6. Huntable(o) => o.confidence < i.confidence
  BY <1>4, <1>5 DEF Huntable, HUNTER_MIN_CONFIDENCE
<1>7. Unlisted(o) = Unlisted(i) /\ Narrow(o) = Narrow(i) /\ Plain(o) = Plain(i)
  BY <1>1, <1>5 DEF Unlisted, Narrow, Plain
<1>8. QED
  BY <1>5, <1>6, <1>7 DEF Descends

LEMMA WhitelistDescends ==
    ASSUME NEW i \in Indicator, NEW o \in WhitelistOutput(i)
    PROVE  o \in Indicator /\ Descends(o, i)
<1>1. i.itype = "ipv4" /\ o = Copy(i, "net24", 2, {"whitelist"})
  BY DEF WhitelistOutput
<1>2. "net24" \in Itypes /\ {"whitelist"} \in SUBSET Tags
  BY DEF Itypes, Tags
<1>3. o \in Indicator /\ o.itype = "net24" /\ o.provider = i.provider
  BY <1>1, <1>2, CopyIs
<1>4. Unlisted(o) = Unlisted(i) /\ Narrow(o) < Narrow(i)
  BY <1>1, <1>3 DEF Unlisted, Narrow
<1>5. QED
  BY <1>3, <1>4 DEF Descends

LEMMA SpamhausDescends ==
    ASSUME NEW i \in Indicator, NEW a \in Answer, NEW o \in SpamhausOutput(i, a)
    PROVE  o \in Indicator /\ Descends(o, i)
<1>1. i.provider # "spamhaus.org" /\ a.listed \subseteq Nat
  BY DEF SpamhausOutput, Answer
<1>2. PICK c \in a.listed :
        o = [i EXCEPT !.provider = "spamhaus.org", !.confidence = c]
  BY DEF SpamhausOutput
<1>3. c \in Int /\ "spamhaus.org" \in Providers
  BY <1>1 DEF Providers
<1>4. o \in Indicator /\ o.provider = "spamhaus.org"
  BY <1>2, <1>3 DEF Indicator
<1>5. QED
  BY <1>1, <1>4 DEF Descends, Unlisted

\* Every plugin, given any answer, makes indicators that are not hunted again
\* or lie lower than what it was given (hunter/*.py).
THEOREM OutputDescends ==
    ASSUME NEW p \in PluginNames, NEW i \in Indicator, NEW a \in Answer,
           NEW o \in Output(p, i, a)
    PROVE  o \in Indicator /\ (Huntable(o) => Descends(o, i))
<1>1. CASE p = "fqdn"
  BY <1>1, FqdnDescends DEF Output
<1>2. CASE p = "fqdn_subdomain"
  <2>1. PICK t \in Itypes : o = NameOf(i, t)
    BY <1>2 DEF Output, SubdomainOutput, Answer, Itypes
  <2>2. QED
    BY <2>1, Derived DEF Huntable, HUNTER_MIN_CONFIDENCE
<1>3. CASE p = "url"
  BY <1>3, UrlDescends DEF Output
<1>4. CASE p = "ipv4_resolve_prefix_whitelist"
  BY <1>4, WhitelistDescends DEF Output
<1>5. CASE p = "spamhaus"
  BY <1>5, SpamhausDescends DEF Output
<1>6. CASE p = "farsight"
  BY <1>6 DEF Output, FarsightOutput
<1>7. QED
  BY <1>1, <1>2, <1>3, <1>4, <1>5, <1>6 DEF PluginNames

-----------------------------------------------------------------------------
(* The invariant: TypeOK, with messages and items of which all that was    *)
(* made by a hunter is Lower, wherever they are.                           *)

SoundItem == {x \in Item : Lower(x)}
Sound == {m \in Message : m.data \subseteq SoundItem}
SoundPrey == [item : SoundItem, left : Seq(PluginNames) \ {<<>>}]

RouterInv ==
    /\ frontend \in Seq(Sound)
    /\ half \in {"frontend", "backend"}
    /\ ready \subseteq FrontSockets \cup {"sink_s", "sink"}
    /\ out \in [to : Lanes \cup {"gatherers"}, msg : Sound] \cup {None}
    /\ copies \subseteq SoundItem
    /\ store \in [Lanes -> Seq(Sound)]

\* What was found readable stays so: only the router takes from these.
ReadyInv ==
    /\ "frontend" \in ready => frontend # <<>>
    /\ \A s \in Lanes : s \in ready => store[s] # <<>>
    /\ "sink" \in ready => hunted # <<>>

GathererInv ==
    /\ jobs \in [Gatherers -> Seq(Sound)]
    /\ work \in [Gatherers -> Sound \cup {Idle, Dead}]
    /\ gathered \in [Gatherers -> Seq(Sound)]
    /\ \A g \in Gatherers : /\ Len(jobs[g]) <= HWM /\ Len(gathered[g]) <= HWM
                            /\ work[g] = Dead => jobs[g] = <<>>

HunterInv ==
    /\ hunts \in [HunterIds -> Seq(SoundItem)]
    /\ prey \in [HunterIds -> SoundPrey \cup {Idle}]
    /\ hunted \in Seq(Sound)

HistoryInv ==
    /\ sent \subseteq Requests /\ lost \subseteq Requests
    /\ answered \in [Requests -> Nat]

IInv == RouterInv /\ ReadyInv /\ GathererInv /\ HunterInv /\ HistoryInv

LEMMA SequenceFacts ==
    ASSUME NEW S, NEW q \in Seq(S)
    PROVE  /\ \A x \in S : /\ Append(q, x) \in Seq(S) /\ Append(q, x) # <<>>
                          /\ Len(Append(q, x)) = Len(q) + 1
           /\ q # <<>> => /\ Head(q) \in S /\ Tail(q) \in Seq(S)
                          /\ Len(Tail(q)) = Len(q) - 1
           /\ Len(q) \in Nat /\ (Len(q) = 0 <=> q = <<>>)
           /\ \A k \in DOMAIN q : q[k] \in S
OBVIOUS

\* What clients send was not made by a hunter.
LEMMA RequestsSound == Requests \subseteq Sound
BY PipelineAssumption DEF Sound, SoundItem, Message, Lower

LEMMA InitSound == Init => IInv
BY PipelineAssumption DEF Init, IInv, RouterInv, ReadyInv, GathererInv, HunterInv, HistoryInv,
                          routerVars, Lanes

\* What a hunter sends back is sound, whatever its plugin was told.
LEMMA CreatedSound ==
    ASSUME NEW h \in HunterIds, NEW x \in SoundItem, NEW a \in Answers,
           NEW p \in PluginNames
    PROVE  Created(h, x.i, Output(p, x.i, a)) \in Sound
<1> DEFINE data == {[i |-> o, of |-> x.i] : o \in Output(p, x.i, a)}
<1>1. x.i \in Indicator /\ a \in Answer
  BY HuntersAssumption DEF SoundItem, Item
<1>2. ASSUME NEW o \in Output(p, x.i, a)
      PROVE  [i |-> o, of |-> x.i] \in SoundItem
  <2>1. o \in Indicator /\ (Huntable(o) => Descends(o, x.i))
    BY <1>1, OutputDescends
  <2>2. QED
    BY <1>1, <2>1 DEF SoundItem, Item, Lower
<1>3. data \subseteq SoundItem
  BY <1>2
<1>4. data \subseteq Item
  BY <1>3 DEF SoundItem
<1>5. HIDE DEF data
<1>6. [id |-> h, token |-> HunterToken, mtype |-> "create", ok |-> TRUE, data |-> data]
        \in Sound
  BY <1>3, <1>4, PipelineAssumption DEF Sound, Message, Mtypes
<1>7. QED
  BY <1>6 DEF Created, data

\* Routing hands on a sound message and copies sound items.
LEMMA RouteSound ==
    ASSUME NEW m \in Sound, Route(m)
    PROVE  /\ out' \in [to : Lanes \cup {"gatherers"}, msg : Sound] \cup {None}
           /\ copies' \subseteq SoundItem
BY DEF Route, Copied, Sound, Lanes

LEMMA LanesAre == Lanes = {"socket", "s_write", "s_hunter_write"}
BY DEF Lanes

LEMMA StepRouter == IInv /\ Router => IInv'
<1> SUFFICES ASSUME IInv, Router PROVE IInv'
  OBVIOUS
<1> USE DEF IInv, RouterInv, ReadyInv, GathererInv, HunterInv, HistoryInv,
            routerVars, gathererVars, hunterVars
<1>1. CASE PollFrontend
  BY <1>1, LanesAre DEF PollFrontend, FrontSockets, Readable
<1>2. CASE PollBackend
  BY <1>2, LanesAre DEF PollBackend, BackSockets, Readable
<1>3. CASE HandleFrontend
  <2>1. /\ Turn("frontend") /\ Route(Head(frontend)) /\ frontend' = Tail(frontend)
        /\ UNCHANGED <<gathererVars, hunterVars, store, sent, answered, lost>>
    BY <1>3 DEF HandleFrontend
  <2>2. Head(frontend) \in Sound /\ Tail(frontend) \in Seq(Sound)
    BY <2>1, SequenceFacts DEF Turn
  <2>3. QED
    BY <2>1, <2>2, RouteSound DEF Turn
<1>4. CASE HandleGathered
  <2>1. PICK g \in Gatherers :
          /\ gathered[g] # <<>>
          /\ out' = [to |-> Lane(Head(gathered[g])), msg |-> Head(gathered[g])]
          /\ copies' = Copied({x \in Head(gathered[g]).data : Huntable(x.i)})
          /\ gathered' = [gathered EXCEPT ![g] = Tail(@)]
    BY <1>4 DEF HandleGathered
  <2>2. /\ Turn("sink_s")
        /\ UNCHANGED <<frontend, jobs, work, hunterVars, store, sent, answered, lost>>
    BY <1>4 DEF HandleGathered
  <2>3. /\ Head(gathered[g]) \in Sound /\ Tail(gathered[g]) \in Seq(Sound)
        /\ Len(Tail(gathered[g])) = Len(gathered[g]) - 1 /\ Len(gathered[g]) \in Nat
    BY <2>1, SequenceFacts
  <2>4. /\ out' \in [to : Lanes \cup {"gatherers"}, msg : Sound]
        /\ copies' \subseteq SoundItem
    BY <2>1, <2>3 DEF Lane, Lanes, Copied, Sound
  <2>5. GathererInv'
    BY <2>1, <2>2, <2>3, PipelineAssumption
  <2>6. QED
    BY <2>2, <2>4, <2>5 DEF Turn
<1>5. CASE HandleHunted
  <2>1. /\ Turn("sink") /\ Route(Head(hunted)) /\ hunted' = Tail(hunted)
        /\ UNCHANGED <<frontend, gathererVars, hunts, prey, store, sent, answered, lost>>
    BY <1>5 DEF HandleHunted
  <2>2. Head(hunted) \in Sound /\ Tail(hunted) \in Seq(Sound)
    BY <2>1, SequenceFacts DEF Turn
  <2>3. QED
    BY <2>1, <2>2, RouteSound DEF Turn
<1>6. CASE \E s \in Lanes : Relay(s)
  <2>1. PICK s \in Lanes : Relay(s)
    BY <1>6
  <2>2. store[s] # <<>> /\ Tail(store[s]) \in Seq(Sound)
    BY <2>1, SequenceFacts DEF Relay, Turn
  <2>3. answered' \in [Requests -> Nat]
    BY <2>1 DEF Relay
  <2>4. QED
    BY <2>1, <2>2, <2>3 DEF Relay, Turn
<1>7. CASE SendJob
  <2>1. PICK g \in Gatherers :
          /\ work[g] # Dead /\ HasRoom(jobs[g])
          /\ jobs' = [jobs EXCEPT ![g] = Append(@, out.msg)]
    BY <1>7 DEF SendJob
  <2>2. /\ out # None /\ out' = None
        /\ UNCHANGED <<frontend, half, ready, copies, work, gathered, hunterVars,
                       store, sent, answered, lost>>
    BY <1>7 DEF SendJob
  <2>3. out.msg \in Sound
    BY <2>2
  <2>4. /\ Append(jobs[g], out.msg) \in Seq(Sound)
        /\ Len(Append(jobs[g], out.msg)) = Len(jobs[g]) + 1 /\ Len(jobs[g]) \in Nat
    BY <2>3, SequenceFacts
  <2>5. GathererInv'
    BY <2>1, <2>2, <2>4, PipelineAssumption DEF HasRoom
  <2>6. QED
    BY <2>2, <2>5
<1>8. CASE SendHunt
  <2>1. PICK x \in copies, h \in HunterIds :
          /\ hunts' = [hunts EXCEPT ![h] = Append(@, x)]
          /\ copies' = copies \ {x}
    BY <1>8 DEF SendHunt
  <2>2. Append(hunts[h], x) \in Seq(SoundItem)
    BY SequenceFacts
  <2>3. QED
    BY <1>8, <2>1, <2>2 DEF SendHunt
<1>9. CASE SendStore
  <2>1. out # None /\ out.to \in Lanes /\ out.msg \in Sound
    BY <1>9 DEF SendStore
  <2>2. /\ Append(store[out.to], out.msg) \in Seq(Sound)
        /\ Append(store[out.to], out.msg) # <<>>
    <3> DEFINE q == store[out.to]  m == out.msg
    <3>1. q \in Seq(Sound) /\ m \in Sound
      BY <2>1
    <3>2. HIDE DEF q, m
    <3>3. Append(q, m) \in Seq(Sound) /\ Append(q, m) # <<>>
      BY <3>1, SequenceFacts
    <3>4. QED
      BY <3>3 DEF q, m
  <2>3. /\ store' = [store EXCEPT ![out.to] = Append(@, out.msg)]
        /\ out' = None
        /\ UNCHANGED <<frontend, half, ready, copies, gathererVars, hunterVars,
                       sent, answered, lost>>
    BY <1>9 DEF SendStore
  <2>4. /\ store' \in [Lanes -> Seq(Sound)]
        /\ \A s \in Lanes : s \in ready => store'[s] # <<>>
    BY <2>1, <2>2, <2>3
  <2>5. QED
    BY <2>3, <2>4
<1>10. QED
  BY <1>1, <1>2, <1>3, <1>4, <1>5, <1>6, <1>7, <1>8, <1>9 DEF Router

LEMMA StepGatherer == IInv /\ (\E g \in Gatherers : Gather(g)) => IInv'
<1> SUFFICES ASSUME IInv, NEW g \in Gatherers, Gather(g) PROVE IInv'
  OBVIOUS
<1> USE DEF IInv, RouterInv, ReadyInv, GathererInv, HunterInv, HistoryInv,
            routerVars, hunterVars
<1>1. CASE TakeJob(g)
  <2>1. /\ Head(jobs[g]) \in Sound /\ Tail(jobs[g]) \in Seq(Sound)
        /\ Len(Tail(jobs[g])) = Len(jobs[g]) - 1 /\ Len(jobs[g]) \in Nat
    BY <1>1, SequenceFacts DEF TakeJob
  <2>2. Head(jobs[g]) # Dead
    BY <2>1, PipelineAssumption DEF Sound
  <2>3. GathererInv'
    BY <1>1, <2>1, <2>2, PipelineAssumption DEF TakeJob
  <2>4. QED
    BY <1>1, <2>3 DEF TakeJob
<1>2. CASE PushGathered(g)
  <2>1. work[g] \in Sound
    BY <1>2 DEF PushGathered, Busy
  <2>2. /\ Append(gathered[g], work[g]) \in Seq(Sound) /\ Len(gathered[g]) \in Nat
        /\ Len(Append(gathered[g], work[g])) = Len(gathered[g]) + 1
    BY <2>1, SequenceFacts
  <2>3. GathererInv'
    BY <1>2, <2>2, PipelineAssumption DEF PushGathered, HasRoom
  <2>4. QED
    BY <1>2, <2>3 DEF PushGathered
<1>3. CASE Die(g)
  <2>1. GathererInv'
    BY <1>3, PipelineAssumption DEF Die
  <2>2. QED
    BY <1>3, <2>1 DEF Die
<1>4. QED
  BY <1>1, <1>2, <1>3 DEF Gather

\* The plugins that are left, after one.
LEMMA RestSound ==
    ASSUME NEW p \in SoundPrey
    PROVE  Head(p.left) \in PluginNames /\ Rest(p) \in SoundPrey \cup {Idle}
<1>1. p.left \in Seq(PluginNames) /\ p.left # <<>> /\ p.item \in SoundItem
  BY DEF SoundPrey
<1>2. Head(p.left) \in PluginNames /\ Tail(p.left) \in Seq(PluginNames)
  BY <1>1, SequenceFacts
<1>3. Len(p.left) # 1 => Tail(p.left) # <<>>
  <2>1. Len(Tail(p.left)) = Len(p.left) - 1 /\ Len(p.left) \in Nat
    BY <1>1, SequenceFacts
  <2>2. Len(Tail(p.left)) = 0 <=> Tail(p.left) = <<>>
    BY <1>2, SequenceFacts
  <2>3. QED
    BY <2>1, <2>2
<1>4. QED
  BY <1>1, <1>2, <1>3 DEF Rest, SoundPrey

LEMMA StepHunter == IInv /\ (\E h \in HunterIds : Hunt(h)) => IInv'
<1> SUFFICES ASSUME IInv, NEW h \in HunterIds, Hunt(h) PROVE IInv'
  OBVIOUS
<1> USE DEF IInv, RouterInv, ReadyInv, GathererInv, HunterInv, HistoryInv,
            routerVars, gathererVars
<1>1. CASE TakeHunt(h)
  <2>1. Head(hunts[h]) \in SoundItem /\ Tail(hunts[h]) \in Seq(SoundItem)
    BY <1>1, SequenceFacts DEF TakeHunt
  <2>2. [item |-> Head(hunts[h]), left |-> Plugins] \in SoundPrey
    BY <2>1, HuntersAssumption DEF SoundPrey
  <2>3. HunterInv'
    BY <1>1, <2>1, <2>2 DEF TakeHunt
  <2>4. QED
    BY <1>1, <2>3 DEF TakeHunt
<1>2. CASE RunPlugin(h)
  <2>1. prey[h] \in SoundPrey /\ prey[h].item \in SoundItem
    BY <1>2 DEF RunPlugin, SoundPrey
  <2>2. Head(prey[h].left) \in PluginNames /\ Rest(prey[h]) \in SoundPrey \cup {Idle}
    BY <2>1, RestSound
  <2>3. PICK a \in Answers :
          hunted' = Append(hunted, Created(h, prey[h].item.i,
                                Output(Head(prey[h].left), prey[h].item.i, a)))
    BY <1>2 DEF RunPlugin
  <2>4. hunted' \in Seq(Sound) /\ hunted' # <<>>
    BY <2>1, <2>2, <2>3, CreatedSound, SequenceFacts
  <2>5. HunterInv'
    BY <1>2, <2>2, <2>4 DEF RunPlugin
  <2>6. QED
    BY <1>2, <2>4, <2>5 DEF RunPlugin
<1>3. CASE PluginFails(h)
  <2>1. prey[h] \in SoundPrey
    BY <1>3 DEF PluginFails
  <2>2. HunterInv'
    BY <1>3, <2>1, RestSound DEF PluginFails
  <2>3. QED
    BY <1>3, <2>2 DEF PluginFails
<1>4. QED
  BY <1>1, <1>2, <1>3 DEF Hunt

LEMMA StepSend == IInv /\ (\E r \in Requests : Send(r)) => IInv'
<1> SUFFICES ASSUME IInv, NEW r \in Requests, Send(r) PROVE IInv'
  OBVIOUS
<1>1. r \in Sound
  BY RequestsSound
<1>2. Append(frontend, r) \in Seq(Sound) /\ Append(frontend, r) # <<>>
  BY <1>1, SequenceFacts DEF IInv, RouterInv
<1>3. QED
  BY <1>2 DEF IInv, RouterInv, ReadyInv, GathererInv, HunterInv, HistoryInv, Send,
              routerVars, gathererVars, hunterVars

\* The invariant is inductive.
THEOREM Invariance == Spec => []IInv
<1>1. IInv /\ UNCHANGED vars => IInv'
  BY DEF vars, IInv, RouterInv, ReadyInv, GathererInv, HunterInv, HistoryInv,
         routerVars, gathererVars, hunterVars
<1>2. IInv /\ Next => IInv'
  BY StepSend, StepRouter, StepGatherer, StepHunter DEF Next
<1>3. QED
  BY InitSound, <1>1, <1>2, PTL DEF Spec

\* Every variable keeps its type, no pipe of a gatherer holds more than HWM,
\* and nothing waits for a dead gatherer.
THEOREM TypeCorrect == Spec => []TypeOK
<1>1. Sound \subseteq Message /\ SoundItem \subseteq Item
  BY DEF Sound, SoundItem
<1>2. ASSUME NEW S, NEW T, S \subseteq T PROVE Seq(S) \subseteq Seq(T)
  BY <1>2
<1>3. /\ Seq(Sound) \subseteq Seq(Message) /\ Seq(SoundItem) \subseteq Seq(Item)
      /\ SoundPrey \subseteq Prey
  BY <1>1, <1>2 DEF SoundPrey, Prey
<1>4. IInv => TypeOK
  <2> SUFFICES ASSUME IInv PROVE TypeOK
    OBVIOUS
  <2>1. /\ jobs \in [Gatherers -> Seq(Message)]
        /\ gathered \in [Gatherers -> Seq(Message)]
        /\ work \in [Gatherers -> Message \cup {Idle, Dead}]
    BY <1>1, <1>3 DEF IInv, GathererInv
  <2>2. /\ hunts \in [HunterIds -> Seq(Item)] /\ hunted \in Seq(Message)
        /\ prey \in [HunterIds -> Prey \cup {Idle}]
    BY <1>3 DEF IInv, HunterInv
  <2>3. /\ frontend \in Seq(Message) /\ out \in Handing \cup {None}
        /\ copies \subseteq Item /\ store \in [Lanes -> Seq(Message)]
    BY <1>1, <1>3 DEF IInv, RouterInv, Handing
  <2>4. QED
    BY <2>1, <2>2, <2>3 DEF IInv, RouterInv, GathererInv, HistoryInv, TypeOK
<1>5. QED
  BY Invariance, <1>4, PTL

\* No answer of the network feeds the hunters with their own work for ever:
\* what they are given or will be is lower than what it was made of.
THEOREM CascadesDescend == Spec => []CascadeDescends
<1>1. IInv => CascadeDescends
  <2> SUFFICES ASSUME IInv PROVE CascadeDescends
    OBVIOUS
  <2>1. ASSUME NEW h \in HunterIds, NEW k \in DOMAIN hunts[h]
        PROVE  Lower(hunts[h][k])
    <3>1. hunts[h] \in Seq(SoundItem)
      BY DEF IInv, HunterInv
    <3>2. QED
      BY <3>1, SequenceFacts DEF SoundItem
  <2>2. ASSUME NEW h \in HunterIds, prey[h] # Idle
        PROVE  Lower(prey[h].item)
    BY <2>2 DEF IInv, HunterInv, SoundPrey, SoundItem
  <2>3. \A x \in copies : Lower(x)
    BY DEF IInv, RouterInv, SoundItem
  <2>4. QED
    BY <2>1, <2>2, <2>3 DEF CascadeDescends
<1>2. QED
  BY Invariance, <1>1, PTL
-----------------------------------------------------------------------------
(* The hunters' socket. What travels is a client's or a hunter's, which    *)
(* its token tells, and a gatherer hands on what it was given.             *)

\* The router and the hunters agree on the token, and no client has it.
OwnToken == RouterToken = HunterToken /\ \A r \in Requests : r.token # HunterToken

FromClient == {m \in Message : m.id \notin HunterIds /\ m.token # RouterToken}
FromHunter == {m \in Message : /\ m.id \in HunterIds /\ m.token = RouterToken
                               /\ m.mtype = "create"}
Either == FromClient \cup FromHunter
Told(s) == IF s = "s_hunter_write" THEN FromHunter ELSE FromClient

\* What is on its way to a socket of the store belongs there.
Bound == \/ out = None
         \/ out.to = "gatherers" /\ out.msg \in Either
         \/ out.to \in Lanes /\ out.msg \in Told(out.to)

LaneInv ==
    /\ frontend \in Seq(FromClient)
    /\ hunted \in Seq(FromHunter)
    /\ Bound
    /\ jobs \in [Gatherers -> Seq(Either)]
    /\ gathered \in [Gatherers -> Seq(Either)]
    /\ work \in [Gatherers -> Either \cup {Idle, Dead}]
    /\ store \in [Lanes -> Seq(Either)]
    /\ \A s \in Lanes : store[s] \in Seq(Told(s))

LEMMA LaneTells ==
    ASSUME NEW m \in Either
    PROVE  Lane(m) \in Lanes /\ m \in Told(Lane(m))
BY DEF Either, FromClient, FromHunter, Lane, Lanes, Told

\* A client's message goes to the gatherers or to the socket of searches, a
\* hunter's to the gatherers.
LEMMA RouteBound ==
    ASSUME NEW m \in Either, Route(m)
    PROVE  Bound'
BY DEF Route, Bound, Either, FromClient, FromHunter, Lanes, Told

LEMMA InitLane == Init => LaneInv
BY DEF Init, LaneInv, Bound, Lanes, routerVars, Told

LEMMA LaneRouter == IInv /\ LaneInv /\ Router => LaneInv'
<1> SUFFICES ASSUME IInv, LaneInv, Router PROVE LaneInv'
  OBVIOUS
<1> USE DEF LaneInv, routerVars, gathererVars, hunterVars
<1>1. CASE PollFrontend
  BY <1>1 DEF PollFrontend, Bound
<1>2. CASE PollBackend
  BY <1>2 DEF PollBackend, Bound
<1>3. CASE HandleFrontend
  <2>1. frontend # <<>> /\ Route(Head(frontend)) /\ frontend' = Tail(frontend)
    BY <1>3 DEF HandleFrontend, Turn, IInv, ReadyInv
  <2>2. Head(frontend) \in FromClient /\ Tail(frontend) \in Seq(FromClient)
    BY <2>1, SequenceFacts
  <2>3. Bound'
    BY <2>1, <2>2, RouteBound DEF Either, FromClient, FromHunter
  <2>4. QED
    BY <1>3, <2>1, <2>2, <2>3 DEF HandleFrontend
<1>4. CASE HandleGathered
  <2>1. PICK g \in Gatherers :
          /\ gathered[g] # <<>>
          /\ out' = [to |-> Lane(Head(gathered[g])), msg |-> Head(gathered[g])]
          /\ gathered' = [gathered EXCEPT ![g] = Tail(@)]
    BY <1>4 DEF HandleGathered
  <2>2. Head(gathered[g]) \in Either /\ Tail(gathered[g]) \in Seq(Either)
    BY <2>1, SequenceFacts
  <2>3. Bound'
    BY <2>1, <2>2, LaneTells DEF Bound
  <2>4. QED
    BY <1>4, <2>1, <2>2, <2>3 DEF HandleGathered
<1>5. CASE HandleHunted
  <2>1. hunted # <<>> /\ Route(Head(hunted)) /\ hunted' = Tail(hunted)
    BY <1>5 DEF HandleHunted, Turn, IInv, ReadyInv
  <2>2. Head(hunted) \in FromHunter /\ Tail(hunted) \in Seq(FromHunter)
    BY <2>1, SequenceFacts
  <2>3. Bound'
    BY <2>1, <2>2, RouteBound DEF Either, FromHunter
  <2>4. QED
    BY <1>5, <2>1, <2>2, <2>3 DEF HandleHunted
<1>6. CASE \E s \in Lanes : Relay(s)
  <2>1. PICK s \in Lanes : Relay(s)
    BY <1>6
  <2>2. store[s] # <<>>
    BY <2>1 DEF Relay, Turn, IInv, ReadyInv
  <2>3. Tail(store[s]) \in Seq(Either) /\ Tail(store[s]) \in Seq(Told(s))
    BY <2>2, SequenceFacts
  <2>4. QED
    BY <2>1, <2>3 DEF Relay, Turn, Bound
<1>7. CASE SendJob
  <2>1. PICK g \in Gatherers : jobs' = [jobs EXCEPT ![g] = Append(@, out.msg)]
    BY <1>7 DEF SendJob
  <2>2. out.msg \in Either
    BY <1>7 DEF SendJob, Bound, Lanes
  <2>3. Append(jobs[g], out.msg) \in Seq(Either)
    BY <2>2, SequenceFacts
  <2>4. QED
    BY <1>7, <2>1, <2>3 DEF SendJob, Bound
<1>8. CASE SendHunt
  BY <1>8 DEF SendHunt, Bound
<1>9. CASE SendStore
  <2> DEFINE s == out.to  m == out.msg  q == store[s]
  <2>1. s \in Lanes /\ m \in Told(s) /\ m \in Either /\ q \in Seq(Either) /\ q \in Seq(Told(s))
    BY <1>9 DEF SendStore, Bound, Lanes, Told, Either
  <2>2. store' = [store EXCEPT ![s] = Append(q, m)]
    BY <1>9 DEF SendStore
  <2> HIDE DEF s, m, q
  <2>3. Append(q, m) \in Seq(Either) /\ Append(q, m) \in Seq(Told(s))
    BY <2>1, SequenceFacts
  <2>4. /\ store' \in [Lanes -> Seq(Either)]
        /\ \A t \in Lanes : store'[t] \in Seq(Told(t))
    BY <2>1, <2>2, <2>3
  <2>5. QED
    BY <1>9, <2>4 DEF SendStore, Bound
<1>10. QED
  BY <1>1, <1>2, <1>3, <1>4, <1>5, <1>6, <1>7, <1>8, <1>9 DEF Router

LEMMA LaneGatherer == LaneInv /\ (\E g \in Gatherers : Gather(g)) => LaneInv'
<1> SUFFICES ASSUME LaneInv, NEW g \in Gatherers, Gather(g) PROVE LaneInv'
  OBVIOUS
<1> USE DEF LaneInv, routerVars, hunterVars
<1>1. CASE TakeJob(g)
  <2>1. Head(jobs[g]) \in Either /\ Tail(jobs[g]) \in Seq(Either)
    BY <1>1, SequenceFacts DEF TakeJob
  <2>2. QED
    BY <1>1, <2>1 DEF TakeJob, Bound
<1>2. CASE PushGathered(g)
  <2>1. work[g] \in Either
    BY <1>2 DEF PushGathered, Busy
  <2>2. Append(gathered[g], work[g]) \in Seq(Either)
    BY <2>1, SequenceFacts
  <2>3. QED
    BY <1>2, <2>2 DEF PushGathered, Bound
<1>3. CASE Die(g)
  BY <1>3 DEF Die, Bound
<1>4. QED
  BY <1>1, <1>2, <1>3 DEF Gather

LEMMA LaneHunter ==
    ASSUME OwnToken, IInv, LaneInv, \E h \in HunterIds : Hunt(h)
    PROVE  LaneInv'
<1> SUFFICES ASSUME NEW h \in HunterIds, Hunt(h) PROVE LaneInv'
  OBVIOUS
<1> USE DEF LaneInv, routerVars, gathererVars
<1>1. CASE TakeHunt(h)
  BY <1>1 DEF TakeHunt, Bound
<1>2. CASE RunPlugin(h)
  <2>1. prey[h] \in SoundPrey /\ prey[h].item \in SoundItem
    BY <1>2 DEF RunPlugin, SoundPrey, IInv, HunterInv
  <2>2. Head(prey[h].left) \in PluginNames
    BY <2>1, RestSound
  <2>3. PICK a \in Answers :
          hunted' = Append(hunted, Created(h, prey[h].item.i,
                                Output(Head(prey[h].left), prey[h].item.i, a)))
    BY <1>2 DEF RunPlugin
  <2> DEFINE m == Created(h, prey[h].item.i, Output(Head(prey[h].left), prey[h].item.i, a))
  <2>4. m \in Message
    BY <2>1, <2>2, CreatedSound DEF Sound
  <2>5. m.id = h /\ m.token = HunterToken /\ m.mtype = "create"
    BY DEF Created
  <2>6. m \in FromHunter
    BY <2>4, <2>5 DEF FromHunter, OwnToken
  <2>7. hunted' \in Seq(FromHunter)
    BY <2>3, <2>6, SequenceFacts
  <2>8. QED
    BY <1>2, <2>7 DEF RunPlugin, Bound
<1>3. CASE PluginFails(h)
  BY <1>3 DEF PluginFails, Bound
<1>4. QED
  BY <1>1, <1>2, <1>3 DEF Hunt

LEMMA LaneSend ==
    ASSUME OwnToken, LaneInv, \E r \in Requests : Send(r)
    PROVE  LaneInv'
<1>1. PICK r \in Requests : Send(r)
  OBVIOUS
<1>2. r \in FromClient
  BY PipelineAssumption DEF OwnToken, FromClient
<1>3. Append(frontend, r) \in Seq(FromClient)
  BY <1>2, SequenceFacts DEF LaneInv
<1>4. QED
  BY <1>1, <1>3 DEF LaneInv, Send, Bound, routerVars, gathererVars, hunterVars

\* What hunters make, and nothing else, takes the hunters' socket to the store
\* (router.py: handle_message_gatherer), if only the hunters have their token.
THEOREM OwnLane == OwnToken /\ Spec => []HuntersOwnLane
<1>1. ASSUME OwnToken, IInv, LaneInv, [Next]_vars PROVE LaneInv'
  <2>1. CASE UNCHANGED vars
    BY <1>1, <2>1 DEF vars, LaneInv, Bound, routerVars, gathererVars, hunterVars
  <2>2. CASE Next
    BY <1>1, <2>2, LaneSend, LaneRouter, LaneGatherer, LaneHunter DEF Next
  <2>3. QED
    BY <1>1, <2>1, <2>2
<1>2. ASSUME LaneInv PROVE HuntersOwnLane
  <2> SUFFICES ASSUME NEW s \in Lanes, NEW k \in DOMAIN store[s]
               PROVE  store[s][k].id \in HunterIds <=> s = "s_hunter_write"
    BY DEF HuntersOwnLane
  <2>1. store[s][k] \in Told(s)
    BY <1>2, SequenceFacts DEF LaneInv
  <2>2. QED
    BY <2>1 DEF Told, FromClient, FromHunter
<1>3. OwnToken /\ IInv /\ LaneInv /\ [Next]_vars => LaneInv'
  BY <1>1
<1>4. OwnToken => OwnToken'
  BY DEF OwnToken
<1>5. LaneInv => HuntersOwnLane
  BY <1>2
<1>6. QED
  BY Invariance, InitLane, <1>3, <1>4, <1>5, PTL DEF Spec

-----------------------------------------------------------------------------
(* A request is in one place at a time: the places it has in the pipes are *)
(* counted, and every step takes it from one place to the next.            *)

\* A message is put at the end of pipe x, taken from its head, all are lost.
Appended(more, pipes, x, m) == more = [pipes EXCEPT ![x] = Append(@, m)]
Taken(fewer, pipes, x) == fewer = [pipes EXCEPT ![x] = Tail(@)]
Emptied(without, pipes, x) == without = [pipes EXCEPT ![x] = <<>>]

LEMMA PlaceIs ==
    ASSUME NEW r, NEW pipes, NEW p
    PROVE  p \in Places(r, pipes) <=>
              \E x \in DOMAIN pipes : \E k \in DOMAIN pipes[x] :
                  pipes[x][k].id = r.id /\ p = <<x, k>>
BY DEF Places

LEMMA PlacesFinite ==
    ASSUME NEW r, NEW X, IsFiniteSet(X), NEW M, NEW pipes \in [X -> Seq(M)]
    PROVE  IsFiniteSet(Places(r, pipes)) /\ In(r, pipes) \in Nat
<1> DEFINE Of(x) == {x} \X {k \in DOMAIN pipes[x] : pipes[x][k].id = r.id}
<1>1. ASSUME NEW x \in X PROVE IsFiniteSet(Of(x))
  <2>1. Len(pipes[x]) \in Nat /\ DOMAIN pipes[x] = 1..Len(pipes[x])
    OBVIOUS
  <2>2. 1 \in Int /\ Len(pipes[x]) \in Int
    BY <2>1
  <2>3. IsFiniteSet(1..Len(pipes[x]))
    BY <2>2, FS_Interval, Zenon
  <2>4. {k \in DOMAIN pipes[x] : pipes[x][k].id = r.id} \in SUBSET (1..Len(pipes[x]))
    BY <2>1
  <2>5. IsFiniteSet({k \in DOMAIN pipes[x] : pipes[x][k].id = r.id})
    BY <2>3, <2>4, FS_Subset
  <2>6. QED
    BY <2>5, FS_Singleton, FS_Product, Zenon
<1>2. IsFiniteSet({Of(x) : x \in X})
  <2> DEFINE f == [x \in X |-> Of(x)]
  <2>1. f \in Surjection(X, {Of(x) : x \in X})
    BY DEF Surjection
  <2>2. QED
    BY <2>1, FS_Surjection
<1>3. IsFiniteSet(UNION {Of(x) : x \in X})
  <2> HIDE DEF Of
  <2>1. \A T \in {Of(x) : x \in X} : IsFiniteSet(T)
    BY <1>1
  <2>2. QED
    BY <1>2, <2>1, FS_UNION
<1>4. Places(r, pipes) = UNION {Of(x) : x \in X}
  BY DEF Places
<1>5. QED
  BY <1>3, <1>4, FS_CardinalityType DEF In

\* One more message at the end of a pipe.
LEMMA InAppend ==
    ASSUME NEW r, NEW X, IsFiniteSet(X), NEW M, NEW pipes \in [X -> Seq(M)],
           NEW x \in X, NEW m \in M,
           NEW more, Appended(more, pipes, x, m)
    PROVE  In(r, more) = In(r, pipes) + (IF m.id = r.id THEN 1 ELSE 0)
<1> DEFINE n == Len(pipes[x]) + 1
<1>1. /\ n \in Nat \ {0} /\ DOMAIN pipes[x] = 1..n - 1 /\ DOMAIN more[x] = 1..n
      /\ more[x][n] = m /\ \A k \in 1..n - 1 : more[x][k] = pipes[x][k]
      /\ DOMAIN more = X /\ DOMAIN pipes = X
      /\ \A y \in X : y # x => more[y] = pipes[y]
  BY DEF Appended
<1> HIDE DEF n
<1>2. <<x, n>> \notin Places(r, pipes)
  BY <1>1, PlaceIs
<1>3. ASSUME NEW p
      PROVE  p \in Places(r, more) <=>
                p \in Places(r, pipes) \/ (m.id = r.id /\ p = <<x, n>>)
  <2>1. ASSUME NEW y \in X, y # x
        PROVE  \A k : k \in DOMAIN more[y] /\ more[y][k].id = r.id
                      <=> k \in DOMAIN pipes[y] /\ pipes[y][k].id = r.id
    BY <1>1, <2>1
  <2>2. \A k : k \in DOMAIN more[x] /\ more[x][k].id = r.id
               <=> \/ k \in DOMAIN pipes[x] /\ pipes[x][k].id = r.id
                   \/ k = n /\ m.id = r.id
    <3>1. \A k : k \in 1..n <=> k \in 1..n - 1 \/ k = n
      BY <1>1
    <3>2. QED
      BY <1>1, <3>1
  <2>3. p \in Places(r, more) <=>
           \E y \in X : \E k : k \in DOMAIN more[y] /\ more[y][k].id = r.id /\ p = <<y, k>>
    BY <1>1, PlaceIs
  <2>4. p \in Places(r, pipes) <=>
           \E y \in X : \E k : k \in DOMAIN pipes[y] /\ pipes[y][k].id = r.id /\ p = <<y, k>>
    BY <1>1, PlaceIs
  <2>5. QED
    BY <2>1, <2>2, <2>3, <2>4
<1>4. Places(r, more) = IF m.id = r.id THEN Places(r, pipes) \cup {<<x, n>>}
                        ELSE Places(r, pipes)
  BY <1>3
<1>5. IsFiniteSet(Places(r, pipes)) /\ In(r, pipes) \in Nat
  BY PlacesFinite
<1>6. Cardinality(Places(r, pipes) \cup {<<x, n>>}) = Cardinality(Places(r, pipes)) + 1
  BY <1>2, <1>5, FS_AddElement, Zenon
<1>7. QED
  BY <1>4, <1>5, <1>6 DEF In

\* One message less at the head of a pipe.
LEMMA InTail ==
    ASSUME NEW r, NEW X, IsFiniteSet(X), NEW M, NEW pipes \in [X -> Seq(M)],
           NEW x \in X, pipes[x] # <<>>,
           NEW fewer, Taken(fewer, pipes, x)
    PROVE  In(r, fewer) = In(r, pipes) - (IF Head(pipes[x]).id = r.id THEN 1 ELSE 0)
<1> DEFINE n == Len(pipes[x])
           left == Places(r, pipes) \ {<<x, 1>>}
           to(p) == IF p[1] = x THEN <<x, p[2] + 1>> ELSE p
           f == [p \in Places(r, fewer) |-> to(p)]
<1>1. /\ n \in Nat \ {0} /\ DOMAIN pipes[x] = 1..n /\ DOMAIN fewer[x] = 1..n - 1
      /\ Head(pipes[x]) = pipes[x][1]
      /\ \A k \in 1..n - 1 : fewer[x][k] = pipes[x][k + 1]
      /\ DOMAIN fewer = X /\ DOMAIN pipes = X
      /\ \A y \in X : y # x => fewer[y] = pipes[y]
  BY DEF Taken
<1> HIDE DEF n
<1>2. \A p \in left \cup Places(r, fewer) : p = <<p[1], p[2]>> /\ p[1] \in X
  BY <1>1, PlaceIs
<1>3. ASSUME NEW p
      PROVE  p \in left <=> \E y \in X : \E k \in DOMAIN pipes[y] :
                /\ pipes[y][k].id = r.id /\ p = <<y, k>> /\ (y = x => k > 1)
  <2>1. \A k \in 1..n : k > 1 <=> k # 1
    BY <1>1
  <2>2. QED
    BY <1>1, <2>1, PlaceIs
<1>4. ASSUME NEW p \in Places(r, fewer) PROVE f[p] \in left
  <2>1. PICK y \in X, k \in DOMAIN fewer[p[1]] : y = p[1] /\ fewer[y][k].id = r.id /\ p = <<y, k>>
    BY <1>1, PlaceIs
  <2>2. CASE y = x
    <3>1. /\ k \in 1..n - 1 /\ k + 1 \in 1..n /\ k + 1 > 1
          /\ pipes[x][k + 1].id = r.id
      BY <1>1, <2>1, <2>2
    <3>2. f[p] = <<x, k + 1>>
      BY <2>1, <2>2
    <3>3. QED
      BY <1>1, <1>3, <3>1, <3>2
  <2>3. CASE y # x
    BY <1>1, <1>3, <2>1, <2>3
  <2>4. QED
    BY <2>2, <2>3
<1>5. ASSUME NEW p \in Places(r, fewer), NEW q \in Places(r, fewer), f[p] = f[q]
      PROVE  p = q
  <2>1. p = <<p[1], p[2]>> /\ q = <<q[1], q[2]>>
    BY <1>2
  <2>2. f[p][1] = p[1] /\ f[q][1] = q[1]
    BY <2>1
  <2>3. CASE p[1] = x
    <3>1. p[2] \in 1..n - 1 /\ q[2] \in 1..n - 1 /\ q[1] = x
      BY <1>1, <1>5, <2>1, <2>2, <2>3, PlaceIs
    <3>2. p[2] + 1 = q[2] + 1
      BY <1>5, <2>3, <3>1
    <3>3. QED
      BY <1>1, <2>1, <2>3, <3>1, <3>2
  <2>4. CASE p[1] # x
    BY <1>5, <2>2, <2>4
  <2>5. QED
    BY <2>3, <2>4
<1>6. ASSUME NEW q \in left PROVE \E p \in Places(r, fewer) : f[p] = q
  <2>1. PICK y \in X : \E k \in DOMAIN pipes[y] :
                /\ pipes[y][k].id = r.id /\ q = <<y, k>> /\ (y = x => k > 1)
    BY <1>3
  <2>2. PICK k \in DOMAIN pipes[y] :
                /\ pipes[y][k].id = r.id /\ q = <<y, k>> /\ (y = x => k > 1)
    BY <2>1
  <2>3. CASE y = x
    <3>1. k - 1 \in 1..n - 1 /\ (k - 1) + 1 = k /\ fewer[x][k - 1] = pipes[x][k]
      BY <1>1, <2>2, <2>3
    <3>2. <<x, k - 1>> \in Places(r, fewer)
      BY <1>1, <2>2, <2>3, <3>1, PlaceIs
    <3>3. f[<<x, k - 1>>] = q
      BY <2>2, <2>3, <3>1, <3>2
    <3>4. QED
      BY <3>2, <3>3
  <2>4. CASE y # x
    <3>1. q \in Places(r, fewer)
      BY <1>1, <2>2, <2>4, PlaceIs
    <3>2. f[q] = q
      BY <2>2, <2>4, <3>1
    <3>3. QED
      BY <3>1, <3>2
  <2>5. QED
    BY <2>3, <2>4
<1>7. f \in Bijection(Places(r, fewer), left)
  BY <1>4, <1>5, <1>6 DEF Bijection, Injection, Surjection, IsInjective
<1>8. fewer \in [X -> Seq(M)]
  BY DEF Taken
<1>9. /\ IsFiniteSet(Places(r, fewer)) /\ IsFiniteSet(Places(r, pipes))
      /\ In(r, pipes) \in Nat
  BY <1>8, PlacesFinite
<1>10. Cardinality(left) = In(r, fewer)
  BY <1>7, <1>9, FS_Bijection DEF ExistsBijection, In
<1>11. <<x, 1>> \in Places(r, pipes) <=> Head(pipes[x]).id = r.id
  BY <1>1, PlaceIs
<1>12. Cardinality(left) = In(r, pipes) - (IF <<x, 1>> \in Places(r, pipes) THEN 1 ELSE 0)
  <2>1. Cardinality(left) = IF <<x, 1>> \in Places(r, pipes)
                            THEN Cardinality(Places(r, pipes)) - 1
                            ELSE Cardinality(Places(r, pipes))
    BY <1>9, FS_RemoveElement, Zenon
  <2>2. QED
    BY <1>9, <2>1 DEF In
<1>13. QED
  BY <1>10, <1>11, <1>12

\* A pipe is lost that holds what has one place at most.
LEMMA InClear ==
    ASSUME NEW r, NEW X, IsFiniteSet(X), NEW M, NEW pipes \in [X -> Seq(M)],
           NEW x \in X, In(r, pipes) <= 1,
           NEW without, Emptied(without, pipes, x)
    PROVE  In(r, without) = In(r, pipes)
              - (IF \E k \in DOMAIN pipes[x] : pipes[x][k].id = r.id THEN 1 ELSE 0)
<1>1. /\ DOMAIN without = X /\ DOMAIN pipes = X /\ DOMAIN without[x] = {}
      /\ \A y \in X : y # x => without[y] = pipes[y]
  BY DEF Emptied
<1>2. IsFiniteSet(Places(r, pipes)) /\ In(r, pipes) \in Nat
  BY PlacesFinite
<1>3. \A p : p \in Places(r, without) <=>
                \E y \in X : \E k \in DOMAIN pipes[y] :
                    y # x /\ pipes[y][k].id = r.id /\ p = <<y, k>>
  BY <1>1, PlaceIs
<1>4. CASE \E k \in DOMAIN pipes[x] : pipes[x][k].id = r.id
  <2>1. PICK k \in DOMAIN pipes[x] : pipes[x][k].id = r.id
    BY <1>4
  <2>2. <<x, k>> \in Places(r, pipes)
    BY <1>1, <2>1, PlaceIs
  <2>3. Cardinality(Places(r, pipes)) # 0
    BY <1>2, <2>2, FS_EmptySet
  <2>4. Cardinality(Places(r, pipes)) = 1
    BY <1>2, <2>3 DEF In
  <2>5. PICK q : Places(r, pipes) = {q}
    BY <1>2, <2>4, FS_Singleton
  <2>6. ASSUME NEW p \in Places(r, without) PROVE FALSE
    <3>1. p \in Places(r, pipes) /\ p[1] # x
      BY <1>1, <1>3, PlaceIs
    <3>2. p = <<x, k>>
      BY <2>2, <2>5, <3>1
    <3>3. QED
      BY <3>1, <3>2
  <2>7. Places(r, without) = {}
    BY <2>6
  <2>8. In(r, without) = 0 /\ In(r, pipes) = 1
    BY <2>4, <2>7, FS_EmptySet DEF In
  <2>9. QED
    BY <1>4, <2>8
<1>5. CASE ~ \E k \in DOMAIN pipes[x] : pipes[x][k].id = r.id
  <2>1. \A p : p \in Places(r, without) <=> p \in Places(r, pipes)
    BY <1>1, <1>3, <1>5, PlaceIs
  <2>2. Places(r, without) = Places(r, pipes)
    BY <2>1
  <2>3. QED
    BY <1>2, <1>5, <2>2 DEF In
<1>6. QED
  BY <1>4, <1>5

\* One gatherer has something else in hand.
LEMMA WithChanges ==
    ASSUME NEW r, NEW g \in Gatherers, NEW v, NEW S, work \in [Gatherers -> S],
           work' = [work EXCEPT ![g] = v]
    PROVE  /\ Cardinality(With(r)) \in Nat
           /\ Cardinality(With(r)') = Cardinality(With(r))
                 + (IF v = r THEN 1 ELSE 0) - (IF work[g] = r THEN 1 ELSE 0)
<1>1. IsFiniteSet(With(r)) /\ Cardinality(With(r)) \in Nat
  <2>1. IsFiniteSet(Gatherers) /\ With(r) \in SUBSET Gatherers
    BY PipelineAssumption DEF With
  <2>2. QED
    BY <2>1, FS_Subset, FS_CardinalityType
<1>2. g \in With(r) <=> work[g] = r
  BY DEF With
<1>3. CASE v = r
  <2>1. With(r)' = With(r) \cup {g}
    BY <1>3 DEF With
  <2>2. Cardinality(With(r) \cup {g}) = IF g \in With(r) THEN Cardinality(With(r))
                                       ELSE Cardinality(With(r)) + 1
    BY <1>1, FS_AddElement, Zenon
  <2>3. QED
    BY <1>1, <1>2, <1>3, <2>1, <2>2
<1>4. CASE v # r
  <2>1. With(r)' = With(r) \ {g}
    BY <1>4 DEF With
  <2>2. Cardinality(With(r) \ {g}) = IF g \in With(r) THEN Cardinality(With(r)) - 1
                                    ELSE Cardinality(With(r))
    BY <1>1, FS_RemoveElement, Zenon
  <2>3. QED
    BY <1>1, <1>2, <1>4, <2>1, <2>2
<1>5. QED
  BY <1>1, <1>3, <1>4

-----------------------------------------------------------------------------
(* The invariant: what travels is a request or a hunter's, and each        *)
(* request is counted once.                                                *)

ByHunters == {m \in Message : m.id \in HunterIds}
Travelling == Requests \cup ByHunters

TravelInv ==
    /\ frontend \in Seq(Travelling) /\ hunted \in Seq(ByHunters)
    /\ out # None => out.msg \in Travelling
    /\ jobs \in [Gatherers -> Seq(Travelling)]
    /\ gathered \in [Gatherers -> Seq(Travelling)]
    /\ work \in [Gatherers -> Travelling \cup {Idle, Dead}]
    /\ store \in [Lanes -> Seq(Travelling)]

Inv == IInv /\ TravelInv /\ OnceOnly

\* Only a request has its own identity.
LEMMA SameId ==
    ASSUME NEW r \in Requests
    PROVE  /\ \A m \in Travelling : m.id = r.id <=> m = r
           /\ \A m \in ByHunters : m # r
           /\ r # Idle /\ r # Dead /\ r \in Travelling
BY PipelineAssumption DEF Travelling, ByHunters

LEMMA WorkersFinite == IsFiniteSet(Gatherers) /\ IsFiniteSet(Lanes) /\ Lanes # {}
<1>1. Lanes = ({"socket"} \cup {"s_write"}) \cup {"s_hunter_write"}
  BY DEF Lanes
<1>2. IsFiniteSet({"socket"}) /\ IsFiniteSet({"s_write"}) /\ IsFiniteSet({"s_hunter_write"})
  BY FS_Singleton, Zenon
<1>3. QED
  BY <1>1, <1>2, FS_Union, PipelineAssumption

\* The terms of OnceOnly.
Front(r) == In(r, <<frontend>>)
Hand(r) == Is(out # None /\ out.msg = r)
Jobs(r) == In(r, jobs)
Work(r) == Cardinality(With(r))
Back(r) == In(r, gathered)
Asked(r) == In(r, store)
Died(r) == Is(r \in lost)
Made(r) == Is(r \in sent)

Balanced(r) == Front(r) + Hand(r) + Jobs(r) + Work(r) + Back(r) + Asked(r)
                  + answered[r] + Died(r) = Made(r)

\* The front end is a pipe by itself.
LEMMA FrontIs ==
    ASSUME NEW r, NEW M, frontend \in Seq(M)
    PROVE  /\ Front(r) \in Nat
           /\ \A m \in M : frontend' = Append(frontend, m) =>
                 Front(r)' = Front(r) + (IF m.id = r.id THEN 1 ELSE 0)
           /\ frontend # <<>> /\ frontend' = Tail(frontend) =>
                 Front(r)' = Front(r) - (IF Head(frontend).id = r.id THEN 1 ELSE 0)
<1> DEFINE one == <<frontend>>  then == <<frontend'>>
<1>1. one \in [{1} -> Seq(M)] /\ one[1] = frontend /\ 1 \in {1}
  OBVIOUS
<1>2. IsFiniteSet({1})
  BY FS_Singleton, Zenon
<1>3. \A p : <<p>> = [one EXCEPT ![1] = p]
  OBVIOUS
<1>4. Front(r) = In(r, one) /\ Front(r)' = In(r, then)
  BY DEF Front
<1>5. then = [one EXCEPT ![1] = frontend']
  BY <1>3
<1> HIDE DEF one, then
<1>6. In(r, one) \in Nat
  BY <1>1, <1>2, PlacesFinite
<1>7. ASSUME NEW m \in M, frontend' = Append(frontend, m)
      PROVE  In(r, then) = In(r, one) + (IF m.id = r.id THEN 1 ELSE 0)
  <2>1. Appended(then, one, 1, m)
    BY <1>1, <1>5, <1>7 DEF Appended
  <2>2. QED
    BY <1>1, <1>2, <2>1, InAppend
<1>8. ASSUME frontend # <<>>, frontend' = Tail(frontend)
      PROVE  In(r, then) = In(r, one) - (IF Head(frontend).id = r.id THEN 1 ELSE 0)
  <2>1. Taken(then, one, 1) /\ one[1] # <<>>
    BY <1>1, <1>5, <1>8 DEF Taken
  <2>2. QED
    BY <1>1, <1>2, <2>1, InTail
<1>9. QED
  BY <1>4, <1>6, <1>7, <1>8

LEMMA OnceIsBalanced ==
    /\ OnceOnly => \A r \in Requests : Balanced(r)
    /\ (\A r \in Requests : Balanced(r)') => OnceOnly'
BY DEF OnceOnly, Balanced, Front, Hand, Jobs, Work, Back, Asked, Died, Made

LEMMA Numbers ==
    ASSUME IInv, TravelInv, NEW r \in Requests
    PROVE  /\ Front(r) \in Nat /\ Hand(r) \in {0, 1} /\ Jobs(r) \in Nat /\ Work(r) \in Nat
           /\ Back(r) \in Nat /\ Asked(r) \in Nat /\ answered[r] \in Nat
           /\ Died(r) \in {0, 1} /\ Made(r) \in {0, 1}
<1>1. Front(r) \in Nat
  BY FrontIs DEF TravelInv
<1>2. Jobs(r) \in Nat /\ Back(r) \in Nat /\ Asked(r) \in Nat
  BY WorkersFinite, PlacesFinite DEF TravelInv, Jobs, Back, Asked
<1>3. Work(r) \in Nat
  <2>1. With(r) \in SUBSET Gatherers
    BY DEF With
  <2>2. QED
    BY <2>1, WorkersFinite, FS_Subset, FS_CardinalityType DEF Work
<1>4. Hand(r) \in {0, 1} /\ Died(r) \in {0, 1} /\ Made(r) \in {0, 1}
  BY DEF Hand, Died, Made, Is
<1>5. QED
  BY <1>1, <1>2, <1>3, <1>4 DEF IInv, HistoryInv

\* A term stays when its variable does.
LEMMA Stay ==
    ASSUME NEW r
    PROVE  /\ frontend' = frontend => Front(r)' = Front(r)
           /\ out' = out => Hand(r)' = Hand(r)
           /\ jobs' = jobs => Jobs(r)' = Jobs(r)
           /\ work' = work => Work(r)' = Work(r)
           /\ gathered' = gathered => Back(r)' = Back(r)
           /\ store' = store => Asked(r)' = Asked(r)
           /\ lost' = lost => Died(r)' = Died(r)
           /\ sent' = sent => Made(r)' = Made(r)
<1>1. work' = work => With(r)' = With(r)
  BY DEF With
<1>2. QED
  BY <1>1 DEF Front, Hand, Jobs, Work, Back, Asked, Died, Made

LEMMA Before ==
    ASSUME Inv, NEW r \in Requests
    PROVE  /\ Balanced(r)
           /\ Front(r) \in Nat /\ Hand(r) \in {0, 1} /\ Jobs(r) \in Nat /\ Work(r) \in Nat
           /\ Back(r) \in Nat /\ Asked(r) \in Nat /\ answered[r] \in Nat
           /\ Died(r) \in {0, 1} /\ Made(r) \in {0, 1}
BY OnceIsBalanced, Numbers DEF Inv

\* A step that moves nothing that is counted.
LEMMA Unmoved ==
    ASSUME Inv, hunted' \in Seq(ByHunters),
           UNCHANGED <<frontend, out, jobs, work, gathered, store, sent, answered, lost>>
    PROVE  TravelInv' /\ OnceOnly'
<1>1. TravelInv'
  BY DEF Inv, TravelInv
<1>2. ASSUME NEW r \in Requests PROVE Balanced(r)'
  BY Stay, OnceIsBalanced DEF Inv, Balanced
<1>3. QED
  BY <1>1, <1>2, OnceIsBalanced

LEMMA OnceInit == Init => TravelInv /\ OnceOnly
<1> SUFFICES ASSUME Init PROVE TravelInv /\ OnceOnly
  OBVIOUS
<1>1. TravelInv
  BY DEF Init, TravelInv, routerVars, Lanes
<1>2. ASSUME NEW r \in Requests
      PROVE  /\ Places(r, <<frontend>>) = {} /\ Places(r, jobs) = {}
             /\ Places(r, gathered) = {} /\ Places(r, store) = {} /\ With(r) = {}
  <2>1. \A x \in DOMAIN <<frontend>> : DOMAIN <<frontend>>[x] = {}
    BY DEF Init
  <2>2. /\ \A x \in DOMAIN jobs : DOMAIN jobs[x] = {}
        /\ \A x \in DOMAIN gathered : DOMAIN gathered[x] = {}
        /\ \A x \in DOMAIN store : DOMAIN store[x] = {}
    BY DEF Init
  <2>3. With(r) = {}
    BY SameId DEF Init, With
  <2>4. QED
    BY <2>1, <2>2, <2>3, PlaceIs
<1>3. ASSUME NEW r \in Requests
      PROVE  In(r, <<frontend>>) + Is(out # None /\ out.msg = r)
                + In(r, jobs) + Cardinality(With(r)) + In(r, gathered) + In(r, store)
                + answered[r] + Is(r \in lost)
                = Is(r \in sent)
  <2>1. /\ In(r, <<frontend>>) = 0 /\ In(r, jobs) = 0 /\ In(r, gathered) = 0
        /\ In(r, store) = 0 /\ Cardinality(With(r)) = 0
    BY <1>2, FS_EmptySet DEF In
  <2>2. Is(out # None /\ out.msg = r) = 0 /\ Is(r \in lost) = 0 /\ Is(r \in sent) = 0
    BY DEF Init, Is, routerVars
  <2>3. answered[r] = 0
    BY DEF Init
  <2>4. QED
    BY <2>1, <2>2, <2>3
<1>4. QED
  BY <1>1, <1>3 DEF OnceOnly

LEMMA OnceSend ==
    ASSUME Inv, NEW s \in Requests, Send(s)
    PROVE  TravelInv' /\ OnceOnly'
<1>1. /\ s \notin sent /\ sent' = sent \cup {s} /\ frontend' = Append(frontend, s)
      /\ UNCHANGED <<out, jobs, work, gathered, hunted, store, answered, lost>>
  BY DEF Send, routerVars, gathererVars, hunterVars
<1>2. s \in Travelling /\ frontend \in Seq(Travelling)
  BY DEF Inv, TravelInv, Travelling
<1>3. TravelInv'
  BY <1>1, <1>2, SequenceFacts DEF Inv, TravelInv
<1>4. ASSUME NEW r \in Requests PROVE Balanced(r)'
  <2> DEFINE one == IF s = r THEN 1 ELSE 0
  <2>1. Front(r)' = Front(r) + one
    <3>1. Front(r)' = Front(r) + (IF s.id = r.id THEN 1 ELSE 0)
      BY <1>1, <1>2, FrontIs
    <3>2. QED
      BY <1>2, <3>1, SameId
  <2>2. Made(r)' = Made(r) + one
    BY <1>1 DEF Made, Is
  <2>3. one \in {0, 1}
    OBVIOUS
  <2> HIDE DEF one
  <2>4. UNCHANGED <<Hand(r), Jobs(r), Work(r), Back(r), Asked(r), answered, Died(r)>>
    BY <1>1, Stay
  <2>5. QED
    BY <2>1, <2>2, <2>3, <2>4, Before DEF Balanced
<1>5. QED
  BY <1>3, <1>4, OnceIsBalanced

-----------------------------------------------------------------------------
(* The router                                                              *)

\* A message taken in hand.
LEMMA HandTakes ==
    ASSUME NEW r \in Requests, NEW m \in Travelling, NEW to \in Lanes \cup {"gatherers"}, m \in Message,
           out = None, out' = [to |-> to, msg |-> m]
    PROVE  Hand(r) = 0 /\ Hand(r)' = IF m.id = r.id THEN 1 ELSE 0
<1>1. out' # None /\ out'.msg = m
  <2>1. [to |-> to, msg |-> m] \in Handing
    BY DEF Handing
  <2>2. QED
    BY <2>1, PipelineAssumption
<1>2. m.id = r.id <=> m = r
  BY SameId
<1>3. QED
  BY <1>1, <1>2 DEF Hand, Is

\* A message passed on.
LEMMA HandGives ==
    ASSUME Inv, NEW r \in Requests, out # None, out' = None
    PROVE  /\ out.msg \in Travelling
           /\ Hand(r) = (IF out.msg.id = r.id THEN 1 ELSE 0) /\ Hand(r)' = 0
<1>1. out.msg \in Travelling
  BY DEF Inv, TravelInv
<1>2. out.msg.id = r.id <=> out.msg = r
  BY <1>1, SameId
<1>3. QED
  BY <1>1, <1>2 DEF Hand, Is

LEMMA TravellingIs == Travelling \subseteq Message /\ ByHunters \subseteq Travelling
BY PipelineAssumption DEF Travelling, ByHunters

LEMMA RouteIs ==
    ASSUME NEW m, Route(m)
    PROVE  \E to \in Lanes \cup {"gatherers"} : out' = [to |-> to, msg |-> m]
BY DEF Route, Lanes

LEMMA OnceHandleFrontend ==
    ASSUME Inv, HandleFrontend
    PROVE  TravelInv' /\ OnceOnly'
<1> DEFINE m == Head(frontend)
<1>1. /\ frontend # <<>> /\ frontend' = Tail(frontend) /\ out = None /\ Route(m)
      /\ UNCHANGED <<jobs, work, gathered, hunted, store, sent, answered, lost>>
  BY DEF HandleFrontend, Turn, Handled, Inv, IInv, ReadyInv, gathererVars, hunterVars
<1>2. /\ frontend \in Seq(Travelling) /\ m \in Travelling /\ m \in Message
      /\ frontend' \in Seq(Travelling)
  BY <1>1, SequenceFacts, TravellingIs DEF Inv, TravelInv
<1>3. PICK to \in Lanes \cup {"gatherers"} : out' = [to |-> to, msg |-> m]
  BY <1>1, RouteIs
<1>4. TravelInv'
  BY <1>1, <1>2, <1>3 DEF Inv, TravelInv
<1>5. ASSUME NEW r \in Requests PROVE Balanced(r)'
  <2> DEFINE one == IF m.id = r.id THEN 1 ELSE 0
  <2>1. Front(r)' = Front(r) - one
    BY <1>1, <1>2, FrontIs
  <2>2. Hand(r) = 0 /\ Hand(r)' = one
    BY <1>1, <1>2, <1>3, HandTakes
  <2>3. one \in {0, 1}
    OBVIOUS
  <2> HIDE DEF one
  <2>4. UNCHANGED <<Jobs(r), Work(r), Back(r), Asked(r), answered, Died(r), Made(r)>>
    BY <1>1, Stay
  <2>5. QED
    BY <2>1, <2>2, <2>3, <2>4, Before DEF Balanced
<1>6. QED
  BY <1>4, <1>5, OnceIsBalanced

\* What hunters make is none of the requests.
LEMMA OnceHandleHunted ==
    ASSUME Inv, HandleHunted
    PROVE  TravelInv' /\ OnceOnly'
<1> DEFINE m == Head(hunted)
<1>1. /\ hunted # <<>> /\ hunted' = Tail(hunted) /\ out = None /\ Route(m)
      /\ UNCHANGED <<frontend, jobs, work, gathered, store, sent, answered, lost>>
  BY DEF HandleHunted, Turn, Handled, Inv, IInv, ReadyInv, gathererVars
<1>2. /\ m \in ByHunters /\ m \in Travelling /\ m \in Message /\ hunted' \in Seq(ByHunters)
  BY <1>1, SequenceFacts, TravellingIs DEF Inv, TravelInv
<1>3. PICK to \in Lanes \cup {"gatherers"} : out' = [to |-> to, msg |-> m]
  BY <1>1, RouteIs
<1>4. TravelInv'
  BY <1>1, <1>2, <1>3 DEF Inv, TravelInv
<1>5. ASSUME NEW r \in Requests PROVE Balanced(r)'
  <2>1. m.id # r.id
    BY <1>2, SameId
  <2>2. Hand(r) = 0 /\ Hand(r)' = 0
    BY <1>1, <1>2, <1>3, <2>1, HandTakes
  <2>3. UNCHANGED <<Front(r), Jobs(r), Work(r), Back(r), Asked(r), answered, Died(r), Made(r)>>
    BY <1>1, Stay
  <2>4. QED
    BY <2>2, <2>3, Before DEF Balanced
<1>6. QED
  BY <1>4, <1>5, OnceIsBalanced

LEMMA OnceHandleGathered ==
    ASSUME Inv, HandleGathered
    PROVE  TravelInv' /\ OnceOnly'
<1>1. PICK g \in Gatherers :
        /\ gathered[g] # <<>>
        /\ out' = [to |-> Lane(Head(gathered[g])), msg |-> Head(gathered[g])]
        /\ gathered' = [gathered EXCEPT ![g] = Tail(@)]
  BY DEF HandleGathered
<1>2. /\ out = None
      /\ UNCHANGED <<frontend, jobs, work, hunted, store, sent, answered, lost>>
  BY DEF HandleGathered, Turn, Handled, hunterVars
<1> DEFINE m == Head(gathered[g])
<1>3. /\ gathered \in [Gatherers -> Seq(Travelling)] /\ m \in Travelling /\ m \in Message
      /\ Tail(gathered[g]) \in Seq(Travelling)
  BY <1>1, SequenceFacts, TravellingIs DEF Inv, TravelInv
<1>4. Lane(m) \in Lanes \cup {"gatherers"}
  BY DEF Lane, Lanes
<1>5. out'.msg = m /\ gathered' \in [Gatherers -> Seq(Travelling)]
  BY <1>1, <1>3
<1>6. TravelInv'
  BY <1>2, <1>3, <1>5 DEF Inv, TravelInv
<1>7. Taken(gathered', gathered, g)
  BY <1>1 DEF Taken
<1>8. ASSUME NEW r \in Requests PROVE Balanced(r)'
  <2> DEFINE one == IF m.id = r.id THEN 1 ELSE 0
  <2>1. Back(r)' = Back(r) - one
    BY <1>1, <1>3, <1>7, InTail, WorkersFinite DEF Back
  <2>2. Hand(r) = 0 /\ Hand(r)' = one
    BY <1>1, <1>2, <1>3, <1>4, HandTakes
  <2>3. one \in {0, 1}
    OBVIOUS
  <2> HIDE DEF one
  <2>4. UNCHANGED <<Front(r), Jobs(r), Work(r), Asked(r), answered, Died(r), Made(r)>>
    BY <1>2, Stay
  <2>5. QED
    BY <2>1, <2>2, <2>3, <2>4, Before DEF Balanced
<1>9. QED
  BY <1>6, <1>8, OnceIsBalanced

LEMMA OnceRelay ==
    ASSUME Inv, NEW s \in Lanes, Relay(s)
    PROVE  TravelInv' /\ OnceOnly'
<1> DEFINE m == Head(store[s])
<1>1. /\ store[s] # <<>> /\ store' = [store EXCEPT ![s] = Tail(@)]
      /\ answered' = [r \in Requests |-> IF r.id = m.id THEN answered[r] + 1 ELSE answered[r]]
      /\ UNCHANGED <<frontend, out, jobs, work, gathered, hunted, sent, lost>>
  BY DEF Relay, Turn, Inv, IInv, ReadyInv, gathererVars, hunterVars
<1>2. /\ store \in [Lanes -> Seq(Travelling)] /\ m \in Travelling
      /\ Tail(store[s]) \in Seq(Travelling)
  BY <1>1, SequenceFacts DEF Inv, TravelInv
<1>3. TravelInv'
  BY <1>1, <1>2 DEF Inv, TravelInv
<1>4. Taken(store', store, s)
  BY <1>1 DEF Taken
<1>5. ASSUME NEW r \in Requests PROVE Balanced(r)'
  <2> DEFINE one == IF m.id = r.id THEN 1 ELSE 0
  <2>1. Asked(r)' = Asked(r) - one
    BY <1>1, <1>2, <1>4, InTail, WorkersFinite DEF Asked
  <2>2. answered'[r] = answered[r] + one
    BY <1>1, Before
  <2>3. one \in {0, 1}
    OBVIOUS
  <2> HIDE DEF one
  <2>4. UNCHANGED <<Front(r), Hand(r), Jobs(r), Work(r), Back(r), Died(r), Made(r)>>
    BY <1>1, Stay
  <2>5. QED
    BY <2>1, <2>2, <2>3, <2>4, Before DEF Balanced
<1>6. QED
  BY <1>3, <1>5, OnceIsBalanced

LEMMA OnceSendJob ==
    ASSUME Inv, SendJob
    PROVE  TravelInv' /\ OnceOnly'
<1>1. PICK g \in Gatherers : jobs' = [jobs EXCEPT ![g] = Append(@, out.msg)]
  BY DEF SendJob
<1>2. /\ out # None /\ out' = None
      /\ UNCHANGED <<frontend, work, gathered, hunted, store, sent, answered, lost>>
  BY DEF SendJob, hunterVars
<1> DEFINE m == out.msg
<1>3. m \in Travelling /\ jobs \in [Gatherers -> Seq(Travelling)]
  BY <1>2 DEF Inv, TravelInv
<1> HIDE DEF m
<1>4. Append(jobs[g], m) \in Seq(Travelling) /\ jobs' = [jobs EXCEPT ![g] = Append(@, m)]
  BY <1>1, <1>3, SequenceFacts DEF m
<1>5. TravelInv'
  BY <1>2, <1>3, <1>4 DEF Inv, TravelInv
<1>6. Appended(jobs', jobs, g, m)
  BY <1>4 DEF Appended
<1>7. ASSUME NEW r \in Requests PROVE Balanced(r)'
  <2> DEFINE one == IF m.id = r.id THEN 1 ELSE 0
  <2>1. Jobs(r)' = Jobs(r) + one
    BY <1>3, <1>6, InAppend, WorkersFinite DEF Jobs
  <2>2. Hand(r) = one /\ Hand(r)' = 0
    BY <1>2, HandGives DEF m
  <2>3. one \in {0, 1}
    OBVIOUS
  <2> HIDE DEF one
  <2>4. UNCHANGED <<Front(r), Work(r), Back(r), Asked(r), answered, Died(r), Made(r)>>
    BY <1>2, Stay
  <2>5. QED
    BY <2>1, <2>2, <2>3, <2>4, Before DEF Balanced
<1>8. QED
  BY <1>5, <1>7, OnceIsBalanced

LEMMA OnceSendStore ==
    ASSUME Inv, SendStore
    PROVE  TravelInv' /\ OnceOnly'
<1> DEFINE m == out.msg  s == out.to
<1>1. /\ out # None /\ s \in Lanes /\ store' = [store EXCEPT ![s] = Append(@, m)]
      /\ out' = None
      /\ UNCHANGED <<frontend, jobs, work, gathered, hunted, sent, answered, lost>>
  BY DEF SendStore, gathererVars, hunterVars
<1>2. m \in Travelling /\ store \in [Lanes -> Seq(Travelling)]
  BY <1>1 DEF Inv, TravelInv
<1> HIDE DEF m, s
<1>3. Append(store[s], m) \in Seq(Travelling)
  BY <1>1, <1>2, SequenceFacts
<1>4. TravelInv'
  BY <1>1, <1>2, <1>3 DEF Inv, TravelInv
<1>5. Appended(store', store, s, m)
  BY <1>1 DEF Appended
<1>6. ASSUME NEW r \in Requests PROVE Balanced(r)'
  <2> DEFINE one == IF m.id = r.id THEN 1 ELSE 0
  <2>1. Asked(r)' = Asked(r) + one
    BY <1>1, <1>2, <1>5, InAppend, WorkersFinite DEF Asked
  <2>2. Hand(r) = one /\ Hand(r)' = 0
    BY <1>1, HandGives DEF m
  <2>3. one \in {0, 1}
    OBVIOUS
  <2> HIDE DEF one
  <2>4. UNCHANGED <<Front(r), Jobs(r), Work(r), Back(r), answered, Died(r), Made(r)>>
    BY <1>1, Stay
  <2>5. QED
    BY <2>1, <2>2, <2>3, <2>4, Before DEF Balanced
<1>7. QED
  BY <1>4, <1>6, OnceIsBalanced

LEMMA OnceRouter ==
    ASSUME Inv, Router
    PROVE  TravelInv' /\ OnceOnly'
<1>1. hunted \in Seq(ByHunters)
  BY DEF Inv, TravelInv
<1>2. CASE PollFrontend \/ PollBackend \/ SendHunt
  BY <1>1, <1>2, Unmoved DEF PollFrontend, PollBackend, SendHunt, gathererVars, hunterVars
<1>3. QED
  BY <1>2, OnceHandleFrontend, OnceHandleGathered, OnceHandleHunted, OnceRelay,
     OnceSendJob, OnceSendStore DEF Router

-----------------------------------------------------------------------------
(* The gatherers and the hunters                                           *)

LEMMA OnceTakeJob ==
    ASSUME Inv, NEW g \in Gatherers, TakeJob(g)
    PROVE  TravelInv' /\ OnceOnly'
<1> DEFINE m == Head(jobs[g])
<1>1. /\ work[g] = Idle /\ jobs[g] # <<>>
      /\ work' = [work EXCEPT ![g] = m] /\ jobs' = [jobs EXCEPT ![g] = Tail(@)]
      /\ UNCHANGED <<frontend, out, gathered, hunted, store, sent, answered, lost>>
  BY DEF TakeJob, routerVars, hunterVars
<1>2. /\ jobs \in [Gatherers -> Seq(Travelling)] /\ m \in Travelling
      /\ Tail(jobs[g]) \in Seq(Travelling)
      /\ work \in [Gatherers -> Travelling \cup {Idle, Dead}]
  BY <1>1, SequenceFacts DEF Inv, TravelInv
<1> HIDE DEF m
<1>3. TravelInv'
  BY <1>1, <1>2 DEF Inv, TravelInv
<1>4. Taken(jobs', jobs, g)
  BY <1>1 DEF Taken
<1>5. ASSUME NEW r \in Requests PROVE Balanced(r)'
  <2> DEFINE one == IF m.id = r.id THEN 1 ELSE 0
  <2>1. Jobs(r)' = Jobs(r) - one
    BY <1>1, <1>2, <1>4, InTail, WorkersFinite DEF Jobs, m
  <2>2. Work(r)' = Work(r) + one
    <3>1. m = r <=> m.id = r.id
      BY <1>2, SameId
    <3>2. work[g] # r
      BY <1>1, SameId
    <3>3. /\ Work(r) \in Nat
          /\ Work(r)' = Work(r) + (IF m = r THEN 1 ELSE 0) - (IF work[g] = r THEN 1 ELSE 0)
      BY <1>1, <1>2, WithChanges DEF Work
    <3>4. QED
      BY <3>1, <3>2, <3>3
  <2>3. one \in {0, 1}
    OBVIOUS
  <2> HIDE DEF one
  <2>4. UNCHANGED <<Front(r), Hand(r), Back(r), Asked(r), answered, Died(r), Made(r)>>
    BY <1>1, Stay
  <2>5. QED
    BY <2>1, <2>2, <2>3, <2>4, Before DEF Balanced
<1>6. QED
  BY <1>3, <1>5, OnceIsBalanced

LEMMA OncePushGathered ==
    ASSUME Inv, NEW g \in Gatherers, PushGathered(g)
    PROVE  TravelInv' /\ OnceOnly'
<1> DEFINE m == work[g]
<1>1. /\ m \notin {Idle, Dead}
      /\ work' = [work EXCEPT ![g] = Idle]
      /\ gathered' = [gathered EXCEPT ![g] = Append(@, m)]
      /\ UNCHANGED <<frontend, out, jobs, hunted, store, sent, answered, lost>>
  BY DEF PushGathered, Busy, routerVars, hunterVars
<1>2. /\ gathered \in [Gatherers -> Seq(Travelling)] /\ m \in Travelling
      /\ Append(gathered[g], m) \in Seq(Travelling)
      /\ work \in [Gatherers -> Travelling \cup {Idle, Dead}]
  BY <1>1, SequenceFacts DEF Inv, TravelInv
<1> HIDE DEF m
<1>3. TravelInv'
  BY <1>1, <1>2 DEF Inv, TravelInv
<1>4. Appended(gathered', gathered, g, m)
  BY <1>1 DEF Appended
<1>5. ASSUME NEW r \in Requests PROVE Balanced(r)'
  <2> DEFINE one == IF m.id = r.id THEN 1 ELSE 0
  <2>1. Back(r)' = Back(r) + one
    BY <1>2, <1>4, InAppend, WorkersFinite DEF Back
  <2>2. Work(r)' = Work(r) - one
    <3>1. m = r <=> m.id = r.id
      BY <1>2, SameId
    <3>2. Idle # r
      BY SameId
    <3>3. /\ Work(r) \in Nat
          /\ Work(r)' = Work(r) + (IF Idle = r THEN 1 ELSE 0) - (IF m = r THEN 1 ELSE 0)
      BY <1>1, <1>2, WithChanges DEF Work, m
    <3>4. QED
      BY <3>1, <3>2, <3>3
  <2>3. one \in {0, 1}
    OBVIOUS
  <2> HIDE DEF one
  <2>4. UNCHANGED <<Front(r), Hand(r), Jobs(r), Asked(r), answered, Died(r), Made(r)>>
    BY <1>1, Stay
  <2>5. QED
    BY <2>1, <2>2, <2>3, <2>4, Before DEF Balanced
<1>6. QED
  BY <1>3, <1>5, OnceIsBalanced

\* A gatherer dies with the message it has in hand, and with its pipe.
LEMMA OnceDie ==
    ASSUME Inv, NEW g \in Gatherers, Die(g)
    PROVE  TravelInv' /\ OnceOnly'
<1> DEFINE m == work[g]
           piped(r) == \E k \in DOMAIN jobs[g] : jobs[g][k].id = r.id
<1>1. /\ m \notin {Idle, Dead}
      /\ work' = [work EXCEPT ![g] = Dead] /\ jobs' = [jobs EXCEPT ![g] = <<>>]
      /\ lost' = lost \cup (Requests \cap ({m} \cup Range(jobs[g])))
      /\ UNCHANGED <<frontend, out, gathered, hunted, store, sent, answered>>
  BY DEF Die, Busy, routerVars, hunterVars
<1>2. /\ jobs \in [Gatherers -> Seq(Travelling)] /\ m \in Travelling
      /\ <<>> \in Seq(Travelling)
      /\ work \in [Gatherers -> Travelling \cup {Idle, Dead}]
  BY <1>1 DEF Inv, TravelInv
<1> HIDE DEF m
<1>3. TravelInv'
  BY <1>1, <1>2 DEF Inv, TravelInv
<1>4. Emptied(jobs', jobs, g)
  BY <1>1 DEF Emptied
<1>5. ASSUME NEW r \in Requests PROVE Balanced(r)'
  <2>1. Jobs(r) <= 1
    BY Before DEF Balanced
  <2>2. Jobs(r)' = Jobs(r) - (IF piped(r) THEN 1 ELSE 0)
    BY <1>2, <1>4, <2>1, InClear, WorkersFinite DEF Jobs
  <2>3. Work(r)' = Work(r) - (IF m = r THEN 1 ELSE 0)
    <3>1. Dead # r
      BY SameId
    <3>2. /\ Work(r) \in Nat
          /\ Work(r)' = Work(r) + (IF Dead = r THEN 1 ELSE 0) - (IF m = r THEN 1 ELSE 0)
      BY <1>1, <1>2, WithChanges DEF Work, m
    <3>3. QED
      BY <3>1, <3>2
  <2>4. r \in Range(jobs[g]) <=> piped(r)
    <3>1. \A k \in DOMAIN jobs[g] : jobs[g][k] \in Travelling
      BY <1>2, SequenceFacts
    <3>2. \A k \in DOMAIN jobs[g] : jobs[g][k] = r <=> jobs[g][k].id = r.id
      BY <3>1, SameId
    <3>3. QED
      BY <3>2 DEF Range
  <2> HIDE DEF piped
  <2>5. Jobs(r)' \in Nat
    BY <1>3, PlacesFinite, WorkersFinite DEF TravelInv, Jobs
  <2>6. Work(r)' \in Nat
    <3>1. With(r)' \in SUBSET Gatherers
      BY DEF With
    <3>2. QED
      BY <3>1, WorkersFinite, FS_Subset, FS_CardinalityType DEF Work
  <2>7. UNCHANGED <<Front(r), Hand(r), Back(r), Asked(r), answered, Made(r)>>
    BY <1>1, Stay
  <2>8. Died(r)' = IF r \in lost \/ m = r \/ piped(r) THEN 1 ELSE 0
    BY <1>1, <2>4 DEF Died, Is
  <2>9. Died(r) = IF r \in lost THEN 1 ELSE 0
    BY DEF Died, Is
  <2> HIDE DEF piped
  <2>10. QED
    BY <2>2, <2>3, <2>5, <2>6, <2>7, <2>8, <2>9, Before DEF Balanced
<1>6. QED
  BY <1>3, <1>5, OnceIsBalanced

LEMMA OnceHunt ==
    ASSUME Inv, NEW h \in HunterIds, Hunt(h)
    PROVE  TravelInv' /\ OnceOnly'
<1>1. UNCHANGED <<frontend, out, jobs, work, gathered, store, sent, answered, lost>>
  BY DEF Hunt, TakeHunt, RunPlugin, PluginFails, routerVars, gathererVars
<1>2. hunted \in Seq(ByHunters)
  BY DEF Inv, TravelInv
<1>3. CASE RunPlugin(h)
  <2>1. prey[h] \in SoundPrey /\ prey[h].item \in SoundItem
    BY <1>3 DEF RunPlugin, SoundPrey, Inv, IInv, HunterInv
  <2>2. Head(prey[h].left) \in PluginNames
    BY <2>1, RestSound
  <2>3. PICK a \in Answers :
          hunted' = Append(hunted, Created(h, prey[h].item.i,
                                Output(Head(prey[h].left), prey[h].item.i, a)))
    BY <1>3 DEF RunPlugin
  <2> DEFINE m == Created(h, prey[h].item.i, Output(Head(prey[h].left), prey[h].item.i, a))
  <2>4. m \in Message
    BY <2>1, <2>2, CreatedSound DEF Sound
  <2>5. m.id = h
    BY DEF Created
  <2>6. m \in ByHunters
    BY <2>4, <2>5 DEF ByHunters
  <2> HIDE DEF m
  <2>7. hunted' = Append(hunted, m)
    BY <2>3 DEF m
  <2>8. QED
    BY <1>1, <1>2, <2>6, <2>7, SequenceFacts, Unmoved
<1>4. CASE TakeHunt(h) \/ PluginFails(h)
  <2>1. hunted' = hunted
    BY <1>4 DEF TakeHunt, PluginFails
  <2>2. QED
    BY <1>1, <1>2, <2>1, Unmoved
<1>5. QED
  BY <1>3, <1>4 DEF Hunt

-----------------------------------------------------------------------------
\* Whatever workers and sockets it passes, a request is in one place at a
\* time, or answered once, or lost with a gatherer that died (router.py and
\* the sockets of gatherer/__init__.py).
THEOREM RequestOnce == Spec => []OnceOnly
<1>1. Inv /\ [Next]_vars => TravelInv' /\ OnceOnly'
  <2> SUFFICES ASSUME Inv, [Next]_vars PROVE TravelInv' /\ OnceOnly'
    OBVIOUS
  <2>1. CASE UNCHANGED vars
    <3>1. hunted' = hunted /\ hunted \in Seq(ByHunters)
      BY <2>1 DEF vars, hunterVars, Inv, TravelInv
    <3>2. QED
      BY <2>1, <3>1, Unmoved DEF vars, routerVars, gathererVars
  <2>2. CASE \E r \in Requests : Send(r)
    BY <2>2, OnceSend
  <2>3. CASE Router
    BY <2>3, OnceRouter
  <2>4. CASE \E g \in Gatherers : Gather(g)
    BY <2>4, OnceTakeJob, OncePushGathered, OnceDie DEF Gather
  <2>5. CASE \E h \in HunterIds : Hunt(h)
    BY <2>5, OnceHunt
  <2>6. QED
    BY <2>1, <2>2, <2>3, <2>4, <2>5 DEF Next
<1>2. Inv <=> IInv /\ TravelInv /\ OnceOnly
  BY DEF Inv
<1>3. QED
  BY Invariance, OnceInit, <1>1, <1>2, PTL DEF Spec
=============================================================================
