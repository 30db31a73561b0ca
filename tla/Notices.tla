------------------------------- MODULE Notices -------------------------------
(***************************************************************************)
(* What the router tells others of the indicators and searches that pass   *)
(* through it: the webhooks (webhooks.py), and the stream (streamer.py)    *)
(* with the firehose of httpd behind it (httpd/app.py:157-223).            *)
(*                                                                         *)
(* The handler in progress copies what it has in hand to one pipe per      *)
(* part, one copy after the other, and waits where a pipe is full. The     *)
(* webhooks' worker posts each search to the hooks in the order of         *)
(* webhooks.yml; the streamer's publishes everything to whoever has        *)
(* subscribed, and a subscriber that does not keep up misses some.         *)
(*                                                                         *)
(* Any of the parts may end at any time, and nothing starts it again while *)
(* the router lives: see Lifecycle. Pipeline has the router's other copies. *)
(***************************************************************************)
EXTENDS Integers, Sequences, SequencesExt, FiniteSets

CONSTANTS Inputs,      \* what the router may handle, each once
          HookFiles,   \* the hooks that webhooks.yml may list, in order
          Watchers,    \* the clients of the firehose
          HWM,         \* what a pipe or a subscriber's queue holds
          Idle

\* The indicators a gatherer's result has are copied one by one, a search as
\* it is. An item stands for what passes the router once: two reports of one
\* indicator are two items. A list of searches fails in is_search.
Input == [mtype : {"result", "search"}, items : Seq(STRING)]

CONSTANT Notify,       \* the items is_search holds of
         Lists         \* the items that are lists

Parts == {"router", "streamer", "webhooks"}

VARIABLES alive,       \* the parts that run; those that are not enabled never do
          enabled,     \* set once
          hooks,       \* webhooks.yml: set once
          due,         \* the inputs the router has yet to handle
          sending,     \* the copies the handler in progress has yet to send
          hookPipe, streamPipe,
          posting,     \* what the webhooks' worker has in hand, or Idle
          posts,       \* history: item -> the hooks it was posted to, in order
          spoiled,     \* history: the items whose posting was cut short
          published,   \* history: what the streamer has published
          watch,       \* watcher -> "off", "joining", "open" or "ping"
          queue,       \* watcher -> what was published to it
          seen,        \* history: watcher -> its frames since it joined
          joined,      \* history: watcher -> what had been published by then
          missed       \* history: the watchers whose queue overflowed

hookVars == <<hookPipe, posting, posts, spoiled>>
watchVars == <<watch, queue, seen, joined, missed>>
streamVars == <<streamPipe, published, watchVars>>
fixedVars == <<alive, enabled, hooks>>
vars == <<fixedVars, due, sending, hookVars, streamVars>>

Items == UNION {ToSet(x.items) : x \in Inputs}

ASSUME NoticesAssumption ==
    /\ Inputs \subseteq Input /\ IsFiniteSet(Inputs)
    /\ \A x \in Inputs : IsInjective(x.items)
    /\ \A x, y \in Inputs : x # y => ToSet(x.items) \cap ToSet(y.items) = {}
    /\ Notify \subseteq Items \ Lists
    /\ HookFiles \subseteq Seq(STRING)
    /\ Idle \notin [item : Notify, left : Seq(STRING), text : BOOLEAN]
    /\ HWM \in Nat \ {0}

-----------------------------------------------------------------------------
(* The router. *)

\* Of each item in turn, a copy to each part in turn.
CopiesTo(x, To) ==
    [n \in 1..Len(x.items) * Len(To) |->
        [to |-> To[((n - 1) % Len(To)) + 1], item |-> x.items[((n - 1) \div Len(To)) + 1]]]

\* Mutant: nothing asks whether the parts are there.
CopiesUnasked(x) == CopiesTo(x, <<"streamer", "webhooks">>)

\* A copy for the streamer and one for the webhooks, if they are there: of
\* each indicator in turn.
Present == (IF "streamer" \in enabled THEN <<"streamer">> ELSE <<>>)
           \o (IF "webhooks" \in enabled THEN <<"webhooks">> ELSE <<>>)

Copies(x) == CopiesTo(x, Present)

\* The store has been sent the message, and the copies follow.
HandleInput(x) ==
    /\ "router" \in alive /\ sending = <<>> /\ x \in due
    /\ due' = due \ {x}
    /\ sending' = Copies(x)
    /\ UNCHANGED <<fixedVars, hookVars, streamVars>>

\* The router binds its end of the webhooks' pipe, which is there as long as the
\* worker is. It connects to the streamer, for which messages are kept.
SendToWebhooks(item) == /\ "webhooks" \in alive /\ Len(hookPipe) < HWM
                        /\ hookPipe' = Append(hookPipe, item)
                        /\ UNCHANGED streamPipe

SendToStreamer(item) == /\ Len(streamPipe) < HWM
                        /\ streamPipe' = Append(streamPipe, item)
                        /\ UNCHANGED hookPipe

SendCopy ==
    /\ "router" \in alive /\ sending # <<>>
    /\ \/ Head(sending).to = "webhooks" /\ SendToWebhooks(Head(sending).item)
       \/ Head(sending).to = "streamer" /\ SendToStreamer(Head(sending).item)
    /\ sending' = Tail(sending)
    /\ UNCHANGED <<fixedVars, due, posting, posts, spoiled, published, watchVars>>

-----------------------------------------------------------------------------
(* The webhooks' worker. *)


\* A message is taken: something other than a search is dropped, and so is a
\* list, on which is_search raises.
TakeNotice ==
    /\ "webhooks" \in alive /\ posting = Idle /\ hookPipe # <<>>
    /\ hookPipe' = Tail(hookPipe)
    /\ posting' = IF Head(hookPipe) \in Notify /\ hooks # <<>>
                  THEN [item |-> Head(hookPipe), left |-> hooks, text |-> FALSE]
                  ELSE Idle
    /\ UNCHANGED <<fixedVars, due, sending, posts, spoiled, streamVars>>

Posted(h) == [posts EXCEPT ![posting.item] = Append(@, h)]

\* Whatever is raised, the loop over the hooks ends and the worker goes on.
Spoil == /\ spoiled' = spoiled \cup {posting.item}
         /\ posting' = Idle

AfterPost == IF Len(posting.left) = 1 THEN Idle
             ELSE [posting EXCEPT !.left = Tail(@), !.text = TRUE]

\* The data have been made text for the first hook: there is no making them
\* slack's any more.
PostSlackLate == /\ Head(posting.left) = "slack" /\ posting.text
                 /\ Spoil
                 /\ UNCHANGED posts

\* Mutant: a hook that refuses ends the loop over the hooks.
AnsweredOnce == /\ posts' = Posted(Head(posting.left))
                /\ posting' \in {AfterPost, Idle}
                /\ UNCHANGED spoiled

\* The hook answers; a status that is not 200 or 201 is logged.
Answered == /\ posts' = Posted(Head(posting.left))
            /\ posting' = AfterPost
            /\ UNCHANGED spoiled

\* It cannot be reached in five seconds, sends nothing for five, or its answer is
\* lost. One that answers a little at a time is waited for as long as it does.
Unanswered == /\ posts' \in {posts, Posted(Head(posting.left))}
              /\ Spoil

Post == /\ "webhooks" \in alive /\ posting # Idle
        /\ \/ PostSlackLate
           \/ ~(Head(posting.left) = "slack" /\ posting.text) /\ (Answered \/ Unanswered)
        /\ UNCHANGED <<fixedVars, due, sending, hookPipe, streamVars>>

-----------------------------------------------------------------------------
(* The streamer and its subscribers. *)

Listening(c) == watch[c] \in {"open", "ping"}

\* What is published is dropped for a subscriber whose queue is full.
Publish ==
    /\ "streamer" \in alive /\ streamPipe # <<>>
    /\ LET full == {c \in Watchers : Listening(c) /\ Len(queue[c]) >= HWM}
       IN  /\ queue' = [c \in Watchers |->
                          IF Listening(c) /\ c \notin full
                          THEN Append(queue[c], Head(streamPipe)) ELSE queue[c]]
           /\ missed' = missed \cup full
    /\ published' = Append(published, Head(streamPipe))
    /\ streamPipe' = Tail(streamPipe)
    /\ UNCHANGED <<fixedVars, due, sending, hookVars, watch, seen, joined>>

WatchStep(c, from, to) ==
    /\ watch[c] = from
    /\ watch' = [watch EXCEPT ![c] = to]
    /\ UNCHANGED <<fixedVars, due, sending, hookVars, streamPipe, published>>

\* firehose: its token has been looked up, once and for all; "connected" is
\* sent while the subscription is still on its way.
Watch(c) == /\ WatchStep(c, "off", "joining")
            /\ seen[c] = <<>>
            /\ UNCHANGED <<queue, seen, joined, missed>>

Join(c) == /\ WatchStep(c, "joining", "open")
           /\ "streamer" \in alive
           /\ joined' = [joined EXCEPT ![c] = Len(published)]
           /\ UNCHANGED <<queue, seen, missed>>

Frame(c) == /\ WatchStep(c, "open", "open")
            /\ queue[c] # <<>>
            /\ seen' = [seen EXCEPT ![c] = Append(@, Head(queue[c]))]
            /\ queue' = [queue EXCEPT ![c] = Tail(@)]
            /\ UNCHANGED <<joined, missed>>

\* Nothing has come for five seconds: the client is pinged, and waited for.
Ping(c) == /\ WatchStep(c, "open", "ping")
           /\ queue[c] = <<>>
           /\ UNCHANGED <<queue, seen, joined, missed>>

\* Mutant: what has come in the meantime is dropped.
PongDrains(c) == /\ WatchStep(c, "ping", "open")
                 /\ queue' = [queue EXCEPT ![c] = <<>>]
                 /\ UNCHANGED <<seen, joined, missed>>

Pong(c) == /\ WatchStep(c, "ping", "open")
           /\ UNCHANGED <<queue, seen, joined, missed>>

\* The client leaves, or says something else than pong.
Leave(c) == /\ \E from \in {"joining", "open", "ping"} : WatchStep(c, from, "off")
            /\ queue' = [queue EXCEPT ![c] = <<>>]
            /\ UNCHANGED <<seen, joined, missed>>

Watching(c) == Watch(c) \/ Join(c) \/ Frame(c) \/ Ping(c) \/ Pong(c) \/ Leave(c)

-----------------------------------------------------------------------------
\* A signal, or a crash. The pipe to the webhooks goes with either end of it.
End(p) ==
    /\ p \in alive
    /\ alive' = alive \ {p}
    /\ sending' = IF p = "router" THEN <<>> ELSE sending
    /\ hookPipe' = IF p = "webhooks" THEN <<>> ELSE hookPipe
    /\ posting' = IF p = "webhooks" THEN Idle ELSE posting
    /\ spoiled' = IF p = "webhooks" /\ posting # Idle THEN spoiled \cup {posting.item}
                  ELSE spoiled
    /\ UNCHANGED <<enabled, hooks, due, posts, streamVars>>

Init == /\ enabled \in SUBSET {"streamer", "webhooks"}
        /\ alive = enabled \cup {"router"}
        /\ hooks \in HookFiles
        /\ due = Inputs /\ sending = <<>>
        /\ hookPipe = <<>> /\ streamPipe = <<>>
        /\ posting = Idle
        /\ posts = [i \in Items |-> <<>>] /\ spoiled = {}
        /\ published = <<>>
        /\ watch = [c \in Watchers |-> "off"]
        /\ queue = [c \in Watchers |-> <<>>]
        /\ seen = [c \in Watchers |-> <<>>]
        /\ joined = [c \in Watchers |-> 0]
        /\ missed = {}

Router == (\E x \in Inputs : HandleInput(x)) \/ SendCopy
Webhooks == TakeNotice \/ Post

Next == \/ Router \/ Webhooks \/ Publish
        \/ \E c \in Watchers : Watching(c)
        \/ \E p \in Parts : End(p)

Spec == Init /\ [][Next]_vars

\* What runs goes on running. Nothing bounds a post: its timeout is one for the
\* connection and one for each read of the answer.
FairSpec == Spec /\ WF_vars(SendCopy) /\ WF_vars(TakeNotice) /\ WF_vars(Publish)

-----------------------------------------------------------------------------
(* Properties. *)

\* Every variable stays in its range.
TypeOK ==
    /\ enabled \subseteq Parts \ {"router"} /\ alive \subseteq enabled \cup {"router"}
    /\ hooks \in HookFiles /\ due \subseteq Inputs
    /\ \A n \in DOMAIN sending : sending[n].to \in enabled
    /\ Len(hookPipe) <= HWM /\ Len(streamPipe) <= HWM
    /\ posting # Idle => posting.item \in Notify /\ IsSuffix(posting.left, hooks)
    /\ spoiled \subseteq Notify
    /\ watch \in [Watchers -> {"off", "joining", "open", "ping"}]
    /\ \A c \in Watchers : Len(queue[c]) <= HWM /\ joined[c] \in 0..Len(published)

\* A search is posted to every hook once, in the order of the file, up to the
\* hook where something is raised: one that refuses, or a list or another
\* indicator before it, keeps nobody from being told (webhooks.py:68-92).
EveryHookTold ==
    \A i \in Items :
        /\ IsPrefix(posts[i], hooks)
        /\ i \notin spoiled /\ (posting # Idle => posting.item # i)
           => posts[i] \in {<<>>, hooks}

\* A client of the firehose sees the stream from where it joined, in order and
\* without a gap, unless its queue overflowed: waiting for a pong loses nothing
\* (streamer.py:45-47, httpd/app.py:196-219).
NoGap ==
    \A c \in Watchers : Listening(c) /\ c \notin missed =>
        seen[c] \o queue[c] = SubSeq(published, joined[c] + 1, Len(published))

=============================================================================
