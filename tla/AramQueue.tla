----------------------------- MODULE AramQueue -----------------------------
(***************************************************************************)
(* The game's ARAM request queue (src/sdk/ar/arq.c) over the DMA engine    *)
(* and its interrupt (ar.c), with the package cache's fetch                *)
(* (src/soa/aramcache_fetch.c), which narrows the chunk for its own        *)
(* transfer while others wait.  A high request moves in one transfer; a    *)
(* low one a chunk at a time, with high requests let in between.  Posting  *)
(* and the interrupt's handler run with interrupts off; the callback runs  *)
(* in the handler and may post.                                            *)
(*                                                                         *)
(* Lengths are in the engine's units of 32 bytes.  A block is posted by    *)
(* whose it is, again only from its own callback on.                       *)
(***************************************************************************)
EXTENDS AramConstants, SequencesExt

VARIABLES
    queue,        \* __ARQRequestQueueHi and Lo
    pending,      \* __ARQRequestPendingHi and Lo
    callback,     \* whether __ARQCallbackHi and Lo are set
    chunk,        \* __ARQChunkSize
    req,          \* a request's block: its source, its length
    dma,          \* the engine: the request, the units it moves, none when idle
    raised,       \* the ARAM interrupt
    inCallback,   \* the handler's callback at work: "hi", "lo" or none
    fetch,        \* aramCacheFetch: where it is, the chunk it keeps, aramCacheDone
    moved,        \* history: how often each unit of a request has been moved
    told,         \* history: the requests whose callback has been called since posted
    posts

queueVars == <<queue, pending, callback, chunk, req>>
vars == <<queueVars, dma, raised, inCallback, fetch, moved, told, posts>>

Names == DOMAIN Requests
None == "none"
Levels == {"hi", "lo"}
Units(r) == 0 .. Requests[r].length - 1

Init ==
    /\ queue = [p \in Levels |-> <<>>] /\ pending = [p \in Levels |-> None]
    /\ callback = [p \in Levels |-> FALSE] /\ chunk = Default
    /\ req = [r \in Names |-> [source |-> 0, length |-> 0]]
    /\ dma = {} /\ raised = FALSE /\ inCallback = None
    /\ fetch = [at |-> "out", keeps |-> Default, done |-> TRUE]
    /\ moved = [r \in Names |-> [u \in Units(r) |-> 0]] /\ told = {} /\ posts = 0

-----------------------------------------------------------------------------
(* The queue, as a record of queueVars' and the transfer it starts. *)

Queue == [queue |-> queue, pending |-> pending, callback |-> callback, req |-> req, starts |-> {}]
Transfer(r, q, n) == {[r |-> r, u |-> u] : u \in q.req[r].source .. q.req[r].source + n - 1}

\* __ARQPopTaskQueueHi
PopHi(q) ==
    IF q.queue["hi"] = <<>> THEN q
    ELSE LET r == Head(q.queue["hi"])
         IN [q EXCEPT !.starts = @ \cup Transfer(r, q, q.req[r].length),
                      !.callback["hi"] = TRUE, !.pending["hi"] = r, !.queue["hi"] = Tail(@)]

\* __ARQServiceQueueLo: the last chunk is the one that sets the callback.
LastChunk(q, r) == q.req[r].length <= chunk
Advanced_Default(b) == [source |-> b.source + Default, length |-> (b.length - chunk) % LenMod]
Advanced(b) == [source |-> b.source + chunk, length |-> (b.length - chunk) % LenMod]
ServiceLo(q) ==
    LET taken == IF q.pending["lo"] = None /\ q.queue["lo"] # <<>>
                 THEN [q EXCEPT !.pending["lo"] = Head(q.queue["lo"]), !.queue["lo"] = Tail(@)]
                 ELSE q
        r == taken.pending["lo"]
        n == IF LastChunk(taken, r) THEN taken.req[r].length ELSE chunk
    IN IF r = None THEN taken
       ELSE [taken EXCEPT !.starts = @ \cup Transfer(r, taken, n),
                          !.callback["lo"] = @ \/ LastChunk(taken, r),
                          !.req[r] = Advanced(@)]

Serve(q) == LET popped == PopHi(q)
            IN IF popped.pending["hi"] = None THEN ServiceLo(popped) ELSE popped

Becomes(q) ==
    /\ queue' = q.queue /\ pending' = q.pending /\ callback' = q.callback /\ req' = q.req
    /\ dma' = dma \cup q.starts

\* ARQPostRequest, with nothing pending the queue is served at once.
Starts(q) == q.pending["hi"] = None /\ q.pending["lo"] = None
Post(r) ==
    LET new == [Queue EXCEPT !.req[r] = [source |-> 0, length |-> Requests[r].length],
                             !.queue[Requests[r].priority] = Append(@, r)]
    IN /\ Becomes(IF Starts(new) THEN Serve(new) ELSE new)
       /\ moved' = [moved EXCEPT ![r] = [u \in Units(r) |-> 0]]
       /\ told' = told \ {r}

\* A block is its caller's again from its callback on.
Unused(r) ==
    /\ r \notin ToSet(queue["hi"]) \cup ToSet(queue["lo"])
    /\ \A p \in Levels : pending[p] = r => inCallback = p

-----------------------------------------------------------------------------
(* The callers, from a thread or from a callback. *)

Posts ==
    /\ posts < MaxPosts /\ posts' = posts + 1
    /\ \E r \in Names \ {Fetched} : Unused(r) /\ Post(r)
    /\ UNCHANGED <<chunk, raised, inCallback, fetch>>

\* aramCacheFetch
Fetching(from, to) == fetch.at = from /\ inCallback = None /\ fetch' = [fetch EXCEPT !.at = to]
Others == <<queue, pending, callback, req, dma, raised, inCallback, moved, told, posts>>

FetchCalled == posts < MaxPosts /\ Fetching("out", "wait") /\ UNCHANGED <<chunk, Others>>
FetchWaits == Fetching("wait", "keep") /\ dma = {} /\ UNCHANGED <<chunk, Others>>
FetchNarrows ==
    /\ fetch.at = "keep" /\ inCallback = None
    /\ fetch' = [at |-> "post", keeps |-> chunk, done |-> FALSE] /\ chunk' = 1
    /\ UNCHANGED Others
FetchPosts ==
    /\ Fetching("post", "spin") /\ Post(Fetched)
    /\ posts' = posts + 1
    /\ UNCHANGED <<chunk, raised, inCallback>>
FetchSpins == Fetching("spin", "back") /\ fetch.done /\ UNCHANGED <<chunk, Others>>
FetchReturns == Fetching("back", "out") /\ chunk' = fetch.keeps /\ UNCHANGED Others

-----------------------------------------------------------------------------
(* The engine and its interrupt. *)

\* The transfer is over: its units are in place, the interrupt is raised.
Completes ==
    /\ dma # {} /\ ~raised /\ inCallback = None
    /\ moved' = [r \in Names |-> [u \in Units(r) |->
                    IF [r |-> r, u |-> u] \in dma THEN moved[r][u] + 1 ELSE moved[r][u]]]
    /\ dma' = {} /\ raised' = TRUE
    /\ UNCHANGED <<queueVars, inCallback, fetch, told, posts>>

\* __ARHandler and __ARQInterruptServiceRoutine, up to the callback's call ...
Finished == IF callback["hi"] THEN "hi" ELSE IF callback["lo"] THEN "lo" ELSE None
Interrupt ==
    /\ raised /\ inCallback = None /\ raised' = FALSE
    /\ IF Finished = None
       THEN Becomes(Serve(Queue)) /\ UNCHANGED <<inCallback, told, fetch>>
       ELSE /\ inCallback' = Finished
            /\ told' = told \cup {pending[Finished]}
            /\ fetch' = [fetch EXCEPT !.done = @ \/ pending[Finished] = Fetched]
            /\ UNCHANGED <<queue, pending, callback, req, dma>>
    /\ UNCHANGED <<chunk, moved, posts>>

\* ... and from its return.
Cleared(q, p) == [q EXCEPT !.pending[p] = None, !.callback[p] = FALSE]
CallbackReturns ==
    /\ inCallback # None /\ inCallback' = None
    /\ Becomes(Serve(Cleared(Queue, inCallback)))
    /\ UNCHANGED <<chunk, raised, fetch, moved, told, posts>>

Next ==
    \/ Posts \/ FetchCalled \/ FetchWaits \/ FetchNarrows \/ FetchPosts \/ FetchSpins \/ FetchReturns
    \/ Completes \/ Interrupt \/ CallbackReturns

Spec == Init /\ [][Next]_vars

-----------------------------------------------------------------------------

\* RequestsServed: a request's callback comes when every unit of it has been moved, and
\* moved once, whatever the chunk was changed to while it waited; one transfer is under way
\* at a time, for a request that is pending; and with none under way and no interrupt to
\* come, nothing waits (PostRequest, ServiceQueueLo, the interrupt's service routine).
MovedWhole == \A r \in told : \A u \in Units(r) : moved[r][u] = 1
OneAtATime ==
    /\ \A a, b \in dma : a.r = b.r
    /\ \A a \in dma : a.r \in {pending["hi"], pending["lo"]}
NoneForgotten ==
    dma = {} /\ ~raised /\ inCallback = None
    => \A p \in Levels : queue[p] = <<>> /\ pending[p] = None
RequestsServed == MovedWhole /\ OneAtATime /\ NoneForgotten
=============================================================================
