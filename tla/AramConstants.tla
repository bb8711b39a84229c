---------------------------- MODULE AramConstants ----------------------------
(* The constants of AramQueue, and what is assumed of them. *)
EXTENDS Integers, Sequences

CONSTANTS
    Requests,     \* request blocks: [priority, length] by name
    Fetched,      \* aramCacheReq, the one the fetch posts
    Default,      \* ARQ_CHUNK_SIZE_DEFAULT
    LenMod,       \* 2^32, where a length wraps
    MaxPosts      \* bound on the posts, for TLC

\* No block is the null pointer, and none is of no length.
ASSUME AramAssumption ==
    /\ Fetched \in DOMAIN Requests /\ "none" \notin DOMAIN Requests
    /\ \A r \in DOMAIN Requests :
          /\ Requests[r].priority \in {"hi", "lo"}
          /\ Requests[r].length \in 1 .. LenMod - 1
    /\ LenMod \in Nat /\ Default \in 1 .. LenMod - 1
=============================================================================
