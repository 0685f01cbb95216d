------------------------------ MODULE MCServer ------------------------------
(* Parts of the server that meet only through the network, the files or the  *)
(* frames they serve: accounts and databases, client sessions, the buffer of *)
(* replies and the packets in it; the frames of the buffer pool with each    *)
(* replacement policy, the list of the LRU cache, the latch of a frame, lock *)
(* tracing, and the encoding of keys. A behaviour is one of the part that    *)
(* focus names, and the others stand still.                                  *)
EXTENDS Accounts, ClientSessions, ReplyBuffer, MysqlPackets,
        FrameCache, FrameLatch, LockTrace, OrderedCode

VARIABLE focus
netVars == <<catVars, seVars, rbVars, encoded>>
libVars == <<cacheVars, lruVars, latchVars, traceVars, codeVars>>

\* Around every limit of the encoding of lengths, and in between.
MCLengths ==
    (0 .. 300) \cup (65400 .. 65535) \cup (131072 .. 131080)
    \cup (16777200 .. 16777215) \cup (33554432 .. 33554440)

\* numbers of every length around the bytes at which an encoding changes
MCMagnitudes ==
    {<<>>} \cup {<<b>> : b \in {1, 63, 64, 127, 128, 255}}
    \cup {[i \in 1 .. n |-> IF i = 1 THEN b ELSE f] : n \in {2, 6, 7, 8}, b \in {1, 63, 64, 127}, f \in {0, 255}}
MCStrings == UNION {[1 .. n -> {0, 1, 255}] : n \in 0 .. 2}

CatalogStill == CatalogInit /\ catFaults = {}
SessionStill == SessionInit /\ proto = "plain" /\ seFaults = {}
CacheStill == CacheInit /\ policy = "LRU"
CodeStill == CodeInit /\ coded = [kind |-> "uint64", value |-> <<>>]

MCInit ==
    /\ focus \in {"catalog", "session", "replies", "packets", "frames", "lru", "latch", "trace", "code"}
    /\ IF focus = "catalog" THEN CatalogInit ELSE CatalogStill
    /\ IF focus = "session" THEN SessionInit ELSE SessionStill
    /\ IF focus = "frames" THEN CacheInit ELSE CacheStill
    /\ IF focus = "code" THEN CodeInit ELSE CodeStill
    /\ ReplyInit /\ PacketsInit /\ LruInit /\ LatchInit /\ TraceInit

NetNext ==
    \/ focus = "catalog" /\ CatalogNext /\ UNCHANGED <<seVars, rbVars, encoded>>
    \/ focus = "session" /\ SessionNext /\ UNCHANGED <<catVars, rbVars, encoded>>
    \/ focus = "replies" /\ ReplyNext /\ UNCHANGED <<catVars, seVars, encoded>>
    \/ focus = "packets" /\ PacketsNext /\ UNCHANGED <<catVars, seVars, rbVars>>

LibNext ==
    \/ focus = "frames" /\ CacheNext /\ UNCHANGED <<lruVars, latchVars, traceVars, codeVars>>
    \/ focus = "lru" /\ LruNext /\ UNCHANGED <<cacheVars, latchVars, traceVars, codeVars>>
    \/ focus = "latch" /\ LatchNext /\ UNCHANGED <<cacheVars, lruVars, traceVars, codeVars>>
    \/ focus = "trace" /\ TraceNext /\ UNCHANGED <<cacheVars, lruVars, latchVars, codeVars>>
    \/ focus = "code" /\ CodeNext /\ UNCHANGED <<cacheVars, lruVars, latchVars, traceVars>>

MCNext ==
    /\ UNCHANGED focus
    /\ \/ NetNext /\ UNCHANGED libVars
       \/ LibNext /\ UNCHANGED netVars

MCSpec == MCInit /\ [][MCNext]_<<focus, netVars, libVars>>
=============================================================================
