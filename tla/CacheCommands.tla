---------------------------- MODULE CacheCommands ----------------------------
(***************************************************************************)
(* The cache commands of src/cache.go, and the four oldest of them in      *)
(* src/tricoredb.go: for each, what it does with the item it is about (a   *)
(* key, a member, a field, a lock), which of its arguments can be at       *)
(* fault, and how its answer is decoded.  Names are the Go methods without *)
(* their prefix Cache.                                                     *)
(***************************************************************************)
EXTENDS Answers

\* A CacheExpiry has no zero value: "keep" and "clear" are said outright.
ExpiryFaults == {"builder"}

\* Scores and their bounds are finite, for JSON has no other numbers.
ScoreFaults == {"score"}

\* Commands in a pipeline, transaction or script.
ScriptFaults == {"list", "builder", "value"}

CacheBasics ==
  Command({"Set", "SetTTL"}, "write", {}, Ack) \cup Command({"Get"}, "read", {}, CacheValue)
    \cup Command({"Delete"}, "remove", {}, Count)

CacheKeys ==
  Command({"Ping"}, "read", {}, Ack) \cup Command({"Exists"}, "read", {}, Count)
    \cup Command({"TTL"}, "read", {}, Field) \cup Command({"Keys"}, "read", {}, List)
    \cup Command({"ClearNamespace"}, "remove", {}, Count) \cup Command({"Incr"}, "write", {}, Report)
    \cup Command({"Expire"}, "trim", {}, Count) \cup Command({"Persist"}, "read", {}, Report)
    \cup Command({"SetNx"}, "try", {}, Count)

CacheLists ==
  Command({"LPush", "RPush"}, "write", {"list"}, Report)
    \cup Command({"LPop", "RPop"}, "take", {}, CacheValue)
    \cup Command({"LRange"}, "read", {}, List) \cup Command({"LLen"}, "read", {}, Count)
    \cup Command({"LIndex"}, "read", {}, CacheValue)

CacheSets ==
  Command({"SAdd"}, "write", {"list"}, Report) \cup Command({"SRem"}, "remove", {"list"}, Count)
    \cup Command({"SIsMember", "SCard"}, "read", {}, Count)
    \cup Command({"SMembers"}, "read", {}, List)

CacheHashes ==
  Command({"HSet", "HSetText"}, "write", {"list"}, Report)
    \cup Command({"HGet"}, "read", {}, CacheValue) \cup Command({"HDel"}, "remove", {"list"}, Count)
    \cup Command({"HGetAll"}, "read", {}, List) \cup Command({"HExists", "HLen"}, "read", {}, Count)

CacheStreams ==
  Command({"XAdd", "XAddText"}, "write", {"list"}, Report)
    \cup Command({"XLen"}, "read", {}, Count) \cup Command({"XRange", "XRead"}, "read", {}, List)
    \cup Command({"XDel"}, "remove", {"list"}, Count) \cup Command({"XTrim"}, "trim", {"length"}, Report)

CacheReadWrite ==
  Command({"MGet"}, "read", {}, CacheValues) \cup Command({"CompareAndSwap"}, "try", {}, Count)
    \cup Command({"GetFresh"}, "read", {}, Fresh)

CacheSortedSets ==
  Command({"ZAdd"}, "write", {"list"} \cup ScoreFaults, Report)
    \cup Command({"ZIncrBy"}, "write", ScoreFaults, Report)
    \cup Command({"ZScore", "ZRank"}, "read", {}, Field)
    \cup Command({"ZRange", "ZRangeWithScores"}, "read", {}, List)
    \cup Command({"ZRangeByScore", "ZRangeByScoreWithScores"}, "read", ScoreFaults, List)

CacheBits ==
  Command({"SetBit"}, "write", {}, Report) \cup Command({"GetBit"}, "read", {}, Report)

\* The wait is the server's; this side waits for the reply as for any other.
CacheBlockingPops == Command({"BLPop", "BRPop"}, "take", {}, Popped)

\* An operation among several can fail without an error of the command.
CacheScripts ==
  Command({"SRandMember", "SRandMembers"}, "read", {}, List)
    \cup Command({"Pipeline", "Transaction"}, "try", ScriptFaults, Results)
    \cup Command({"ScriptLoad"}, "read", ScriptFaults, Ack)
    \cup Command({"ScriptRun"}, "try", {}, Results)

CacheChannels ==
  Command({"Poll", "HotKeys"}, "read", {}, Report)
    \cup Command({"SetNamespaceLimit"}, "trim", {}, Report)

\* Warm leaves what is cached alone.
CacheManyAndIf ==
  Command({"MSet", "Append", "SetFresh"}, "write", {}, Report) \cup Command({"Warm"}, "try", {}, Report)
    \cup Command({"SetIf"}, "try", ExpiryFaults, Count)
    \cup Command({"GetDel"}, "take", {}, CacheValue) \cup Command({"GetSet"}, "swap", {}, CacheValue)
    \cup Command({"GetEx"}, "trim", ExpiryFaults, CacheValue)
    \cup Command({"ExpireAt"}, "trim", {}, Report) \cup Command({"SetMissing"}, "remove", {}, Ack)
    \cup Command({"ZRem"}, "remove", {"list"}, Count) \cup Command({"ZCard"}, "read", {}, Count)

CacheLocks ==
  Command({"LockAcquire"}, "try", {}, Count) \cup Command({"LockRenew"}, "read", {}, Report)
    \cup Command({"LockRelease"}, "trim", {}, Report)

CacheSketches ==
  Command({"BitCount", "BitPos", "PfCount"}, "read", {}, Report)
    \cup Command({"BitOp"}, "write", {}, Report) \cup Command({"PfAdd"}, "write", {"list"}, Report)
    \cup Command({"PfMerge"}, "write", {}, Ack)

\* Moved within one list, an element stays.
CacheMoves ==
  Command({"LMove"}, "trim", {}, CacheValue) \cup Command({"LTrim"}, "trim", {}, Report)
    \cup Command({"SUnion", "SInter", "SDiff"}, "read", {}, Report)

CacheAdmin ==
  Command({"HIncrBy"}, "write", {}, Report)
    \cup Command({"Publish", "GetNamespaceLimit", "Stats"}, "read", {}, Report)
    \cup Command({"FlushDatabase"}, "remove", {}, Count)
    \cup Command({"PurgeExpired"}, "trim", {}, Report)

CacheCatalog ==
  UNION {CacheBasics, CacheKeys, CacheLists, CacheSets, CacheHashes, CacheStreams, CacheReadWrite,
         CacheSortedSets, CacheBits, CacheBlockingPops, CacheScripts, CacheChannels, CacheManyAndIf,
         CacheLocks, CacheSketches, CacheMoves, CacheAdmin}
=============================================================================
