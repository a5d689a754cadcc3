------------------------------- MODULE Restful -------------------------------
(***************************************************************************)
(* hi-library: restful/HiRestful.kt, MethodParser.kt, HiRequest.kt,        *)
(* Scheduler.kt, and cache/HiStorage.kt.                                   *)
(*                                                                         *)
(* A call of an API method is parsed by the MethodParser of the method,    *)
(* which all its calls share, and turned into a request that keeps a       *)
(* reference to the parser's parameters.  enqueue() runs on the main       *)
(* thread, execute() on a thread of its own.  Reading and saving the cache *)
(* are jobs of HiExecutor; the key of the cache is computed by the first   *)
(* job that needs it.  Answers come back to the main thread as messages.   *)
(*                                                                         *)
(* All parameters of a call are one value.  HashMap iterators fail fast:   *)
(* a job that iterates over the parameters while they change throws.       *)
(***************************************************************************)
EXTENDS Integers, Sequences, FiniteSets

CONSTANTS
  Calls,
  Method,        \* the API method of each call
  Param,         \* the parameters given to each call
  Strategy,      \* its CacheStrategy
  Sync,          \* the calls made by execute()
  Serializable,  \* methods whose data ObjectOutputStream can write
  Overlap,       \* FALSE: the client waits for a call and its jobs to end
  OldEntries,    \* keys an earlier process may have left entries under
  Empty,         \* no parameters
  Failed,        \* the request failed
  NoData,        \* an answer without data, or data that cannot be read back
  Null

Methods == {Method[c] : c \in Calls}
Params == {Param[c] : c \in Calls}
Keys == Methods \X (Params \cup {Empty})
Key(c) == <<Method[c], Param[c]>>
Answer == [method : Methods, param : Params \cup {Empty}, ver : 0..Cardinality(Calls)]

VARIABLES
  parameters,  \* of the MethodParser of each method
  modCount,    \* how often they were changed
  callPc,      \* where the thread that makes the call is
  cacheKey,    \* HiRequest.cacheStrategyKey, Null for ""
  jobPc,       \* the cache jobs of each call
  jobSeen,     \* modCount when the job began to iterate over the parameters
  asked,       \* the parameters sent to the network
  reply,       \* what the network sent: Null, Failed, NoData or an Answer
  clock,       \* answers the server has given
  front,       \* the cache messages at the front of the main queue
  shown,       \* what the callback, or the caller of execute(), was given
  db,          \* the table of the cache
  crashed

parserVars == <<parameters, modCount>>
jobVars == <<jobPc, jobSeen, cacheKey>>
netVars == <<asked, reply, clock>>
mainVars == <<front, shown>>
vars == <<parserVars, callPc, jobVars, netVars, mainVars, db, crashed>>

\* The job that reads the cache for a call, and the one that saves its answer.
CacheJobs == Calls \X {"read", "save"}

Old(k) == [method |-> k[1], param |-> k[2], ver |-> 0]

Init ==
  /\ parameters = [m \in Methods |-> Empty] /\ modCount = [m \in Methods |-> 0]
  /\ callPc = [c \in Calls |-> "new"]
  /\ cacheKey = [c \in Calls |-> Null]
  /\ jobPc = [j \in CacheJobs |-> "none"] /\ jobSeen = [j \in CacheJobs |-> 0]
  /\ asked = [c \in Calls |-> Null]
  /\ reply = [c \in Calls |-> Null] /\ clock = 0
  /\ front = <<>> /\ shown = [c \in Calls |-> <<>>]
  /\ \E S \in SUBSET OldEntries :
       db = [k \in Keys |-> IF k \in S THEN Old(k) ELSE Null]
  /\ crashed = FALSE

Crash == crashed' = TRUE /\ UNCHANGED <<parserVars, callPc, jobVars, netVars, mainVars,
                                       db>>

\* The main thread is between two messages.
MainFree == ~crashed /\ \A c \in Calls \ Sync : callPc[c] \notin {"cleared", "parsed"}

-----------------------------------------------------------------------------
(* MethodParser.newRequest, on the thread of the call.  The arguments are  *)
(* parsed into the cleared map.                                            *)

\* Call o is over, or was not made.
Settled(o) ==
  /\ callPc[o] \in {"new", "done"}
  /\ \A k \in {"read", "save"} : jobPc[<<o, k>>] \in {"none", "done"}

clearParameters(c) ==
  /\ ~crashed /\ callPc[c] = "new" /\ (c \notin Sync => MainFree)
  /\ Overlap \/ \A o \in Calls : Settled(o)
  /\ parameters' = [parameters EXCEPT ![Method[c]] = Empty]
  /\ modCount' = [modCount EXCEPT ![Method[c]] = @ + 1]
  /\ callPc' = [callPc EXCEPT ![c] = "cleared"]
  /\ UNCHANGED <<jobVars, netVars, mainVars, db, crashed>>

putParameters(c) ==
  /\ ~crashed /\ callPc[c] = "cleared"
  /\ parameters' = [parameters EXCEPT ![Method[c]] = Param[c]]
  /\ modCount' = [modCount EXCEPT ![Method[c]] = @ + 1]
  /\ callPc' = [callPc EXCEPT ![c] = "parsed"]
  /\ UNCHANGED <<jobVars, netVars, mainVars, db, crashed>>

-----------------------------------------------------------------------------
(* Scheduler.ProxyCall                                                     *)

\* The request of call c holds the map of the parser itself.
requestParameters(c) == parameters[Method[c]]

ReadsCache(c) == Strategy[c] = "CACHE_FIRST"
\* Mutant: only NET_CACHE saves.
SavesCacheNet(c) == Strategy[c] = "NET_CACHE"

SavesCache(c) == Strategy[c] \in {"CACHE_FIRST", "NET_CACHE"}

Send(c) == asked' = [asked EXCEPT ![c] = requestParameters(c)]
StartJob(j) == jobPc' = [jobPc EXCEPT ![j] = "key"]

\* enqueue() hands the reading of the cache to the pool and the request, with
\* what the parser's parameters are now, to the network.
enqueue(c) ==
  /\ ~crashed /\ c \notin Sync /\ callPc[c] = "parsed"
  /\ callPc' = [callPc EXCEPT ![c] = "waiting"]
  /\ IF ReadsCache(c) THEN StartJob(<<c, "read">>) ELSE UNCHANGED jobPc
  /\ Send(c)
  /\ UNCHANGED <<parserVars, jobSeen, cacheKey, reply, clock, mainVars, db, crashed>>

\* execute() reads the cache first, on its own thread.
execute(c) ==
  /\ ~crashed /\ c \in Sync /\ callPc[c] = "parsed"
  /\ callPc' = [callPc EXCEPT ![c] = "waiting"]
  /\ IF ReadsCache(c) THEN StartJob(<<c, "read">>) /\ UNCHANGED asked
                      ELSE Send(c) /\ UNCHANGED jobPc
  /\ UNCHANGED <<parserVars, jobSeen, cacheKey, reply, clock, mainVars, db, crashed>>

\* HiRequest.getCacheKey in job j: the key is kept, else built from the
\* parameters, which the request shares with the parser.
getCacheKey(j) ==
  LET c == j[1] m == Method[c] IN
  /\ ~crashed /\ jobPc[j] = "key"
  /\ IF cacheKey[c] = Null /\ requestParameters(c) # Empty
     THEN /\ jobPc' = [jobPc EXCEPT ![j] = "iterate"]
          /\ jobSeen' = [jobSeen EXCEPT ![j] = modCount[m]]
          /\ UNCHANGED cacheKey
     ELSE /\ jobPc' = [jobPc EXCEPT ![j] = "storage"]
          /\ cacheKey' = [cacheKey EXCEPT ![c] = IF @ = Null THEN <<m, Empty>> ELSE @]
          /\ UNCHANGED jobSeen
  /\ UNCHANGED <<parserVars, callPc, netVars, mainVars, db, crashed>>

\* Mutant: the key is the url without the parameters.
iterateUrlOnly(j) ==
  LET c == j[1] m == Method[c] IN
  /\ ~crashed /\ jobPc[j] = "iterate"
  /\ jobPc' = [jobPc EXCEPT ![j] = "storage"]
  /\ cacheKey' = [cacheKey EXCEPT ![c] = <<m, Empty>>]
  /\ UNCHANGED <<parserVars, callPc, jobSeen, netVars, mainVars, db, crashed>>

iterate(j) ==
  LET c == j[1] m == Method[c] IN
  /\ ~crashed /\ jobPc[j] = "iterate"
  /\ IF modCount[m] # jobSeen[j]
     THEN Crash
     ELSE /\ jobPc' = [jobPc EXCEPT ![j] = "storage"]
          /\ cacheKey' = [cacheKey EXCEPT ![c] = <<m, requestParameters(c)>>]
          /\ UNCHANGED <<parserVars, callPc, jobSeen, netVars, mainVars, db, crashed>>

\* readCache: what was found goes to the front of the main queue, or is the
\* result of execute(), which asks the network only if nothing was found.
readCache(c) ==
  LET found == db[cacheKey[c]] IN
  /\ ~crashed /\ jobPc[<<c, "read">>] = "storage"
  /\ jobPc' = [jobPc EXCEPT ![<<c, "read">>] = "done"]
  /\ \/ /\ found \notin {Null, NoData} /\ c \notin Sync
        /\ front' = <<[call |-> c, data |-> found]>> \o front
        /\ UNCHANGED <<callPc, asked, shown>>
     \/ /\ found \notin {Null, NoData} /\ c \in Sync
        /\ callPc' = [callPc EXCEPT ![c] = "done"]
        /\ shown' = [shown EXCEPT ![c] = Append(@, [from |-> "cache", data |-> found])]
        /\ UNCHANGED <<asked, front>>
     \/ /\ found \in {Null, NoData} /\ c \notin Sync
        /\ UNCHANGED <<callPc, asked, mainVars>>
     \/ /\ found \in {Null, NoData} /\ c \in Sync
        /\ Send(c)
        /\ UNCHANGED <<callPc, mainVars>>
  /\ UNCHANGED <<parserVars, jobSeen, cacheKey, reply, clock, db, crashed>>

\* HiStorage.saveCache: data that cannot be written leaves an empty array.
saveCache(c) ==
  /\ ~crashed /\ jobPc[<<c, "save">>] = "storage"
  /\ jobPc' = [jobPc EXCEPT ![<<c, "save">>] = "done"]
  /\ db' = [db EXCEPT ![cacheKey[c]] =
              IF Method[c] \in Serializable THEN reply[c] ELSE NoData]
  /\ UNCHANGED <<parserVars, callPc, jobSeen, cacheKey, netVars, mainVars, crashed>>

\* The server and the network.
respond(c) ==
  /\ ~crashed /\ asked[c] # Null /\ reply[c] = Null
  /\ \/ reply' = [reply EXCEPT ![c] = Failed] /\ UNCHANGED clock
     \/ reply' = [reply EXCEPT ![c] = NoData] /\ UNCHANGED clock
     \/ /\ reply' = [reply EXCEPT ![c] =
                       [method |-> Method[c], param |-> asked[c], ver |-> clock + 1]]
        /\ clock' = clock + 1
  /\ UNCHANGED <<parserVars, callPc, jobVars, asked, mainVars, db, crashed>>

\* onSuccess or onFailed of the network: a message of the main thread, which
\* those at the front precede, or the return of delegate.execute().  An answer
\* with data is saved before the callback sees it.
onResponse(c) ==
  /\ reply[c] # Null /\ callPc[c] = "waiting"
  /\ ~crashed /\ (c \notin Sync => MainFree /\ front = <<>>)
  /\ callPc' = [callPc EXCEPT ![c] = "done"]
  /\ IF reply[c] \notin {Failed, NoData} /\ SavesCache(c)
     THEN StartJob(<<c, "save">>) ELSE UNCHANGED jobPc
  /\ shown' = [shown EXCEPT ![c] = Append(@, [from |-> "net", data |-> reply[c]])]
  /\ UNCHANGED <<parserVars, jobSeen, cacheKey, netVars, front, db, crashed>>

\* The message sendAtFrontOfQueue left.
onCache ==
  /\ MainFree /\ front # <<>>
  /\ front' = Tail(front)
  /\ shown' = [shown EXCEPT ![front[1].call] =
                 Append(@, [from |-> "cache", data |-> front[1].data])]
  /\ UNCHANGED <<parserVars, callPc, jobVars, netVars, db, crashed>>

-----------------------------------------------------------------------------
Step(c) ==
  \/ putParameters(c) \/ enqueue(c) \/ execute(c)
  \/ getCacheKey(<<c, "read">>) \/ iterate(<<c, "read">>) \/ readCache(c)
  \/ getCacheKey(<<c, "save">>) \/ iterate(<<c, "save">>) \/ saveCache(c)
  \/ respond(c) \/ onResponse(c)

Next == onCache \/ \E c \in Calls : clearParameters(c) \/ Step(c)

Spec == Init /\ [][Next]_vars

\* A call that was made goes on: threads and jobs run, the network answers or
\* fails, the main thread handles its messages.
Fairness ==
  /\ WF_vars(onCache)
  /\ \A c \in Calls :
       /\ WF_vars(putParameters(c)) /\ WF_vars(enqueue(c)) /\ WF_vars(execute(c))
       /\ WF_vars(getCacheKey(<<c, "read">>) \/ iterate(<<c, "read">>) \/ readCache(c))
       /\ WF_vars(getCacheKey(<<c, "save">>) \/ iterate(<<c, "save">>) \/ saveCache(c))
       /\ WF_vars(respond(c)) /\ WF_vars(onResponse(c))
FairSpec == Spec /\ Fairness

-----------------------------------------------------------------------------
(* Properties                                                              *)

IsData(x) == x \notin {Null, NoData, Failed}

\* Types: what each variable may hold; a cache message carries data.
TypeOK ==
  /\ parameters \in [Methods -> Params \cup {Empty}] /\ modCount \in [Methods -> Nat]
  /\ callPc \in [Calls -> {"new", "cleared", "parsed", "waiting", "done"}]
  /\ cacheKey \in [Calls -> Keys \cup {Null}]
  /\ jobPc \in [CacheJobs -> {"none", "key", "iterate", "storage", "done"}]
  /\ jobSeen \in [CacheJobs -> Nat]
  /\ asked \in [Calls -> Params \cup {Empty, Null}]
  /\ \A c \in Calls : IsData(reply[c]) => reply[c] \in Answer
  /\ clock \in 0..Cardinality(Calls)
  /\ \A i \in DOMAIN front : front[i].call \in Calls \ Sync /\ front[i].data \in Answer
  /\ \A c \in Calls : Len(shown[c]) <= 2
  /\ \A k \in Keys : IsData(db[k]) => db[k] \in Answer
  /\ crashed \in BOOLEAN

\* What is cached under the url and the parameters of a request answers such a
\* request (Scheduler.kt:89: the key is the request's url and parameters).
EntryBelongsToKey ==
  \A k \in Keys : IsData(db[k]) => <<db[k].method, db[k].param>> = k

\* The data a callback or the caller of execute() gets, from the cache or from
\* the network, answers the call it made with its parameters.
ShownIsOwn ==
  \A c \in Calls : \A i \in DOMAIN shown[c] :
    IsData(shown[c][i].data) =>
      <<shown[c][i].data.method, shown[c][i].data.param>> = Key(c)

\* What is cached under a key and what is shown to a caller is the answer to its
\* own request.
AnswersKeptApart == EntryBelongsToKey /\ ShownIsOwn

\* Every call that is made gets its final answer: enqueue() the one of the
\* network, whatever the cache did, execute() that of either.
CallAnswered ==
  \A c \in Calls :
    callPc[c] = "cleared" ~>
      (crashed \/ (callPc[c] = "done" /\ (c \in Sync \/ reply[c] # Null)))

\* Data the network gave a call that saves is in the cache under its own key in
\* the end, or newer data is.
AnswerCached ==
  \A c \in Calls :
    (IsData(reply[c]) /\ Strategy[c] # "NET_ONLY" /\ Method[c] \in Serializable) ~>
      (crashed \/ (IsData(reply[c]) /\ IsData(db[Key(c)]) /\ db[Key(c)].ver >= reply[c].ver))

\* With CACHE_FIRST the cache is read first, then the interface
\* (CacheStrategy.kt:11): the callback never gets the cached data after the
\* answer of the network.
CacheBeforeNet ==
  \A c \in Calls : \A i, j \in DOMAIN shown[c] :
    shown[c][i].from = "net" /\ shown[c][j].from = "cache" => j < i

\* A parser can be reused by many calls (HiRestful.kt:10): calls of one method
\* never end the process.
NeverCrashes == ~crashed

\* The cache is updated by a successful request (CacheStrategy.kt:11, 17): an
\* entry is never replaced by an older answer.
CacheNeverOlder ==
  [][\A k \in Keys : IsData(db[k]) /\ IsData(db'[k]) => db'[k].ver >= db[k].ver]_vars

\* CACHE_FIRST reads the cache, then the interface, and updates the cache
\* (CacheStrategy.kt:11), for execute() as for enqueue().
CacheFirstAsksToo ==
  \A c \in Calls : callPc[c] = "done" => asked[c] # Null
====
