---------------------------- MODULE RestfulProofs ----------------------------
(***************************************************************************)
(* Proofs about Restful, for every set of calls, methods, parameters,      *)
(* strategies and old entries.  The requests of a method share one map of  *)
(* parameters, so answers are kept apart only while no two calls of one    *)
(* method are under way at once.                                           *)
(***************************************************************************)
EXTENDS Restful, TLAPS

\* The client waits for a call and its jobs to end, or calls every method once.
MethodsApart == Overlap => \A c, d \in Calls : Method[c] = Method[d] => c = d

\* What the network, the cache and the callbacks hand on.
Data ==
  [method : Methods, param : Params \cup {Empty}, ver : Nat] \cup {Null, NoData, Failed}
Shown == [from : {"net", "cache"}, data : Data]
Messages == [call : Calls, data : Data]

\* What each variable can be.
Types ==
  /\ parameters \in [Methods -> Params \cup {Empty}]
  /\ callPc \in [Calls -> {"new", "cleared", "parsed", "waiting", "done"}]
  /\ jobPc \in [CacheJobs -> {"none", "key", "iterate", "storage", "done"}]
  /\ cacheKey \in [Calls -> Keys \cup {Null}]
  /\ asked \in [Calls -> Params \cup {Empty, Null}]
  /\ reply \in [Calls -> Data] /\ clock \in Nat /\ db \in [Keys -> Data]
  /\ front \in Seq(Messages) /\ shown \in [Calls -> Seq(Shown)]

\* A request or a job of call c may still read the parameters it shares.
Busy(c) ==
  \/ callPc[c] \in {"parsed", "waiting"}
  \/ \E k \in {"read", "save"} : jobPc[<<c, k>>] \notin {"none", "done"}

\* Jobs come after the request.  One call of a method at most is under way, and
\* the parameters of its method's parser are its own.
CallInv ==
  /\ \A c \in Calls : callPc[c] \in {"new", "cleared", "parsed"} =>
       \A k \in {"read", "save"} : jobPc[<<c, k>>] = "none"
  /\ \A c, d \in Calls :
       Method[c] = Method[d] /\ ~Settled(c) /\ ~Settled(d) => c = d
  /\ \A c \in Calls : Busy(c) => parameters[Method[c]] = Param[c]

\* A key that was computed is that of the call, and is there when it is used.
KeyInv ==
  \A c \in Calls :
    /\ cacheKey[c] \in {Null, Key(c)}
    /\ \A k \in {"read", "save"} : jobPc[<<c, k>>] = "storage" => cacheKey[c] = Key(c)

\* x answers a request with key k, or is no data.
Fits(x, k) == IsData(x) => <<x.method, x.param>> = k

\* Whatever is on its way to the cache or to a callback fits.
DataInv ==
  /\ \A c \in Calls : asked[c] \in {Null, Param[c]} /\ Fits(reply[c], Key(c))
  /\ \A k \in Keys : Fits(db[k], k)
  /\ \A i \in DOMAIN front : Fits(front[i].data, Key(front[i].call))
  /\ \A c \in Calls : \A i \in DOMAIN shown[c] : Fits(shown[c][i].data, Key(c))

\* The inductive invariant.
IInv == Types /\ CallInv /\ KeyInv /\ DataInv

-----------------------------------------------------------------------------
\* The methods, parameters, keys and jobs of the calls.
LEMMA CallFacts ==
  ASSUME NEW c \in Calls
  PROVE  /\ Method[c] \in Methods /\ Param[c] \in Params /\ Key(c) \in Keys
         /\ <<Method[c], Empty>> \in Keys
         /\ \A k \in {"read", "save"} : <<c, k>> \in CacheJobs /\ <<c, k>>[1] = c
BY Zenon DEF Methods, Params, Keys, Key, CacheJobs

\* A step is one of onCache, of a call's thread, of one of its jobs or of the
\* network.
LEMMA Steps ==
  ASSUME [Next]_vars
  PROVE  \/ UNCHANGED vars \/ onCache
         \/ \E c \in Calls :
              \/ clearParameters(c) \/ putParameters(c) \/ enqueue(c) \/ execute(c)
              \/ \E k \in {"read", "save"} : getCacheKey(<<c, k>>) \/ iterate(<<c, k>>)
              \/ readCache(c) \/ saveCache(c) \/ respond(c) \/ onResponse(c)
BY Zenon DEF Next, Step

\* What is appended to the data a callback got.
LEMMA AppendFacts ==
  ASSUME NEW S, NEW s \in Seq(S), NEW e \in S
  PROVE  /\ Append(s, e) \in Seq(S)
         /\ \A i \in DOMAIN Append(s, e) :
              Append(s, e)[i] = e \/ (i \in DOMAIN s /\ Append(s, e)[i] = s[i])
BY SMT

\* What is sent to the front of the main queue.
LEMMA FrontFacts ==
  ASSUME NEW S, NEW s \in Seq(S), NEW e \in S
  PROVE  /\ <<e>> \o s \in Seq(S)
         /\ \A i \in DOMAIN (<<e>> \o s) :
              (<<e>> \o s)[i] = e \/ \E n \in DOMAIN s : (<<e>> \o s)[i] = s[n]
<1>1. \A i \in DOMAIN (<<e>> \o s) :
        (<<e>> \o s)[i] = e \/ (i - 1 \in DOMAIN s /\ (<<e>> \o s)[i] = s[i - 1])
  BY SMT
<1>2. <<e>> \o s \in Seq(S)
  BY SMT
<1>. QED
  BY Zenon, <1>1, <1>2

\* What the main thread takes from its queue, and leaves there.
LEMMA TailFacts ==
  ASSUME NEW S, NEW s \in Seq(S), s # <<>>
  PROVE  /\ Tail(s) \in Seq(S) /\ 1 \in DOMAIN s /\ s[1] \in S
         /\ \A i \in DOMAIN Tail(s) : \E n \in DOMAIN s : Tail(s)[i] = s[n]
<1>1. \A i \in DOMAIN Tail(s) : i + 1 \in DOMAIN s /\ Tail(s)[i] = s[i + 1]
  BY SMT
<1>2. Tail(s) \in Seq(S) /\ 1 \in DOMAIN s /\ s[1] \in S
  BY SMT
<1>. QED
  BY Zenon, <1>1, <1>2

\* Every step keeps the types.
LEMMA TypesStep ==
  ASSUME Types, KeyInv, [Next]_vars
  PROVE  Types'
<1> USE Zenon
<1> USE DEF parserVars, jobVars, netVars, mainVars
<1>1. CASE UNCHANGED vars
  BY <1>1 DEF vars, Types
<1>2. CASE onCache
  <2>1. front' \in Seq(Messages) /\ front[1] \in Messages
    BY <1>2, TailFacts DEF Types, onCache
  <2>2. [from |-> "cache", data |-> front[1].data] \in Shown /\ front[1].call \in Calls
    BY <2>1 DEF Messages, Shown
  <2>3. Append(shown[front[1].call], [from |-> "cache", data |-> front[1].data]) \in Seq(Shown)
    BY <2>2, AppendFacts DEF Types
  <2>4. shown' \in [Calls -> Seq(Shown)]
    BY <1>2, <2>2, <2>3 DEF Types, onCache
  <2>. QED
    BY <1>2, <2>1, <2>4 DEF Types, onCache
<1>3. ASSUME NEW c \in Calls, clearParameters(c) \/ putParameters(c) PROVE Types'
  <2>1. Method[c] \in Methods /\ Param[c] \in Params
    BY CallFacts
  <2>2. parameters' \in [Methods -> Params \cup {Empty}]
    BY <1>3, <2>1 DEF Types, clearParameters, putParameters
  <2>. QED
    BY <1>3, <2>2 DEF Types, clearParameters, putParameters
<1>4. ASSUME NEW c \in Calls, enqueue(c) \/ execute(c) PROVE Types'
  <2>1. requestParameters(c) \in Params \cup {Empty, Null}
    BY CallFacts DEF Types, requestParameters
  <2>2. jobPc' \in [CacheJobs -> {"none", "key", "iterate", "storage", "done"}]
    BY <1>4, CallFacts DEF Types, enqueue, execute, StartJob
  <2>3. asked' \in [Calls -> Params \cup {Empty, Null}]
    BY <1>4, <2>1 DEF Types, enqueue, execute, Send
  <2>. QED
    BY <1>4, <2>2, <2>3 DEF Types, enqueue, execute
<1>5. ASSUME NEW c \in Calls, NEW k \in {"read", "save"},
             getCacheKey(<<c, k>>) \/ iterate(<<c, k>>)
      PROVE  Types'
  <2>1. /\ <<c, k>> \in CacheJobs /\ <<c, k>>[1] = c /\ <<Method[c], Empty>> \in Keys
        /\ Method[c] \in Methods
    BY CallFacts
  <2>2. <<Method[c], requestParameters(c)>> \in Keys
    BY <2>1 DEF Keys, Types, requestParameters
  <2>3. cacheKey' \in [Calls -> Keys \cup {Null}]
    BY <1>5, <2>1, <2>2 DEF getCacheKey, iterate, Crash, Types
  <2>4. jobPc' \in [CacheJobs -> {"none", "key", "iterate", "storage", "done"}]
    BY <1>5, <2>1 DEF getCacheKey, iterate, Crash, Types
  <2>. QED
    BY <1>5, <2>3, <2>4 DEF Types, getCacheKey, iterate, Crash
<1>6. ASSUME NEW c \in Calls, readCache(c) PROVE Types'
  <2>1. <<c, "read">> \in CacheJobs /\ requestParameters(c) \in Params \cup {Empty, Null}
    BY CallFacts DEF Types, requestParameters
  <2>2. db[cacheKey[c]] \in Data
    BY <1>6, CallFacts DEF readCache, KeyInv, Types
  <2>3. /\ [call |-> c, data |-> db[cacheKey[c]]] \in Messages
        /\ [from |-> "cache", data |-> db[cacheKey[c]]] \in Shown
    BY <2>2 DEF Messages, Shown
  <2>4. front' \in Seq(Messages)
    <3>1. <<[call |-> c, data |-> db[cacheKey[c]]]>> \o front \in Seq(Messages)
      BY <2>3, FrontFacts DEF Types
    <3>. QED
      BY <1>6, <3>1 DEF Types, readCache
  <2>5. shown' \in [Calls -> Seq(Shown)]
    <3>1. Append(shown[c], [from |-> "cache", data |-> db[cacheKey[c]]]) \in Seq(Shown)
      BY <2>3, AppendFacts DEF Types
    <3>. QED
      BY <1>6, <3>1 DEF Types, readCache
  <2>6. /\ asked' \in [Calls -> Params \cup {Empty, Null}]
        /\ callPc' \in [Calls -> {"new", "cleared", "parsed", "waiting", "done"}]
    BY <1>6, <2>1 DEF Types, readCache, Send
  <2>7. jobPc' \in [CacheJobs -> {"none", "key", "iterate", "storage", "done"}]
    BY <1>6, <2>1 DEF Types, readCache
  <2>. QED
    BY <1>6, <2>4, <2>5, <2>6, <2>7 DEF Types, readCache
<1>7. ASSUME NEW c \in Calls, saveCache(c) PROVE Types'
  <2>1. <<c, "save">> \in CacheJobs /\ reply[c] \in Data /\ NoData \in Data
    BY CallFacts DEF Types, Data
  <2>. QED
    BY <1>7, <2>1 DEF Types, saveCache
<1>8. ASSUME NEW c \in Calls, respond(c) PROVE Types'
  <2>1. clock + 1 \in Nat
    BY SMT DEF Types
  <2>2. asked[c] # Null => [method |-> Method[c], param |-> asked[c], ver |-> clock + 1] \in Data
    BY ZenonT(60), <2>1, CallFacts DEF Types, Data
  <2>3. Failed \in Data /\ NoData \in Data
    BY DEF Data
  <2>. QED
    BY ZenonT(60), <1>8, <2>1, <2>2, <2>3 DEF Types, respond
<1>9. ASSUME NEW c \in Calls, onResponse(c) PROVE Types'
  <2>1. <<c, "save">> \in CacheJobs /\ [from |-> "net", data |-> reply[c]] \in Shown
    BY CallFacts DEF Types, Shown
  <2>2. Append(shown[c], [from |-> "net", data |-> reply[c]]) \in Seq(Shown)
    BY <2>1, AppendFacts DEF Types
  <2>3. shown' \in [Calls -> Seq(Shown)]
    BY <1>9, <2>2 DEF Types, onResponse
  <2>. QED
    BY <1>9, <2>1, <2>3 DEF Types, onResponse, StartJob
<1>. QED
  BY Steps, <1>1, <1>2, <1>3, <1>4, <1>5, <1>6, <1>7, <1>8, <1>9

\* What a step does to the places of the calls and of their jobs: a job begins
\* only for a call that waits, and only clearParameters begins a call.
LEMMA PlacesMove ==
  ASSUME Types, KeyInv, [Next]_vars, NEW c \in Calls
  PROVE  /\ \/ callPc'[c] = callPc[c]
            \/ callPc[c] = "new" /\ callPc'[c] = "cleared" /\ clearParameters(c)
            \/ callPc[c] = "cleared" /\ callPc'[c] = "parsed" /\ putParameters(c)
            \/ callPc[c] = "parsed" /\ callPc'[c] = "waiting"
            \/ callPc[c] = "waiting" /\ callPc'[c] = "done"
            \/ jobPc[<<c, "read">>] = "storage" /\ callPc'[c] = "done"
         /\ \A k \in {"read", "save"} :
              \/ jobPc'[<<c, k>>] = jobPc[<<c, k>>]
              \/ /\ callPc[c] \in {"parsed", "waiting"} /\ callPc'[c] \in {"waiting", "done"}
                 /\ jobPc'[<<c, k>>] = "key"
              \/ /\ jobPc[<<c, k>>] \in {"key", "iterate", "storage"}
                 /\ jobPc'[<<c, k>>] \in {"iterate", "storage", "done"}
<1> USE Zenon
<1> USE DEF parserVars, jobVars, netVars, mainVars
<1>type. /\ callPc \in [Calls -> {"new", "cleared", "parsed", "waiting", "done"}]
         /\ jobPc \in [CacheJobs -> {"none", "key", "iterate", "storage", "done"}]
  BY DEF Types
<1>job. ASSUME NEW d \in Calls, NEW k \in {"read", "save"}, NEW l \in {"read", "save"}
        PROVE  <<d, l>> \in CacheJobs /\ (<<c, k>> = <<d, l>> => c = d /\ k = l)
  BY CallFacts
<1>1. CASE UNCHANGED vars
  BY <1>1 DEF vars
<1>2. CASE onCache
  BY <1>2 DEF onCache
<1>3. ASSUME NEW d \in Calls, clearParameters(d) \/ putParameters(d)
      PROVE  /\ UNCHANGED jobPc
             /\ \/ callPc'[c] = callPc[c]
                \/ callPc[c] = "new" /\ callPc'[c] = "cleared" /\ clearParameters(c)
                \/ callPc[c] = "cleared" /\ callPc'[c] = "parsed" /\ putParameters(c)
  BY <1>3, <1>type DEF clearParameters, putParameters
<1>4. ASSUME NEW d \in Calls, enqueue(d) \/ execute(d)
      PROVE  /\ callPc[d] = "parsed" /\ callPc' = [callPc EXCEPT ![d] = "waiting"]
             /\ UNCHANGED jobPc \/ jobPc' = [jobPc EXCEPT ![<<d, "read">>] = "key"]
  BY <1>4 DEF enqueue, execute, StartJob
<1>5. ASSUME NEW d \in Calls, NEW l \in {"read", "save"},
             getCacheKey(<<d, l>>) \/ iterate(<<d, l>>)
      PROVE  /\ UNCHANGED callPc /\ jobPc[<<d, l>>] \in {"key", "iterate"}
             /\ \/ UNCHANGED jobPc \/ jobPc' = [jobPc EXCEPT ![<<d, l>>] = "iterate"]
                \/ jobPc' = [jobPc EXCEPT ![<<d, l>>] = "storage"]
  BY <1>5 DEF getCacheKey, iterate, Crash
<1>6. ASSUME NEW d \in Calls, readCache(d) \/ saveCache(d)
      PROVE  \/ /\ jobPc[<<d, "read">>] = "storage"
                /\ jobPc' = [jobPc EXCEPT ![<<d, "read">>] = "done"]
                /\ UNCHANGED callPc \/ callPc' = [callPc EXCEPT ![d] = "done"]
             \/ /\ jobPc[<<d, "save">>] = "storage" /\ UNCHANGED callPc
                /\ jobPc' = [jobPc EXCEPT ![<<d, "save">>] = "done"]
  BY <1>6 DEF readCache, saveCache
<1>7. ASSUME NEW d \in Calls, onResponse(d)
      PROVE  /\ callPc[d] = "waiting" /\ callPc' = [callPc EXCEPT ![d] = "done"]
             /\ UNCHANGED jobPc \/ jobPc' = [jobPc EXCEPT ![<<d, "save">>] = "key"]
  BY <1>7 DEF onResponse, StartJob
<1>8. ASSUME NEW d \in Calls, respond(d) PROVE UNCHANGED <<callPc, jobPc>>
  BY <1>8 DEF respond
<1>9. PICK d \in Calls :
        \/ UNCHANGED <<callPc, jobPc>> \/ clearParameters(d) \/ putParameters(d)
        \/ enqueue(d) \/ execute(d)
        \/ \E k \in {"read", "save"} : getCacheKey(<<d, k>>) \/ iterate(<<d, k>>)
        \/ readCache(d) \/ saveCache(d) \/ onResponse(d)
  BY Steps, <1>8 DEF vars, onCache
<1>10. \A l \in {"read", "save"} : \A p :
         jobPc' = [jobPc EXCEPT ![<<d, l>>] = p] =>
           \A k \in {"read", "save"} :
             IF d = c /\ k = l THEN jobPc'[<<c, k>>] = p
             ELSE jobPc'[<<c, k>>] = jobPc[<<c, k>>]
  BY <1>type, <1>job
<1>11. \A p : callPc' = [callPc EXCEPT ![d] = p] =>
                 callPc'[c] = IF d = c THEN p ELSE callPc[c]
  BY <1>type
<1>12. CASE UNCHANGED <<callPc, jobPc>>
  BY <1>12
<1>13. CASE clearParameters(d) \/ putParameters(d)
  BY <1>13, <1>3
<1>14. CASE enqueue(d) \/ execute(d)
  BY <1>14, <1>4, <1>10, <1>11
<1>15. CASE \E k \in {"read", "save"} : getCacheKey(<<d, k>>) \/ iterate(<<d, k>>)
  <2>1. PICK l \in {"read", "save"} : getCacheKey(<<d, l>>) \/ iterate(<<d, l>>)
    BY <1>15
  <2>2. /\ UNCHANGED callPc /\ jobPc[<<d, l>>] \in {"key", "iterate"}
        /\ \/ UNCHANGED jobPc
           \/ \E p \in {"iterate", "storage"} : jobPc' = [jobPc EXCEPT ![<<d, l>>] = p]
    BY <1>5, <2>1
  <2>. QED
    BY <1>10, <2>2
<1>16. CASE readCache(d) \/ saveCache(d)
  BY <1>16, <1>6, <1>10, <1>11
<1>17. CASE onResponse(d)
  BY <1>17, <1>7, <1>10, <1>11
<1>. QED
  BY <1>9, <1>12, <1>13, <1>14, <1>15, <1>16, <1>17

\* A call that does not wait begins no job.
LEMMA JobsRest ==
  ASSUME Types, KeyInv, [Next]_vars, NEW c \in Calls, NEW k \in {"read", "save"},
         jobPc[<<c, k>>] \in {"none", "done"}, callPc[c] \notin {"parsed", "waiting"}
  PROVE  jobPc'[<<c, k>>] = jobPc[<<c, k>>]
<1>1. \/ jobPc'[<<c, k>>] = jobPc[<<c, k>>]
      \/ callPc[c] \in {"parsed", "waiting"}
      \/ jobPc[<<c, k>>] \in {"key", "iterate", "storage"}
  BY ZenonT(60), PlacesMove
<1>. QED
  BY Zenon, <1>1

\* newRequest alone changes the parameters of its method.
LEMMA ParametersMove ==
  ASSUME Types, [Next]_vars
  PROVE  \/ UNCHANGED parameters
         \/ \E c \in Calls :
              \/ clearParameters(c) /\ parameters' = [parameters EXCEPT ![Method[c]] = Empty]
              \/ putParameters(c) /\ parameters' = [parameters EXCEPT ![Method[c]] = Param[c]]
<1> USE Zenon
<1> USE DEF parserVars, jobVars, netVars, mainVars
<1>1. ASSUME NEW c \in Calls, clearParameters(c)
      PROVE  parameters' = [parameters EXCEPT ![Method[c]] = Empty]
  BY <1>1 DEF clearParameters
<1>2. ASSUME NEW c \in Calls, putParameters(c)
      PROVE  parameters' = [parameters EXCEPT ![Method[c]] = Param[c]]
  BY <1>2 DEF putParameters
<1>3. ASSUME NEW c \in Calls, NEW k \in {"read", "save"},
             getCacheKey(<<c, k>>) \/ iterate(<<c, k>>)
      PROVE  UNCHANGED parameters
  BY <1>3 DEF getCacheKey, iterate, Crash
<1>4. ASSUME NEW c \in Calls,
             enqueue(c) \/ execute(c) \/ readCache(c) \/ saveCache(c) \/ respond(c)
               \/ onResponse(c)
      PROVE  UNCHANGED parameters
  BY <1>4 DEF enqueue, execute, readCache, saveCache, respond, onResponse
<1>5. onCache \/ UNCHANGED vars => UNCHANGED parameters
  BY DEF onCache, vars
<1>. QED
  BY Steps, <1>1, <1>2, <1>3, <1>4, <1>5

\* Calls of one method do not meet, and each finds its own parameters.
LEMMA CallStep ==
  ASSUME MethodsApart, Types, KeyInv, CallInv, [Next]_vars
  PROVE  CallInv'
<1> USE Zenon
<1>settled. ASSUME NEW c \in Calls, ~Settled(c)' PROVE ~Settled(c) \/ clearParameters(c)
  <2>2. Settled(c) <=> callPc[c] \in {"new", "done"}
                         /\ \A k \in {"read", "save"} : jobPc[<<c, k>>] \in {"none", "done"}
    BY DEF Settled
  <2>3. Settled(c)' <=> callPc'[c] \in {"new", "done"}
                          /\ \A k \in {"read", "save"} : jobPc'[<<c, k>>] \in {"none", "done"}
    BY DEF Settled
  <2>4. CASE Settled(c)
    <3>1. ASSUME NEW k \in {"read", "save"} PROVE jobPc'[<<c, k>>] = jobPc[<<c, k>>]
      <4>1. jobPc[<<c, k>>] \in {"none", "done"} /\ callPc[c] \notin {"parsed", "waiting"}
        BY <2>2, <2>4
      <4>. QED
        BY <4>1, JobsRest
    <3>2. callPc'[c] \notin {"new", "done"}
      BY <1>settled, <2>2, <2>3, <2>4, <3>1
    <3>. QED
      BY <2>2, <2>4, <3>2, PlacesMove
  <2>. QED
    BY <2>4
<1>busy. ASSUME NEW c \in Calls, Busy(c)' PROVE Busy(c) \/ putParameters(c)
  <2>1. CASE ~Busy(c)
    <3>1. ASSUME NEW k \in {"read", "save"} PROVE jobPc'[<<c, k>>] = jobPc[<<c, k>>]
      <4>1. jobPc[<<c, k>>] \in {"none", "done"} /\ callPc[c] \notin {"parsed", "waiting"}
        BY <2>1 DEF Busy
      <4>. QED
        BY <4>1, JobsRest
    <3>2. callPc'[c] \in {"parsed", "waiting"}
      BY <1>busy, <2>1, <3>1 DEF Busy
    <3>. QED
      BY <2>1, <3>2, PlacesMove DEF Busy
  <2>. QED
    BY <2>1
<1>unsettled. ASSUME NEW c \in Calls, Busy(c) \/ putParameters(c) PROVE ~Settled(c)
  BY <1>unsettled DEF Busy, Settled, putParameters
<1>1. ASSUME NEW c \in Calls, callPc'[c] \in {"new", "cleared", "parsed"},
             NEW k \in {"read", "save"}
      PROVE  jobPc'[<<c, k>>] = "none"
  <2>1. callPc[c] \in {"new", "cleared", "parsed"}
    BY <1>1, PlacesMove
  <2>2. jobPc[<<c, k>>] = "none"
    BY <2>1 DEF CallInv
  <2>. QED
    BY ZenonT(60), <1>1, <2>2, PlacesMove
<1>2. ASSUME NEW c \in Calls, NEW d \in Calls, Method[c] = Method[d], ~Settled(c)', ~Settled(d)'
      PROVE  c = d
  <2>1. CASE Overlap
    BY <1>2, <2>1 DEF MethodsApart
  <2>2. CASE ~Overlap
    <3>1. ASSUME NEW e \in Calls, clearParameters(e)
          PROVE  \A o \in Calls : Settled(o) /\ (clearParameters(o) => o = e)
      <4>1. \A o \in Calls : Settled(o)
        BY <2>2, <3>1 DEF clearParameters
      <4>2. ASSUME NEW o \in Calls, clearParameters(o) PROVE o = e
        <5>1. callPc'[o] = "cleared" /\ callPc[o] = "new"
          BY <4>2 DEF clearParameters, Types
        <5>2. callPc' = [callPc EXCEPT ![e] = "cleared"]
          BY <3>1 DEF clearParameters
        <5>. QED
          BY <5>1, <5>2 DEF Types
      <4>. QED
        BY <4>1, <4>2
    <3>2. CASE clearParameters(c) \/ clearParameters(d)
      BY <1>2, <3>1, <3>2, <1>settled
    <3>3. CASE ~clearParameters(c) /\ ~clearParameters(d)
      BY <1>2, <3>3, <1>settled DEF CallInv
    <3>. QED
      BY <3>2, <3>3
  <2>. QED
    BY <2>1, <2>2
<1>3. ASSUME NEW c \in Calls, Busy(c)' PROVE parameters'[Method[c]] = Param[c]
  <2>0. /\ Busy(c) \/ putParameters(c)
        /\ parameters \in [Methods -> Params \cup {Empty}]
        /\ \A d \in Calls : Method[d] \in Methods
    BY <1>3, <1>busy, <1>unsettled, CallFacts DEF Types
  <2>1. CASE UNCHANGED parameters
    <3>1. ~putParameters(c) \/ parameters' = [parameters EXCEPT ![Method[c]] = Param[c]]
      BY DEF putParameters
    <3>. QED
      BY <2>0, <2>1, <3>1 DEF CallInv
  <2>2. ASSUME NEW d \in Calls, putParameters(d),
               parameters' = [parameters EXCEPT ![Method[d]] = Param[d]]
        PROVE  parameters'[Method[c]] = Param[c]
    <3>1. CASE Method[c] = Method[d]
      <4>1. c = d
        <5>1. ~Settled(c) /\ ~Settled(d)
          BY <1>3, <1>busy, <1>unsettled, <2>2
        <5>. QED
          BY <3>1, <5>1 DEF CallInv
      <4>. QED
        BY <2>0, <2>2, <4>1
    <3>2. CASE Method[c] # Method[d]
      <4>1. ~putParameters(c)
        <5>1. putParameters(c) => callPc[c] = "cleared" /\ callPc'[c] = "parsed"
          BY DEF putParameters, Types
        <5>2. callPc'[c] = callPc[c]
          BY <2>2, <3>2 DEF putParameters, Types
        <5>. QED
          BY <5>1, <5>2
      <4>2. parameters[Method[c]] = Param[c]
        BY <2>0, <4>1 DEF CallInv
      <4>. QED
        BY <2>0, <2>2, <3>2, <4>2
    <3>. QED
      BY <3>1, <3>2
  <2>3. ASSUME NEW d \in Calls, clearParameters(d),
               parameters' = [parameters EXCEPT ![Method[d]] = Empty]
        PROVE  parameters'[Method[c]] = Param[c]
    <3>1. c # d
      <4>1. callPc[d] = "new" /\ callPc'[d] = "cleared" /\ UNCHANGED jobPc
        BY <2>3 DEF clearParameters, Types, jobVars
      <4>2. \A k \in {"read", "save"} : jobPc'[<<d, k>>] = "none"
        BY <4>1 DEF CallInv
      <4>. QED
        BY <1>3, <4>1, <4>2 DEF Busy
    <3>2. callPc'[c] = callPc[c]
      BY <2>3, <3>1 DEF clearParameters, Types
    <3>3. Busy(c) /\ ~Settled(c)
      <4>1. putParameters(c) => callPc[c] = "cleared" /\ callPc'[c] = "parsed"
        BY DEF putParameters, Types
      <4>. QED
        BY <1>3, <1>busy, <1>unsettled, <3>2, <4>1
    <3>4. Method[c] # Method[d]
      <4>1. Overlap
        BY <2>3, <3>3 DEF clearParameters
      <4>. QED
        BY <3>1, <4>1 DEF MethodsApart
    <3>5. parameters[Method[c]] = Param[c]
      BY <3>3 DEF CallInv
    <3>. QED
      BY <2>0, <2>3, <3>4, <3>5
  <2>. QED
    BY <2>1, <2>2, <2>3, ParametersMove
<1>. QED
  BY <1>1, <1>2, <1>3 DEF CallInv

\* A job that goes on to place p moves alone.
Moves(c, k, p) == jobPc' = [jobPc EXCEPT ![<<c, k>>] = p]

\* So no other job reaches the storage.
LEMMA JobMoves ==
  ASSUME Types, NEW c, NEW k, NEW p, Moves(c, k, p), NEW d, NEW l, <<d, l>> \in CacheJobs
  PROVE  jobPc'[<<d, l>>] = jobPc[<<d, l>>] \/ (d = c /\ jobPc'[<<d, l>>] = p)
<1> USE Zenon
<1>1. DOMAIN jobPc = CacheJobs
  BY DEF Types
<1>2. CASE d = c /\ l = k
  BY <1>1, <1>2 DEF Moves
<1>3. CASE ~(d = c /\ l = k)
  <2>1. <<d, l>> # <<c, k>>
    BY <1>3
  <2>. QED
    BY <1>1, <2>1 DEF Moves
<1>. QED
  BY <1>2, <1>3

\* getCacheKey() gives every call its own key.
LEMMA KeyStep ==
  ASSUME Types, KeyInv, CallInv, [Next]_vars
  PROVE  KeyInv'
<1> USE Zenon
<1> USE DEF parserVars, jobVars, netVars, mainVars
<1>type. /\ cacheKey \in [Calls -> Keys \cup {Null}]
         /\ jobPc \in [CacheJobs -> {"none", "key", "iterate", "storage", "done"}]
  BY DEF Types
\* A job that computes a key finds the parameters of its call.
<1>1. ASSUME NEW c \in Calls, NEW k \in {"read", "save"},
             getCacheKey(<<c, k>>) \/ iterate(<<c, k>>)
      PROVE  \/ UNCHANGED cacheKey /\ \A d \in Calls, l \in {"read", "save"} :
                   jobPc'[<<d, l>>] = "storage" =>
                     jobPc[<<d, l>>] = "storage" \/ (d = c /\ cacheKey[c] = Key(c))
             \/ cacheKey' = [cacheKey EXCEPT ![c] = Key(c)] /\ \A d \in Calls, l \in {"read", "save"} :
                   jobPc'[<<d, l>>] = "storage" => jobPc[<<d, l>>] = "storage" \/ d = c
  <2>1. <<c, k>>[1] = c /\ <<c, k>> \in CacheJobs
    BY CallFacts
  <2>2. requestParameters(c) = Param[c]
    <3>1. jobPc[<<c, k>>] \notin {"none", "done"}
      BY <1>1 DEF getCacheKey, iterate
    <3>. QED
      BY <3>1 DEF CallInv, Busy, requestParameters
  <2>3. ASSUME Moves(c, k, "storage"),
               NEW d \in Calls, NEW l \in {"read", "save"}
        PROVE  jobPc'[<<d, l>>] = "storage" => jobPc[<<d, l>>] = "storage" \/ d = c
    <3>1. <<d, l>> \in CacheJobs
      BY CallFacts
    <3>. QED
      BY <2>3, <3>1, JobMoves
  <2>6. ASSUME Moves(c, k, "iterate"),
               NEW d \in Calls, NEW l \in {"read", "save"}
        PROVE  jobPc'[<<d, l>>] = "storage" => jobPc[<<d, l>>] = "storage"
    <3>1. <<d, l>> \in CacheJobs
      BY CallFacts
    <3>2. jobPc'[<<d, l>>] = jobPc[<<d, l>>] \/ jobPc'[<<d, l>>] = "iterate"
      BY <2>6, <3>1, JobMoves
    <3>. QED
      BY <3>2
  <2>4. CASE iterate(<<c, k>>)
    <3>1. \/ UNCHANGED <<cacheKey, jobPc>>
          \/ /\ Moves(c, k, "storage")
             /\ cacheKey' = [cacheKey EXCEPT ![c] = Key(c)]
      BY <2>1, <2>2, <2>4 DEF iterate, Crash, Key, Moves
    <3>. QED
      BY <2>3, <3>1
  <2>5. CASE getCacheKey(<<c, k>>)
    <3>1. \/ Moves(c, k, "iterate") /\ UNCHANGED cacheKey
          \/ /\ Moves(c, k, "storage")
             /\ cacheKey[c] = Null /\ Param[c] = Empty
             /\ cacheKey' = [cacheKey EXCEPT ![c] = <<Method[c], Empty>>]
          \/ /\ Moves(c, k, "storage")
             /\ cacheKey[c] # Null /\ cacheKey' = [cacheKey EXCEPT ![c] = cacheKey[c]]
      BY <2>1, <2>2, <2>5 DEF getCacheKey, Moves
    <3>2. CASE Moves(c, k, "iterate") /\ UNCHANGED cacheKey
      BY <2>6, <3>2
    <3>3. CASE /\ Moves(c, k, "storage")
               /\ cacheKey[c] = Null /\ Param[c] = Empty
               /\ cacheKey' = [cacheKey EXCEPT ![c] = <<Method[c], Empty>>]
      BY <2>3, <3>3 DEF Key
    <3>4. CASE /\ Moves(c, k, "storage")
               /\ cacheKey[c] # Null /\ cacheKey' = [cacheKey EXCEPT ![c] = cacheKey[c]]
      BY <2>3, <3>4, <1>type DEF KeyInv
    <3>. QED
      BY <3>1, <3>2, <3>3, <3>4
  <2>. QED
    BY <1>1, <2>4, <2>5
<1>2. CASE \E c \in Calls, k \in {"read", "save"} : getCacheKey(<<c, k>>) \/ iterate(<<c, k>>)
  <2>1. PICK c \in Calls, k \in {"read", "save"} : getCacheKey(<<c, k>>) \/ iterate(<<c, k>>)
    BY <1>2
  <2>2. CASE /\ UNCHANGED cacheKey
             /\ \A d \in Calls, l \in {"read", "save"} :
                   jobPc'[<<d, l>>] = "storage" =>
                     jobPc[<<d, l>>] = "storage" \/ (d = c /\ cacheKey[c] = Key(c))
    BY <2>2 DEF KeyInv, Key
  <2>3. CASE /\ cacheKey' = [cacheKey EXCEPT ![c] = Key(c)]
             /\ \A d \in Calls, l \in {"read", "save"} :
                   jobPc'[<<d, l>>] = "storage" => jobPc[<<d, l>>] = "storage" \/ d = c
    BY <2>3, <1>type DEF KeyInv, Key
  <2>. QED
    BY <1>1, <2>1, <2>2, <2>3
<1>3. CASE ~\E c \in Calls, k \in {"read", "save"} : getCacheKey(<<c, k>>) \/ iterate(<<c, k>>)
  <2>1. ASSUME NEW c \in Calls,
               clearParameters(c) \/ putParameters(c) \/ saveCache(c) \/ respond(c)
                 \/ enqueue(c) \/ execute(c) \/ readCache(c) \/ onResponse(c)
        PROVE  /\ UNCHANGED cacheKey
               /\ \/ UNCHANGED jobPc
                  \/ \E k \in {"read", "save"}, p \in {"key", "done"} :
                       Moves(c, k, p)
    BY <2>1 DEF clearParameters, putParameters, saveCache, respond, enqueue, execute,
                readCache, onResponse, StartJob, Moves
  <2>2. onCache \/ UNCHANGED vars => UNCHANGED <<cacheKey, jobPc>>
    BY DEF onCache, vars
  <2>3. UNCHANGED cacheKey
    BY <1>3, <2>1, <2>2, Steps
  <2>4. \A d \in Calls, l \in {"read", "save"} :
          jobPc'[<<d, l>>] = "storage" => jobPc[<<d, l>>] = "storage"
    <3>1. ASSUME NEW c \in Calls, NEW k \in {"read", "save"}, NEW p \in {"key", "done"},
                 Moves(c, k, p),
                 NEW d \in Calls, NEW l \in {"read", "save"}
          PROVE  jobPc'[<<d, l>>] = "storage" => jobPc[<<d, l>>] = "storage"
      <4>1. <<d, l>> \in CacheJobs
        BY CallFacts
      <4>2. jobPc'[<<d, l>>] = jobPc[<<d, l>>] \/ jobPc'[<<d, l>>] = p
        BY <3>1, <4>1, JobMoves
      <4>. QED
        BY <4>2
    <3>. QED
      BY <1>3, <2>1, <2>2, <3>1, Steps
  <2>. QED
    BY <2>3, <2>4 DEF KeyInv, Key
<1>. QED
  BY <1>2, <1>3

\* Sent, received, cached and shown is what belongs to the call or the key.
LEMMA DataStep ==
  ASSUME Types, KeyInv, CallInv, DataInv, [Next]_vars
  PROVE  DataInv'
<1> USE Zenon
<1> USE DEF parserVars, jobVars, netVars, mainVars
<1>type. /\ asked \in [Calls -> Params \cup {Empty, Null}] /\ reply \in [Calls -> Data]
         /\ db \in [Keys -> Data] /\ shown \in [Calls -> Seq(Shown)]
         /\ front \in Seq(Messages)
  BY DEF Types
<1>none. \A k : Fits(Null, k) /\ Fits(NoData, k) /\ Fits(Failed, k)
  BY DEF Fits, IsData
<1>send. ASSUME NEW c \in Calls, Busy(c), Send(c)
         PROVE  \A d \in Calls : asked'[d] \in {Null, Param[d]}
  <2>1. requestParameters(c) = Param[c]
    BY <1>send DEF CallInv, requestParameters
  <2>. QED
    BY <1>send, <1>type, <2>1 DEF Send, DataInv
<1>show. ASSUME NEW c \in Calls, NEW e \in Shown, Fits(e.data, Key(c)),
                shown' = [shown EXCEPT ![c] = Append(shown[c], e)]
         PROVE  \A d \in Calls : \A i \in DOMAIN shown'[d] : Fits(shown'[d][i].data, Key(d))
  <2>1. \A i \in DOMAIN Append(shown[c], e) : Fits(Append(shown[c], e)[i].data, Key(c))
    <3>1. shown[c] \in Seq(Shown)
      BY <1>type
    <3>2. \A i \in DOMAIN Append(shown[c], e) :
            Append(shown[c], e)[i] = e
              \/ (i \in DOMAIN shown[c] /\ Append(shown[c], e)[i] = shown[c][i])
      BY SMT, <1>show, <3>1, AppendFacts
    <3>. QED
      BY <1>show, <3>2 DEF DataInv
  <2>2. shown'[c] = Append(shown[c], e) /\ \A d \in Calls \ {c} : shown'[d] = shown[d]
    BY <1>show, <1>type
  <2>3. \A i \in DOMAIN shown'[c] : Fits(shown'[c][i].data, Key(c))
    BY <2>1, <2>2
  <2>4. \A d \in Calls \ {c} : \A i \in DOMAIN shown'[d] : Fits(shown'[d][i].data, Key(d))
    BY <2>2 DEF DataInv
  <2>. QED
    BY <2>3, <2>4
<1>1. CASE UNCHANGED <<asked, reply, db, front, shown>>
  BY <1>1 DEF DataInv
<1>2. CASE onCache
  <2>0. /\ front # <<>> /\ front' = Tail(front) /\ UNCHANGED <<asked, reply, db>>
        /\ shown' = [shown EXCEPT ![front[1].call] =
             Append(shown[front[1].call], [from |-> "cache", data |-> front[1].data])]
    BY <1>2 DEF onCache
  <2>1. /\ 1 \in DOMAIN front /\ front[1] \in Messages
        /\ \A i \in DOMAIN front' : \E n \in DOMAIN front : front'[i] = front[n]
    BY <1>type, <2>0, TailFacts
  <2>2. front[1].call \in Calls /\ [from |-> "cache", data |-> front[1].data] \in Shown
    BY <2>1 DEF Messages, Shown
  <2>3. Fits(front[1].data, Key(front[1].call))
    BY <2>1 DEF DataInv
  <2>4. \A d \in Calls : \A i \in DOMAIN shown'[d] : Fits(shown'[d][i].data, Key(d))
    BY <1>show, <2>0, <2>2, <2>3
  <2>5. \A i \in DOMAIN front' : Fits(front'[i].data, Key(front'[i].call))
    BY <2>1 DEF DataInv
  <2>. QED
    BY <2>0, <2>4, <2>5 DEF DataInv, Key
<1>3. ASSUME NEW c \in Calls, enqueue(c) \/ execute(c) PROVE DataInv'
  <2>1. Busy(c) /\ (Send(c) \/ UNCHANGED asked) /\ UNCHANGED <<reply, db, front, shown>>
    BY <1>3 DEF enqueue, execute, Busy
  <2>. QED
    BY <1>send, <2>1 DEF DataInv, Key
<1>4. ASSUME NEW c \in Calls, readCache(c) PROVE DataInv'
  <2>0. db[cacheKey[c]] = db[Key(c)] /\ Busy(c)
    BY <1>4 DEF readCache, KeyInv, Busy
  <2>1. Fits(db[Key(c)], Key(c)) /\ db[Key(c)] \in Data
    BY <1>type, CallFacts DEF DataInv
  <2>2. /\ [from |-> "cache", data |-> db[Key(c)]] \in Shown
        /\ [call |-> c, data |-> db[Key(c)]] \in Messages
    BY <2>1 DEF Shown, Messages
  <2>3. UNCHANGED <<reply, db>>
    BY <1>4 DEF readCache
  <2>4. \A d \in Calls : asked'[d] \in {Null, Param[d]}
    BY <1>4, <1>send, <2>0 DEF readCache, DataInv
  <2>5. \A d \in Calls : \A i \in DOMAIN shown'[d] : Fits(shown'[d][i].data, Key(d))
    <3>1. \/ UNCHANGED shown
          \/ shown' = [shown EXCEPT ![c] =
                         Append(shown[c], [from |-> "cache", data |-> db[Key(c)]])]
      BY <1>4, <2>0 DEF readCache
    <3>. QED
      BY <1>show, <2>1, <2>2, <3>1 DEF DataInv
  <2>6. \A i \in DOMAIN front' : Fits(front'[i].data, Key(front'[i].call))
    <3>1. \/ UNCHANGED front
          \/ front' = <<[call |-> c, data |-> db[Key(c)]]>> \o front
      BY <1>4, <2>0 DEF readCache
    <3>2. CASE front' = <<[call |-> c, data |-> db[Key(c)]]>> \o front
      <4>. DEFINE m == [call |-> c, data |-> db[Key(c)]]
      <4>0. m.call = c /\ m.data = db[Key(c)] /\ m \in Messages /\ front' = <<m>> \o front
        BY <2>2, <3>2
      <4>. HIDE DEF m
      <4>1. \A i \in DOMAIN (<<m>> \o front) :
              (<<m>> \o front)[i] = m \/ \E n \in DOMAIN front : (<<m>> \o front)[i] = front[n]
        BY SMT, <1>type, <4>0, FrontFacts
      <4>2. ASSUME NEW i \in DOMAIN front' PROVE Fits(front'[i].data, Key(front'[i].call))
        <5>1. front'[i] = m \/ \E n \in DOMAIN front : front'[i] = front[n]
          BY <4>0, <4>1
        <5>. QED
          BY <2>1, <4>0, <5>1 DEF DataInv
      <4>. QED
        BY <4>2
    <3>. QED
      BY <3>1, <3>2 DEF DataInv
  <2>. QED
    BY <2>3, <2>4, <2>5, <2>6 DEF DataInv, Key
<1>5. ASSUME NEW c \in Calls, saveCache(c) PROVE DataInv'
  <2>1. /\ UNCHANGED <<asked, reply, front, shown>> /\ Key(c) \in Keys
        /\ \/ db' = [db EXCEPT ![Key(c)] = reply[c]]
           \/ db' = [db EXCEPT ![Key(c)] = NoData]
    BY <1>5, CallFacts DEF saveCache, KeyInv
  <2>2. Fits(reply[c], Key(c))
    BY DEF DataInv
  <2>3. \A k \in Keys : Fits(db'[k], k)
    BY <1>type, <1>none, <2>1, <2>2 DEF DataInv
  <2>. QED
    BY <2>1, <2>3 DEF DataInv, Key
<1>6. ASSUME NEW c \in Calls, respond(c) PROVE DataInv'
  <2>0. UNCHANGED <<asked, db, front, shown>> /\ asked[c] = Param[c]
    BY <1>6 DEF respond, DataInv
  <2>1. PICK x : reply' = [reply EXCEPT ![c] = x] /\
          (x \in {Failed, NoData}
             \/ x = [method |-> Method[c], param |-> asked[c], ver |-> clock + 1])
    BY <1>6 DEF respond
  <2>2. Fits(x, Key(c))
    <3>1. CASE x \in {Failed, NoData}
      BY <1>none, <3>1
    <3>2. CASE x = [method |-> Method[c], param |-> asked[c], ver |-> clock + 1]
      <4>1. x.method = Method[c] /\ x.param = Param[c]
        BY <2>0, <3>2
      <4>. QED
        BY <4>1 DEF Fits, Key
    <3>. QED
      BY <2>1, <3>1, <3>2
  <2>3. \A d \in Calls : Fits(reply'[d], Key(d))
    BY <1>type, <2>1, <2>2 DEF DataInv
  <2>. QED
    BY <2>0, <2>3 DEF DataInv, Key
<1>7. ASSUME NEW c \in Calls, onResponse(c) PROVE DataInv'
  <2>1. /\ UNCHANGED <<asked, reply, db, front>>
        /\ shown' = [shown EXCEPT ![c] = Append(shown[c], [from |-> "net", data |-> reply[c]])]
    BY <1>7 DEF onResponse
  <2>2. Fits(reply[c], Key(c)) /\ [from |-> "net", data |-> reply[c]] \in Shown
    BY <1>type DEF DataInv, Shown
  <2>3. \A d \in Calls : \A i \in DOMAIN shown'[d] : Fits(shown'[d][i].data, Key(d))
    BY <1>show, <2>1, <2>2
  <2>. QED
    BY <2>1, <2>3 DEF DataInv, Key
<1>8. ASSUME NEW c \in Calls, clearParameters(c) \/ putParameters(c)
      PROVE  UNCHANGED <<asked, reply, db, front, shown>>
  BY <1>8 DEF clearParameters, putParameters
<1>9. ASSUME NEW c \in Calls, NEW k \in {"read", "save"},
             getCacheKey(<<c, k>>) \/ iterate(<<c, k>>)
      PROVE  UNCHANGED <<asked, reply, db, front, shown>>
  BY <1>9 DEF getCacheKey, iterate, Crash
<1>10. UNCHANGED vars => UNCHANGED <<asked, reply, db, front, shown>>
  BY DEF vars
<1>. QED
  BY Steps, <1>1, <1>2, <1>3, <1>4, <1>5, <1>6, <1>7, <1>8, <1>9, <1>10

\* A process that has made no call yet, whatever an earlier one left in the cache.
LEMMA InitInv == Init => IInv
<1> USE Zenon
<1>. SUFFICES ASSUME Init PROVE IInv
  OBVIOUS
<1>1. \A c \in Calls : /\ callPc[c] = "new" /\ cacheKey[c] = Null /\ asked[c] = Null
                       /\ reply[c] = Null /\ shown[c] = <<>>
                       /\ \A k \in {"read", "save"} : jobPc[<<c, k>>] = "none"
  BY CallFacts DEF Init
<1>2. \A k \in Keys : db[k] \in Data /\ Fits(db[k], k)
  <2>1. \A k \in Keys : db[k] \in {Null, Old(k)}
    BY DEF Init
  <2>2. 0 \in Nat
    BY SMT
  <2>3. ASSUME NEW k \in Keys PROVE Old(k) \in Data /\ Fits(Old(k), k)
    <3>1. PICK m \in Methods, q \in Params \cup {Empty} : k = <<m, q>>
      BY SMT DEF Keys
    <3>2. Old(k) = [method |-> m, param |-> q, ver |-> 0]
      BY <3>1 DEF Old
    <3>. QED
      BY SMT, <2>2, <3>1, <3>2 DEF Data, Fits
  <2>4. \A k : Null \in Data /\ Fits(Null, k)
    BY DEF Data, Fits, IsData
  <2>. QED
    BY <2>1, <2>3, <2>4
<1>3. front \in Seq(Messages) /\ front = <<>> /\ DOMAIN <<>> = {} /\ <<>> \in Seq(Shown)
  BY SMT DEF Init
<1>4. Types
  <2>1. 0 \in Nat
    BY SMT
  <2>2. db \in [Keys -> Data]
    <3>1. \E f : db = [k \in Keys |-> f[k]]
      BY SMT DEF Init
    <3>. QED
      BY <1>2, <3>1
  <2>3. reply \in [Calls -> Data]
    BY DEF Init, Data
  <2>. QED
    BY <1>3, <2>1, <2>2, <2>3 DEF Init, Types
<1>5. CallInv
  BY <1>1 DEF CallInv, Settled, Busy
<1>6. KeyInv
  BY <1>1 DEF KeyInv
<1>7. DataInv
  <2>1. \A k : Fits(Null, k)
    BY DEF Fits, IsData
  <2>. QED
    BY <1>1, <1>2, <1>3, <2>1 DEF DataInv
<1>. QED
  BY <1>4, <1>5, <1>6, <1>7 DEF IInv

\* MethodParser.newRequest, HiRequest.getCacheKey, Scheduler and HiStorage: while
\* no two calls of one method are under way at once, what is cached under a key
\* and what a callback or the caller of execute() gets answers its own request,
\* however calls of different methods, their jobs and the network interleave.
THEOREM AnswersKeptApartHolds == MethodsApart => (Spec => []AnswersKeptApart)
<1>1. MethodsApart /\ IInv /\ [Next]_vars => IInv'
  BY Zenon, TypesStep, CallStep, KeyStep, DataStep DEF IInv
<1>2. IInv => AnswersKeptApart
  BY Zenon DEF IInv, DataInv, Fits, AnswersKeptApart, EntryBelongsToKey, ShownIsOwn
<1>. SUFFICES ASSUME MethodsApart PROVE Spec => []AnswersKeptApart
  OBVIOUS
<1>3. IInv /\ [Next]_vars => IInv'
  BY <1>1
<1>. QED
  BY InitInv, <1>2, <1>3, PTL DEF Spec
====
