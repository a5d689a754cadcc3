----------------------------- MODULE MCLibrary ------------------------------
(***************************************************************************)
(* Three parts of the libraries under any scheduling.  Each behaviour is   *)
(* one of                                                                  *)
(*   "dispatcher"  TaskDispatcher, with the constants of the configuration:*)
(*                 a secondary process, and a task executed after start(); *)
(*   "flow"        TaskFlow: every way to connect three tasks between the  *)
(*                 ends of a project, joins and loops included; two are    *)
(*                 block tasks of the pool, the third is posted;           *)
(*   "restful"     Restful: three overlapping calls of three methods.      *)
(***************************************************************************)
EXTENDS TaskDispatcher

CONSTANTS Empty, Failed, NoData

VARIABLES part,
          graph, flowPc, stack, queued, posted, state, dependTasks, behindTasks,
          blockTaskId, waitingTasks, starts,
          parameters, modCount, callPc, cacheKey, jobPc, jobSeen, asked, reply,
          clock, front, shown, db, crashed

\* d joins b and c; x, executed after start(), joins a and c.
TwoJoins ==
  [t \in Tasks |-> CASE t = "d" -> {"b", "c"} [] t = "x" -> {"a", "c"} [] OTHER -> {}]

\* Every way to put a, b and c behind s and one another, c before e: joins,
\* tasks outside the tree, and loops from c back to a.
FourGraphs ==
  {[s |-> x, a |-> y, b |-> z, c |-> w, e |-> <<>>] :
     x \in {<<>>, <<"a">>, <<"b">>, <<"a", "b">>, <<"b", "c", "a">>},
     y \in {<<>>, <<"b">>, <<"c">>, <<"b", "c">>},
     z \in {<<>>, <<"c">>, <<"c", "e">>},
     w \in {<<"e">>, <<"e", "a">>}}
FlowTasks == {"s", "a", "b", "c", "e"}
Flow == INSTANCE TaskFlow WITH
  Tasks <- FlowTasks, Graphs <- FourGraphs, StartTask <- "s", Critical <- {"s", "e"},
  Async <- {"a", "b"}, Delayed <- {"c"}, Block <- {"a", "b"},
  Priority <- [t \in FlowTasks |-> 0], Main <- "main", Pool <- {"p", "q"},
  mainPc <- flowPc

RestCalls == {"a", "b", "c"}
OwnMethod == [a |-> "list", b |-> "detail", c |-> "user"]
SomeParam == [a |-> 1, b |-> 1, c |-> 2]
Rest == INSTANCE Restful WITH
  Calls <- RestCalls, Method <- OwnMethod, Param <- SomeParam,
  Strategy <- [x \in RestCalls |-> IF x = "b" THEN "NET_CACHE" ELSE "CACHE_FIRST"],
  Sync <- {"c"}, Serializable <- {"list", "detail"}, Overlap <- TRUE,
  OldEntries <- {<<OwnMethod[x], SomeParam[x]>> : x \in RestCalls}

flowVars ==
  <<graph, flowPc, stack, queued, posted, state, dependTasks, behindTasks,
    blockTaskId, waitingTasks, starts>>
restVars ==
  <<parameters, modCount, callPc, cacheKey, jobPc, jobSeen, asked, reply, clock,
    front, shown, db, crashed>>

\* A component that is not exercised stays in one of its initial states.
AllInit ==
  /\ part \in {"dispatcher", "flow", "restful"}
  /\ Init /\ Flow!Init /\ Rest!Init
  /\ part # "flow" => graph = CHOOSE g \in FourGraphs : TRUE
  /\ part # "restful" => \A k \in DOMAIN db : db[k] = Null

AllNext ==
  /\ UNCHANGED part
  /\ \/ part = "dispatcher" /\ Next /\ UNCHANGED <<flowVars, restVars>>
     \/ part = "flow" /\ Flow!Next /\ UNCHANGED <<vars, restVars>>
     \/ part = "restful" /\ Rest!Next /\ UNCHANGED <<vars, flowVars>>

AllSpec == AllInit /\ [][AllNext]_<<part, vars, flowVars, restVars>>

\* TaskFlow: whatever racing removals lose, a task starts after the tasks it
\* depends on, and start() returns after the block tasks.
FlowInOrder == Flow!DependenciesFirst /\ Flow!BlockDoneBeforeReturn

\* Restful: what is cached under a key and what is shown to a caller is the
\* answer to its own request, even when three calls overlap.
AnswersKeptApart == Rest!AnswersKeptApart
====
