------------------------------ MODULE MCRestful ------------------------------
(* Small instances of Restful.                                             *)
EXTENDS Restful

\* Three calls of three methods.
OwnMethod == [a |-> "list", b |-> "detail", c |-> "user"]
SomeParam == [a |-> 1, b |-> 1, c |-> 2]
\* Two calls of one method, for one page or for two.
OneMethod == [x \in Calls |-> "list"]
SamePage == [x \in Calls |-> 1]
TwoPages == [a |-> 1, b |-> 2]
CacheFirst == [x \in Calls |-> "CACHE_FIRST"]
AllOld == Methods \X Params
====
