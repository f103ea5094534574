--------------------------- MODULE MCCachedSearch ---------------------------
(* Instances of CachedSearch for TLC. *)
EXTENDS CachedSearch

CONSTANTS a, b, e1, e2, c1, c2

R(n, g) == [Name |-> n, Age |-> g, FakeDelete |-> FALSE]
\* The rows at first: three or four of one list, or two of one and one of another.
Four  == [i \in Ids |-> IF i <= 4 THEN R(a, i) ELSE Unused]
Three == [i \in Ids |-> R(IF i <= 3 THEN a ELSE b, i)]
Mixed == [i \in Ids |-> IF i <= 2 THEN R(a, 3 - i) ELSE IF i = 3 THEN R(b, 1) ELSE Unused]
Two   == [i \in Ids |-> IF i <= 2 THEN R(IF i = 1 THEN a ELSE b, 1) ELSE Unused]
Pagers(S) == {[page |-> x[1], size |-> x[2]] : x \in S}
Local(c, d) == [e \in Engines |-> IF e = e1 THEN c ELSE d]

Values == {R(a, 1), R(a, 2), R(b, 1)}

\* One engine without a local cache and lists of several pages.
Pages == [engines |-> {e1}, local |-> Local(None, None), redis |-> TRUE, fake |-> FALSE,
          queries |-> {"List"}, pagers |-> Pagers({<<1, 1>>, <<3, 1>>, <<4, 1>>, <<1, 2>>, <<2, 2>>, <<1, 4>>}),
          rows |-> Three, values |-> {R(b, 1)}, lazy |-> FALSE,
           searches |-> 3, writes |-> 1, transactions |-> 0, faults |-> 0]

\* An engine with a request cache and one without.
Requests == [engines |-> {e1, e2}, local |-> Local(c1, None), redis |-> TRUE, fake |-> FALSE,
             queries |-> {"List"}, pagers |-> Pagers({<<1, 1>>, <<2, 2>>, <<4, 1>>}),
             rows |-> Four, values |-> {}, lazy |-> FALSE,
           searches |-> 3, writes |-> 0, transactions |-> 0, faults |-> 1]

\* Two engines of one process, its local cache and Redis, transactions.
Shared == [engines |-> {e1, e2}, local |-> Local(c1, c1), redis |-> TRUE, fake |-> FALSE,
           queries |-> {"List"}, pagers |-> Pagers({<<1, 2>>}),
           rows |-> Two, values |-> {R(b, 2)}, lazy |-> FALSE,
           searches |-> 2, writes |-> 1, transactions |-> 1, faults |-> 0]

\* Two processes with local caches, and writes that meet.
Apart == [engines |-> {e1, e2}, local |-> Local(c1, c2), redis |-> TRUE, fake |-> FALSE,
          queries |-> {"List"}, pagers |-> Pagers({<<1, 4>>}),
          rows |-> Two, values |-> {R(b, 2)}, lazy |-> FALSE,
           searches |-> 1, writes |-> 2, transactions |-> 0, faults |-> 1]

\* Two processes without local caches, transactions.
Remote == [engines |-> {e1, e2}, local |-> Local(None, None), redis |-> TRUE, fake |-> FALSE,
           queries |-> {"One"}, pagers |-> Pagers({<<1, 1>>}),
           rows |-> Two, values |-> {R(b, 2)}, lazy |-> FALSE,
           searches |-> 2, writes |-> 1, transactions |-> 1, faults |-> 0]

\* Two processes with local caches, lazy updates; each runs the background consumer.
Lazy == [engines |-> {e1, e2}, local |-> Local(c1, c2), redis |-> TRUE, fake |-> FALSE,
         queries |-> {"List"}, pagers |-> Pagers({<<1, 4>>}),
         rows |-> Two, values |-> {R(b, 1), R(b, 2)}, lazy |-> TRUE,
         searches |-> 2, writes |-> 1, transactions |-> 0, faults |-> 0]

\* One engine with each kind of query and entities that are only flagged as deleted.
Alone == [engines |-> {e1}, local |-> Local(c1, None), redis |-> TRUE, fake |-> TRUE,
          queries |-> {"All", "List", "One"}, pagers |-> Pagers({<<1, 2>>, <<2, 1>>}),
          rows |-> Mixed, values |-> Values, lazy |-> FALSE,
           searches |-> 2, writes |-> 2, transactions |-> 0, faults |-> 0]

Programs == {Pages, Requests, Shared, Apart, Remote, Lazy, Alone}
=============================================================================
