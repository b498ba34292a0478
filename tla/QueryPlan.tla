----------------------------- MODULE QueryPlan -----------------------------
(***************************************************************************)
(* The plans of queries (packages/hub/src/query/builder.ts, predicate.ts): *)
(* the clauses that the chained calls collect, which records pass them,    *)
(* and the order they ask for.                                             *)
(***************************************************************************)
EXTENDS Integers, Sequences

CONSTANT None

(***************************************************************************)
(* Values: a type and a number that orders the values of the type.        *)
(***************************************************************************)
Num(k) == <<"num", k>>
Str(k) == <<"str", k>>
Null   == <<"null", 0>>

isComparable(a, b) == a[1] = b[1] /\ a # Null

-----------------------------------------------------------------------------
(***************************************************************************)
(* Plans and their clauses.                                               *)
(***************************************************************************)
Field(field, op, value) == [type |-> "field", field |-> field, op |-> op, value |-> value]
Group(op, clauses)      == [type |-> "group", op |-> op, clauses |-> clauses]
Filter(holds)           == [type |-> "filter", holds |-> holds]    \* the records it lets pass

EmptyPlan == [clauses |-> <<>>, orderBy |-> <<>>, limit |-> None, offset |-> 0, joins |-> <<>>]
where(p, c)    == [p EXCEPT !.clauses = Append(@, c)]
orderBy(p, by) == [p EXCEPT !.orderBy = Append(@, by)]
limit(p, n)    == [p EXCEPT !.limit = n]
offset(p, n)   == [p EXCEPT !.offset = n]
join(p, leg)   == [p EXCEPT !.joins = Append(@, leg)]

evaluateFieldClause(r, c) ==
    LET actual == r[c.field]
        v == c.value
    IN  CASE c.op = "=="      -> actual = v
          [] c.op = "!="      -> actual # v
          [] c.op = "<"       -> isComparable(actual, v) /\ actual[2] < v[2]
          [] c.op = "<="      -> isComparable(actual, v) /\ actual[2] <= v[2]
          [] c.op = ">"       -> isComparable(actual, v) /\ actual[2] > v[2]
          [] c.op = ">="      -> isComparable(actual, v) /\ actual[2] >= v[2]
          [] c.op = "in"      -> \E i \in DOMAIN v : v[i] = actual
          [] c.op = "between" -> /\ isComparable(actual, v[1]) /\ isComparable(actual, v[2])
                                 /\ actual[2] >= v[1][2] /\ actual[2] <= v[2][2]

RECURSIVE evaluateClause(_, _)
evaluateClause(r, c) ==
    CASE c.type = "field"  -> evaluateFieldClause(r, c)
      [] c.type = "filter" -> r \in c.holds
      [] c.type = "group"  ->
           IF c.op = "and" THEN \A i \in DOMAIN c.clauses : evaluateClause(r, c.clauses[i])
                           ELSE \E i \in DOMAIN c.clauses : evaluateClause(r, c.clauses[i])

Matches(r, clauses) == \A i \in DOMAIN clauses : evaluateClause(r, clauses[i])

\* Missing values sort last in either comparison, and first when reversed.
compareValues(a, b) ==
    IF a = Null THEN (IF b = Null THEN 0 ELSE 1)
    ELSE IF b = Null THEN -1
    ELSE IF a[1] = b[1] THEN a[2] - b[2] ELSE 0

Sooner(a, b, by) ==
    \E i \in DOMAIN by :
        /\ \A j \in 1..(i - 1) : compareValues(a[by[j].field], b[by[j].field]) = 0
        /\ LET cmp == compareValues(a[by[i].field], b[by[i].field]) IN
           IF by[i].direction = "asc" THEN cmp < 0 ELSE cmp > 0
=============================================================================
