---------------------------- MODULE MCArguments ----------------------------
(* Two texts, one of which is the form of two values; a guard passes,     *)
(* redacts, corrects, denies or observes; scopes satisfy both guards'      *)
(* requirements, only the raw guard's, or neither.                         *)
EXTENDS Arguments

MCEncode == [v1 |-> "t1", v2 |-> "t2", v3 |-> "t2"]

Redacted == BlankReport("redact", "internal")
Corrected == FinishReport(BlankReport("retry", "safe"), "retry", FALSE)
Denied == BlankReport("block", "safe")
Observed == [Denied EXCEPT !.shadow = TRUE, !.kind = "technical"]

MCGuardReports == {<<>>, <<Redacted>>, <<Observed, Corrected>>, <<Denied>>}
MCSchemaReports == {<<>>, <<Corrected>>}
MCCheckReports == {Redacted, Corrected, [Denied EXCEPT !.kind = "invalid"]}

Named == [key |-> "k", type |-> NameOnly]
Typed == [key |-> "k", type |-> "a"]
Other == [key |-> "k", type |-> "b"]

\* Raw and final requirements, and what the scope holds.
Scopes ==
    {[raw |-> {}, last |-> {}, scope |-> [k |-> <<>>]],
     [raw |-> {Named}, last |-> {Typed}, scope |-> [k |-> <<{"a"}>>]],
     [raw |-> {Named}, last |-> {Typed}, scope |-> [k |-> <<{"b"}>>]],
     [raw |-> {Typed}, last |-> {Other}, scope |-> [k |-> <<{"a"}>>]],
     [raw |-> {Other}, last |-> {Named}, scope |-> [k |-> <<>>]]}

MCConfigs ==
    {[json |-> json, binder |-> host[1], final |-> host[2], factory |-> host[3],
      manifest |-> host[4], raw |-> s.raw, last |-> s.last, scope |-> s.scope] :
        json \in BOOLEAN,
        host \in {<<FALSE, TRUE, TRUE, TRUE>>, <<FALSE, FALSE, FALSE, TRUE>>,
                  <<TRUE, TRUE, TRUE, TRUE>>, <<TRUE, TRUE, FALSE, FALSE>>},
        s \in Scopes}
=============================================================================
