---- MODULE MCRoutedSearch ----
EXTENDS RoutedSearch

CONSTANTS logs, shop,                   \* an index, and an alias
          title, body, stamp, created   \* fields

MCIndex == {logs, shop}
MCRank == (logs :> 1) @@ (shop :> 2)
MCField == {title, body, stamp, created}
MCInferable == {stamp, created}

C(t, b, s, c) == (title :> t) @@ (body :> b) @@ (stamp :> s) @@ (created :> c)
Plain == C("text", "text", "date", Unset)
Embedded == C("text", "semantic_text", "date", "date")
Vectors == C("keyword", "dense_vector", "date", Unset)
Bare == C("keyword", Unset, Unset, Unset)

\* Two kinds of index, and an alias over indices that disagree.
MCMappings == {{Embedded}, {Bare}, {Plain, Vectors}}

Inherited == [mode |-> Nil, timeField |-> Nil, searchFields |-> {}, semanticFields |-> {},
              profile |-> Nil]
Base == [allow |-> {}, mode |-> Unset, timeField |-> Unset, optOut |-> {logs},
         index |-> [i \in MCIndex |-> Inherited]]

MCConfigs ==
    {Base,
     [Base EXCEPT !.mode = "lexical", !.allow = {shop}, !.index[shop].mode = "semantic"],
     [Base EXCEPT !.mode = "semantic", !.timeField = created, !.optOut = {logs, shop},
        !.index[logs] = [Inherited EXCEPT !.mode = "auto", !.semanticFields = {title},
                                          !.timeField = Unset, !.profile = TRUE],
        !.index[shop] = [Inherited EXCEPT !.searchFields = {title}, !.timeField = stamp]]}

Req == [scopes |-> {Root}, flag |-> Unset, env |-> Unset, since |-> "none", unsupported |-> FALSE]
MCRequests ==
    {Req,
     [Req EXCEPT !.since = "duration"],
     [Req EXCEPT !.scopes = {logs}, !.flag = "semantic", !.env = "lexical"],
     [Req EXCEPT !.scopes = {shop, Root}, !.flag = "other", !.env = "exact", !.since = "garbled"],
     [Req EXCEPT !.env = "auto", !.scopes = {logs, shop}],
     [Req EXCEPT !.unsupported = TRUE, !.since = "duration"]}
====
