-------------------------- MODULE MCMiddlewareChain --------------------------
(***************************************************************************)
(* Instances of MiddlewareChain.  The scenarios come in four groups: every *)
(* kind of path rule against every short path, the chains the README       *)
(* configures with requests of every kind, chains in which one middleware  *)
(* answers for or trips over another, and priority directories.            *)
(***************************************************************************)
EXTENDS MiddlewareChain

\* Constructors
Rule(els, glued, methods) == [els |-> els, glued |-> glued, methods |-> methods]
NoRewrite == [set |-> NoHeader, add |-> <<>>, remove |-> {}]
Mw(name) ==
    [name |-> name, required |-> FALSE, badOptions |-> FALSE, rules |-> <<>>,
     cors |-> [allowOrigins |-> <<AllowBroken, AllowHost(<<"shop", "com">>),
                                  AllowBelow(<<"mall", "com">>)>>,
               allowCredentials |-> TRUE, allowMethods |-> <<"GET">>,
               allowHeaders |-> <<"Authorization">>, exposeHeaders |-> <<>>],
     rewrite |-> [host |-> "", stripPrefix |-> <<>>, pathRewrite |-> <<>>,
                  request |-> NoRewrite, response |-> NoRewrite]]
WithRules(name, rules) == [Mw(name) EXCEPT !.rules = rules]

Once  == [attempts |-> 0, perTryTimeout |-> Unset, conditions |-> <<>>]
Twice == [attempts |-> 2, perTryTimeout |-> 500,
          conditions |-> <<ByStatusCode(<<502, 504>>), ByHeader("Grpc-Status", {"14"})>>]
Endpoint(key, retry, middlewares) ==
    [key |-> key, protocol |-> "HTTP", timeout |-> 4000, retry |-> retry,
     middlewares |-> middlewares]

Client(method, path, hdr) ==
    [route |-> "r", method |-> method, path |-> path, hdr |-> hdr, remote |-> "peer",
     host |-> "gateway", frames |-> 0]
Scenario(main, files, global, c) ==
    [main |-> main, files |-> files, global |-> global, client |-> c]
File(endps) == [yaml |-> TRUE, parses |-> TRUE, endpoints |-> endps]

\* 1. Path rules
Segments == {"a", "ab", "b"}
Paths == {<<>>, <<"">>} \cup {<<x>> : x \in Segments} \cup {<<x, y>> : x, y \in Segments \cup {""}}
         \cup {<<"a", y, z>> : y \in Segments, z \in {"a", ""}}
SaneRules ==
    {Rule(e, FALSE, {}) : e \in {<<Lit("")>>, <<Lit("a")>>, <<Lit("a"), Lit("")>>,
        <<Lit("a"), Lit("b")>>, <<Star>>, <<Deep>>, <<Lit("a"), Star>>, <<Lit("a"), Deep>>,
        <<Param("{x}")>>, <<Param("{x}"), Lit("b")>>, <<Lit("a"), Param("{x}"), Star>>,
        <<Param("{x}"), Param("{x}")>>}}
    \cup {Rule(<<Lit("a")>>, TRUE, {}), Rule(<<Lit("a"), Lit("b")>>, TRUE, {"get"}),
          Rule(<<Param("{x}"), Lit("a")>>, TRUE, {}), Rule(<<Lit("a"), Star>>, FALSE, {"POST"})}
RuleScenarios ==
    {Scenario(<<Endpoint(<<"", "r">>, Once, <<>>)>>, <<>>, <<WithRules(n, <<r>>)>>,
              Client("GET", p, NoHeader)) :
        n \in {"jwt", "router_filter"}, r \in SaneRules, p \in Paths}

\* 2. The chain of the README
Open   == <<Rule(<<Lit("a"), Deep>>, FALSE, {})>>
Usual  == <<Mw("ip"), Mw("cors"), Mw("logging"), WithRules("jwt", Open), WithRules("rbac", Open)>>
Origins == {<<"shop", "com">>, <<"www", "mall", "com">>, <<"mall", "com">>, BrokenOrigin}
Headers == {NoHeader} \cup {"Origin" :> <<o>> : o \in Origins}
Tokens  == {NoHeader} \cup {"Authorization" :> <<t>> :
                              t \in {"basic", "valid", "expired", "claims"}}
Stripping ==
    [Mw("rewrite") EXCEPT
        !.rewrite = [host |-> "inner", stripPrefix |-> <<"a">>, pathRewrite |-> <<"b">>,
                     request |-> [set |-> "X" :> "1", add |-> <<<<"Y", "1">>>>, remove |-> {"Z"}],
                     response |-> [set |-> "X" :> "1", add |-> <<>>, remove |-> {"Allow-Origin"}]]]
UsualScenarios ==
    {Scenario(<<Endpoint(<<"GET", "r">>, Twice, <<Stripping>>)>>,
              <<>>, Usual, Client(m, p, o @@ t)) :
        m \in {"GET", "OPTIONS", "POST"}, p \in {<<"a", "a">>, <<"ab", "b">>},
        o \in Headers, t \in Tokens}

\* 3. Middlewares that meet
Required(m)  == [m EXCEPT !.required = TRUE]
Bad(m)       == [m EXCEPT !.badOptions = TRUE]
Shop == "Origin" :> <<<<"shop", "com">>>>
Locals == {<<Mw("bbr")>>, <<Stripping, Mw("bbr")>>, <<Mw("transcoder"), Mw("bbr")>>,
           <<Mw("transcoder"), WithRules("router_filter", Open)>>,
           <<Bad(Stripping), Mw("unheard-of")>>,
           <<Required(Bad(Stripping))>>, <<Mw("transcoder"), Stripping>>, <<Mw("ip"), Mw("jwt")>>}
MeetingScenarios ==
    {Scenario(<<[Endpoint(<<"*", "r">>, retry, l) EXCEPT !.protocol = "GRPC"]>>, <<>>, g,
              Client(m, p, h)) :
        retry \in {Twice, [Twice EXCEPT !.conditions = <<Malformed>>]}, l \in Locals,
        g \in {<<Mw("bbr"), Mw("cors")>>, <<Mw("cors"), Mw("bbr")>>},
        m \in {"GET", "OPTIONS"}, p \in {<<"a", "a", "b">>},
        h \in {NoHeader, Shop, Shop @@ "Content-Type" :> <<"application/grpc">>,
               Shop @@ "Content-Type" :> <<"application/connect+proto">>,
               "X-Real-IP" :> <<"real">> @@ "Content-Type" :> <<"application/json">>, "X-Forwarded-For" :> <<<<"first", "second">>>>}}

\* 4. Priority directories: up to three items over four keys, two in main
Key(i) == <<"GET", i>>
Item(i, from) == [Endpoint(Key(i), Once, <<>>) EXCEPT !.timeout = from]
Mains == {<<Item("r", 1), Item("s", 2)>>, <<Item("r", 1), Item("s", 2), Item("r", 3)>>}
ItemSeqs(n) == [1..n -> {"r", "s", "t", "u"}]
PriorityScenarios ==
    {Scenario(main, <<File([i \in 1..n |-> Item(q[i], 10 + i)]),
                      [File(<<Item("r", 20)>>) EXCEPT !.parses = ok],
                      [File(<<Item("s", 30)>>) EXCEPT !.yaml = FALSE]>>,
              <<>>, Client("GET", <<"">>, NoHeader)) :
        main \in Mains, <<n, q, ok>> \in UNION {{<<n, q, ok>> : q \in ItemSeqs(n), ok \in BOOLEAN} : n \in 1..3}}

MCScenarios == RuleScenarios \cup UsualScenarios \cup MeetingScenarios \cup PriorityScenarios

MCUpstream ==
    {Resp(200, NoHeader), Resp(503, "Content-Length" :> <<"9">>),
     [Resp(200, NoHeader) EXCEPT !.trailer = "Grpc-Status" :> <<"14">>],
     [Resp(200, NoHeader) EXCEPT !.trailer = "Grpc-Status" :> <<"garbled">>],
     [Resp(200, NoHeader) EXCEPT !.data = "short"],
     Err(KratosError(503, "no_available_node", FALSE)), Err(PlainError("other")),
     Err(KratosError(0, "unknown", FALSE)), Err(PlainError("disconnected"))}
=============================================================================
