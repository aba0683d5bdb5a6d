----------------------------- MODULE PathMatcher -----------------------------
(***************************************************************************)
(* The path rules of router_filter, which jwt and rbac use as the list of  *)
(* requests they let through unchecked (middleware/routerfilter).          *)
(*                                                                         *)
(* A path is the sequence of its segments: "/" is <<"">>, "/a/b" is        *)
(* <<"a", "b">>, "/a/" is <<"a", "">>, and the empty string is <<>>.  A    *)
(* pattern is the sequence of its elements in the same way, each one a     *)
(* literal segment, a parameter "{x}", "*" or "**"; glued says that the    *)
(* pattern ends in a "*" without a slash before it, as in "/user*".        *)
(* Literal segments hold no character that a regular expression would give *)
(* a meaning to (the code does not quote them).                            *)
(***************************************************************************)
EXTENDS Naturals, Sequences, SequencesExt

Lit(s)   == [t |-> "lit",   v |-> s]
Param(x) == [t |-> "param", v |-> x]
Star     == [t |-> "star",  v |-> "*"]
Deep     == [t |-> "deep",  v |-> "**"]

\* The elements and the rules a configuration can hold.
Elements == [t : {"lit", "param", "star", "deep"}, v : STRING]
Rules    == [els : Seq(Elements), glued : BOOLEAN, methods : SUBSET STRING]

\* What strings.TrimPrefix leaves of a segment, for the segments whose text
\* starts with the text of another one.
Chop == [p \in {<<"ab", "a">>} |-> "b"]
HasPrefix(s, p) == p = "" \/ s = p \/ <<s, p>> \in DOMAIN Chop

\* strings.ToUpper, on the method names in use.
ToUpper(m) == IF m = "get" THEN "GET" ELSE m

(***************************************************************************)
(* NewPathMatcher.  One trailing slash is dropped (of "/" the slash is put *)
(* back).  A glued pattern is quoted whole, so its parameters and wildcards*)
(* stand for themselves; otherwise a name that is used for two parameters  *)
(* does not compile.                                                       *)
(***************************************************************************)
TrimSlash(els) == IF Len(els) > 1 /\ Last(els) = Lit("") THEN Front(els) ELSE els

Compiles(rule) ==
    /\ rule.els # <<>>
    /\ rule.glued \/ \A i, j \in DOMAIN rule.els :
          rule.els[i].t = "param" /\ rule.els[i] = rule.els[j] => i = j

NewPathMatcher(rule) ==
    [els     |-> TrimSlash(rule.els),
     glued   |-> rule.glued,
     methods |-> {ToUpper(m) : m \in rule.methods}]

(***************************************************************************)
(* Match.  The compiled expression matches when the path can be cut into   *)
(* one stretch per element.  A "*" stands for one segment or none, a "**"  *)
(* for any number of them, and "**" also insists on the end of the path.   *)
(***************************************************************************)
Fits(e, stretch, atEnd) ==
    \/ e.t = "lit"   /\ stretch = <<e.v>>
    \/ e.t = "param" /\ Len(stretch) = 1 /\ stretch[1] # ""
    \/ e.t = "star"  /\ (stretch = <<>> \/ (Len(stretch) = 1 /\ stretch[1] # ""))
    \/ e.t = "deep"  /\ atEnd

MatchesExpression(els, path) ==
    \E cut \in [0..Len(els) -> 0..Len(path)] :
       /\ cut[0] = 0
       /\ cut[Len(els)] = Len(path)
       /\ \A i \in DOMAIN els :
             /\ cut[i - 1] <= cut[i]
             /\ Fits(els[i], SubSeq(path, cut[i - 1] + 1, cut[i]), cut[i] = Len(path))

MatchesQuoted(els, path) ==
    /\ Len(path) >= Len(els)
    /\ \A i \in 1..(Len(els) - 1) : path[i] = els[i].v
    /\ HasPrefix(path[Len(els)], Last(els).v)

PathOf(urlPath) == IF urlPath = <<>> THEN <<"">> ELSE urlPath

Match(matcher, method, urlPath) ==
    LET path == PathOf(urlPath)
    IN  /\ matcher.methods = {} \/ method \in matcher.methods
        /\ IF matcher.glued THEN MatchesQuoted(matcher.els, path)
                            ELSE MatchesExpression(matcher.els, path)

\* The loop of router_filter, jwt and rbac: the first matcher that matches
\* decides, so one that matches is enough.
MatchesAny(rules, method, urlPath) ==
    \E i \in DOMAIN rules : Match(NewPathMatcher(rules[i]), method, urlPath)

(***************************************************************************)
(* The reference: what a rule with its wildcard at the end covers, from    *)
(* the lengths alone, as README.md:342-350 of the gateway has it.  "/*"    *)
(* covers the children of its base, "/**" all that is below it, neither    *)
(* the base itself; a glued rule covers whatever starts with its text.     *)
(***************************************************************************)
Wild(e) == e.t \in {"star", "deep"}

Plain(rule) ==
    LET els == TrimSlash(rule.els)
    IN  /\ els # <<>>
        /\ \A i \in DOMAIN els : els[i].t = "param" => els[i].v # ""
        /\ rule.glued \/ \A i \in 1..(Len(els) - 1) : ~Wild(els[i])

\* The end of the rule is a wildcard after a slash; the elements before it.
EndsWild(rule) == Wild(Last(TrimSlash(rule.els))) /\ ~rule.glued
Base(rule) == IF EndsWild(rule) THEN Front(TrimSlash(rule.els)) ELSE TrimSlash(rule.els)

\* The method is one of the rule, and the path starts with its base.
StartsWithBase(rule, method, path) ==
    LET base == Base(rule)
        agrees(i) == \/ path[i] = base[i].v
                     \/ base[i].t = "param" /\ ~rule.glued /\ path[i] # ""
                     \/ rule.glued /\ i = Len(base) /\ HasPrefix(path[i], base[i].v)
    IN  /\ rule.methods = {} \/ \E m \in rule.methods : ToUpper(m) = method
        /\ Len(path) >= Len(base)
        /\ \A i \in 1..Len(base) : agrees(i)

Covers(rule, method, urlPath) ==
    LET path == PathOf(urlPath)
        more == Len(path) - Len(Base(rule))
        end  == Last(TrimSlash(rule.els)).t
    IN  /\ StartsWithBase(rule, method, path)
        /\ \/ rule.glued
           \/ ~EndsWild(rule) /\ more = 0
           \/ EndsWild(rule) /\ end = "deep" /\ more > 0
           \/ EndsWild(rule) /\ end = "star" /\ more = 1 /\ Last(path) # ""

\* The exception: what NewPathMatcher makes of a wildcard is optional
\* (routerfilter.go:107-108), so Match also takes the base itself.
OnBarePath(rule, method, urlPath) ==
    /\ EndsWild(rule)
    /\ StartsWithBase(rule, method, PathOf(urlPath))
    /\ Len(PathOf(urlPath)) = Len(Base(rule))
=============================================================================
