-------------------------------- MODULE Cors --------------------------------
(***************************************************************************)
(* HTTP headers as the middlewares handle them, and the rules of the cors  *)
(* and rewrite middlewares.  A header map is a function from the names it  *)
(* holds to the sequences of their values.  An origin is the sequence of   *)
(* the labels of its host (the port belongs to the last label); <<>> is a  *)
(* request without an Origin header.                                       *)
(***************************************************************************)
EXTENDS Naturals, Sequences, SequencesExt, TLC

\* net/http's Header: Get, Set, Add and Del.
NoHeader       == <<>>
Get(h, k)      == IF k \in DOMAIN h /\ h[k] # <<>> THEN h[k][1] ELSE ""
SetKey(h, k, v) == [x \in DOMAIN h \cup {k} |-> IF x = k THEN <<v>> ELSE h[x]]
AddKey(h, k, v) == (k :> Append(IF k \in DOMAIN h THEN h[k] ELSE <<>>, v)) @@ h
Del(h, k)      == [x \in DOMAIN h \ {k} |-> h[x]]

\* The headers of f, and those of g that f does not have.
Over(f, g) == [x \in DOMAIN f \cup DOMAIN g |-> IF x \in DOMAIN f THEN f[x] ELSE g[x]]

OriginOf(h)    == IF "Origin" \in DOMAIN h THEN h["Origin"][1] ELSE <<>>

(***************************************************************************)
(* isOriginAllowed.  An entry of allow_origins is "*", a host, or "*." and *)
(* a domain; the scheme plays no part, and an entry that does not parse is *)
(* skipped, while an origin that does not parse is refused.                *)
(***************************************************************************)
AllowAll        == [t |-> "all",    host |-> <<>>]
AllowHost(h)    == [t |-> "host",   host |-> h]
AllowBelow(h)   == [t |-> "below",  host |-> h]
AllowBroken     == [t |-> "broken", host |-> <<>>]
BrokenOrigin    == <<"%">>

IsOriginAllowed(origin, allowOrigins) ==
    /\ origin # BrokenOrigin
    /\ \E i \in DOMAIN allowOrigins : LET a == allowOrigins[i] IN
          \/ a.t = "all"
          \/ a.t = "host"  /\ a.host = origin
          \/ a.t = "below" /\ Len(origin) > Len(a.host) /\ IsSuffix(a.host, origin)

(***************************************************************************)
(* generateNormalHeaders and generatePreflightHeaders: which headers they  *)
(* hold follows from the options; the lists inside are only rewritten.     *)
(***************************************************************************)
NormalHeaders(o) ==
    (IF o.allowCredentials THEN "Allow-Credentials" :> <<"true">> ELSE NoHeader)
    @@ (IF o.allowMethods # <<>> THEN "Allow-Methods" :> o.allowMethods ELSE NoHeader)
    @@ (IF o.exposeHeaders # <<>> THEN "Expose-Headers" :> o.exposeHeaders ELSE NoHeader)
    @@ "Vary" :> <<"Origin">>

PreflightHeaders(o) ==
    (IF o.allowCredentials THEN "Allow-Credentials" :> <<"true">> ELSE NoHeader)
    @@ (IF o.allowMethods # <<>> THEN "Allow-Methods" :> o.allowMethods ELSE NoHeader)
    @@ (IF o.allowHeaders # <<>> THEN "Allow-Headers" :> o.allowHeaders ELSE NoHeader)
    @@ "Max-Age" :> <<"600">>
    @@ "Vary" :> <<"Origin", "Request-Method", "Request-Headers">>

\* The headers cors puts over those of an answer it lets through.
WithCors(o, origin, h) == SetKey(NormalHeaders(o) @@ h, "Allow-Origin", origin)
Preflight(o, origin)   == SetKey(PreflightHeaders(o), "Allow-Origin", origin)

(***************************************************************************)
(* The header part of rewrite: all of Set, then all of Add, then Remove.   *)
(***************************************************************************)
RewriteHeaders(rw, h) ==
    LET set == [k \in DOMAIN rw.set |-> <<rw.set[k]>>] @@ h
        add == FoldLeft(LAMBDA x, kv : AddKey(x, kv[1], kv[2]), set, rw.add)
    IN  [k \in DOMAIN add \ rw.remove |-> add[k]]
=============================================================================
