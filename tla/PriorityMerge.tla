---------------------------- MODULE PriorityMerge ----------------------------
(***************************************************************************)
(* How the files of the priority directory change the endpoints of the     *)
(* main configuration (config/config.go).  An endpoint is a record with    *)
(* its key, the method and the path; a file is a record that says whether  *)
(* it is a .yaml file, whether it parses, and the endpoints it holds.      *)
(***************************************************************************)
EXTENDS Naturals, Sequences, SequencesExt

Keys(endpoints) == {endpoints[i].key : i \in DOMAIN endpoints}

(***************************************************************************)
(* MakeReplaceOrPrependEndpointFn.  The index is built once, from the main *)
(* configuration, the later of two equal keys winning.  It is not moved    *)
(* when an endpoint is put in front.                                       *)
(***************************************************************************)
Index(origin) ==
    [k \in Keys(origin) |->
        CHOOSE i \in DOMAIN origin :
           /\ origin[i].key = k
           /\ \A j \in DOMAIN origin : origin[j].key = k => j <= i]

ReplaceOrPrepend(index, dst, item) ==
    IF item.key \in DOMAIN index THEN [dst EXCEPT ![index[item.key]] = item]
    ELSE <<item>> \o dst

\* mergePriorityConfig: the readable .yaml files, in the order of the directory.
Held(file) == IF file.yaml /\ file.parses THEN file.endpoints ELSE <<>>
Items(files) ==
    LET read[n \in 0..Len(files)] ==
            IF n = 0 THEN <<>> ELSE read[n - 1] \o Held(files[n])
    IN  read[Len(files)]

\* The inner loop of mergePriorityConfig, over the endpoints of all files.
Merged(origin, items) ==
    LET dst[n \in 0..Len(items)] ==
            IF n = 0 THEN origin ELSE ReplaceOrPrepend(Index(origin), dst[n - 1], items[n])
    IN  dst[Len(items)]

\* Bug: the files are merged from the last to the first.
MergePriorityConfigBackwards(origin, files) == Merged(origin, Reverse(Items(files)))

MergePriorityConfig(origin, files) == Merged(origin, Items(files))

\* Where a list of endpoints names a key.
Places(endpoints, k) == {i \in DOMAIN endpoints : endpoints[i].key = k}

\* The endpoint the router serves a key with: the first that was registered.
\* It is a set of at most one endpoint.
ServedBy(endpoints, k) ==
    LET places == Places(endpoints, k)
    IN  {endpoints[i] : i \in {p \in places : \A q \in places : p <= q}}

(***************************************************************************)
(* The reference: a key is served by the last item that names it, and by   *)
(* the main configuration if none does.                                    *)
(***************************************************************************)
Effective(origin, items, k) ==
    LET places == Places(items, k)
    IN  IF places = {} THEN ServedBy(origin, k)
        ELSE {items[i] : i \in {p \in places : \A q \in places : q <= p}}

\* The main configuration names a key twice: the index holds the later place,
\* the router serves the earlier one.
Repeats(origin, k) == \E i, j \in Places(origin, k) : i # j

\* A new endpoint stands before one that replaces: the index is off by then.
Shifts(origin, items) ==
    \E i, j \in DOMAIN items :
       i < j /\ items[i].key \notin Keys(origin) /\ items[j].key \in Keys(origin)
=============================================================================
