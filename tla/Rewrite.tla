------------------------------- MODULE Rewrite -------------------------------
(***************************************************************************)
(* The path part of the rewrite middleware (middleware/rewrite), on the    *)
(* segment sequences of PathMatcher.                                       *)
(***************************************************************************)
EXTENDS PathMatcher

\* path.Clean, for paths without "." and "..": empty segments go.
Clean(path) ==
    LET kept[n \in 0..Len(path)] ==
            IF n = 0 THEN <<>>
            ELSE IF path[n] = "" THEN kept[n - 1] ELSE Append(kept[n - 1], path[n])
    IN  IF kept[Len(path)] = <<>> THEN <<"">> ELSE kept[Len(path)]

\* path.Join of an absolute prefix and a path.
Join(prefix, path) == Clean(prefix \o path)

(***************************************************************************)
(* stripPrefix cuts a prefix of the text, not of the segments: "/a" taken  *)
(* from "/ab/c" leaves "b/c", which path.Join makes absolute again.        *)
(***************************************************************************)
StripPrefix(origin, prefix) ==
    LET n    == Len(prefix)
        rest == SubSeq(origin, n + 1, Len(origin))
        cut  == IF prefix[n] = "" THEN origin[n] ELSE Chop[<<origin[n], prefix[n]>>]
    IN  IF ~ (/\ Len(origin) >= n
              /\ \A i \in 1..(n - 1) : origin[i] = prefix[i]
              /\ HasPrefix(origin[n], prefix[n]))
        THEN origin
        ELSE IF origin[n] # prefix[n] THEN Join(<<cut>>, rest)
        ELSE IF rest = <<>> THEN <<"">> ELSE rest

\* Strip first, then put the new prefix in front.  <<>> is an option not set.
RewritePath(o, path) ==
    LET stripped == IF o.stripPrefix = <<>> THEN path ELSE StripPrefix(path, o.stripPrefix)
    IN  IF o.pathRewrite = <<>> THEN stripped ELSE Join(o.pathRewrite, stripped)
=============================================================================
