----------------------------- MODULE FileReload -----------------------------
(***************************************************************************)
(* The files a middleware keeps from the configuration centre              *)
(* (pkg/loader/source.go) and what it builds from them: the RBAC enforcer  *)
(* from a model and a policy file (middleware/rbac/rbac.go), or the public *)
(* key from one certificate (middleware/jwt/jwt.go). Each file has a       *)
(* WatchFile goroutine; each of them rebuilds from all the user's files,   *)
(* in the order in which the user reads them. RBAC requests hold the read  *)
(* lock while the upstream works.                                          *)
(*                                                                         *)
(* Contents are numbered in the order of their publication. validate       *)
(* refuses Malformed contents; Loads says whether contents that are there  *)
(* together can be built from. Only the goroutine of a file writes it, so  *)
(* taking the snapshot, validating and renaming are one step.              *)
(***************************************************************************)
EXTENDS Naturals, Sequences

CONSTANTS
    Users,           \* the middlewares to look at: "rbac", "jwt"
    MaxVersion,      \* bound on the publications of a file
    Request,         \* requests that may be under way at once
    Malformed(_,_),  \* file, contents: validate refuses them
    Loads(_,_)       \* user, contents of each file: they can be built from

ASSUME ReloadAssumption ==
    /\ Users \subseteq {"rbac", "jwt"}
    /\ MaxVersion \in Nat \ {0}

File    == {"model", "policy", "key"}
Version == 0..MaxVersion

\* The files of a user in the order in which it reads them.
Order(u) == IF u = "rbac" THEN <<"model", "policy">> ELSE <<"key">>
Files(u) == {Order(u)[i] : i \in 1..Len(Order(u))}

VARIABLES
    user,       \* the middleware
    published,  \* external: the contents of each key in the centre
    delivered,  \* external: what the stream of each key delivered last
    alive,      \* the process runs and its middleware is initialised
    disk,       \* the files
    inForce,    \* what the enforcer or the key in memory was built from
    watcher,    \* where the WatchFile goroutine of a file is
    previous,   \* its snapshot of the file
    candidate,  \* what it has read so far to build from
    retried,    \* it is building from the restored file
    asking,     \* the requests with a role that call for the read lock
    readers,    \* the requests that hold the read lock
    judgedBy,   \* what the enforcer was built from that allowed a request
    overlapped, \* history: reloads overlapped, and none has run alone since
    solo        \* history: the file whose reload runs, or last ran, alone

pipe == <<user, published>>
reload == <<watcher, previous, candidate, retried>>
requests == <<asking, readers, judgedBy>>
history == <<overlapped, solo>>
vars == <<user, published, delivered, alive, disk, inForce, watcher, previous, candidate,
          retried, asking, readers, judgedBy, overlapped, solo>>

Nothing == [f \in File |-> 0]

Init ==
    /\ user \in Users
    /\ published = [f \in File |-> IF f \in Files(user) THEN 1 ELSE 0]
    /\ delivered = Nothing
    /\ alive = FALSE
    /\ disk = Nothing
    /\ inForce = Nothing
    /\ watcher = [f \in File |-> "idle"]
    /\ previous = Nothing
    /\ candidate = [f \in File |-> Nothing]
    /\ retried = [f \in File |-> FALSE]
    /\ asking = {}
    /\ readers = {}
    /\ judgedBy = [q \in Request |-> Nothing]
    /\ overlapped = FALSE /\ solo = "none"

----------------------------------------------------------------------------
(* The centre, crashes and starts *)

Publish(f) ==
    /\ f \in Files(user)
    /\ published[f] < MaxVersion
    /\ published' = [published EXCEPT ![f] = @ + 1]
    /\ UNCHANGED <<user, delivered, alive, disk, inForce, reload, requests, history>>

Restarted ==
    /\ watcher' = [f \in File |-> "idle"]
    /\ previous' = Nothing
    /\ candidate' = [f \in File |-> Nothing]
    /\ retried' = [f \in File |-> FALSE]
    /\ asking' = {}
    /\ readers' = {}
    /\ judgedBy' = [q \in Request |-> Nothing]
    /\ overlapped' = FALSE /\ solo' = "none"
    /\ delivered' = Nothing

\* The files outlive the process, whatever its watchers were doing.
Crash ==
    /\ alive
    /\ alive' = FALSE
    /\ inForce' = Nothing
    /\ Restarted
    /\ UNCHANGED <<pipe, disk>>

\* syncEssentialFiles and initializeEnforcer, or Init of jwt: whatever is
\* published replaces the files, and what cannot be used ends the start. The
\* files are synced one after the other, the policy before the model; the
\* failing one and the later ones keep their contents.
SyncFiles(u) ==
    LET bad(f)    == Malformed(f, published[f])
        before(f) == \A i, j \in 1..Len(Order(u)) :
                        Order(u)[i] = f /\ j >= i => ~bad(Order(u)[j])
    IN  [f \in File |-> IF f \in Files(u) /\ before(f) THEN published[f] ELSE disk[f]]

Start ==
    /\ ~alive
    /\ disk' = SyncFiles(user)
    /\ alive' = (disk' = published /\ Loads(user, disk'))
    /\ inForce' = IF alive' THEN disk' ELSE Nothing
    /\ UNCHANGED <<pipe, delivered, reload, requests, history>>

\* A stream ends and a new one starts with the current value.
StreamEnds(f) ==
    /\ watcher[f] = "idle" /\ delivered[f] # 0
    /\ delivered' = [delivered EXCEPT ![f] = 0]
    /\ UNCHANGED <<pipe, alive, disk, inForce, reload, requests, history>>

----------------------------------------------------------------------------
(* WatchFile *)

ValidateFile(f, v) == ~Malformed(f, v)

SnapshotFile(f) == previous' = [previous EXCEPT ![f] = disk[f]]

ReplaceFile(f, v) == disk' = [disk EXCEPT ![f] = v]

RestoreFile(f) == ReplaceFile(f, previous[f])

Goto(f, place) == watcher' = [watcher EXCEPT ![f] = place]

Overlaps(f) == \E g \in Files(user) \ {f} : watcher[g] # "idle"

\* A reload that starts during another one takes the history of being alone
\* from both of them.
RecordOverlap(f) ==
    /\ overlapped' = (overlapped \/ Overlaps(f))
    /\ solo' = IF Overlaps(f) THEN "none" ELSE f

\* Bug: contents are put in place before validate has judged them.
EventUnchecked(f) ==
    /\ alive /\ f \in Files(user) /\ watcher[f] = "idle"
    /\ delivered[f] # published[f]
    /\ delivered' = [delivered EXCEPT ![f] = published[f]]
    /\ ReplaceFile(f, published[f])
    /\ IF ~ValidateFile(f, published[f])
       THEN UNCHANGED <<reload, history>>
       ELSE /\ SnapshotFile(f)
            /\ Goto(f, "read")
            /\ RecordOverlap(f)
            /\ UNCHANGED <<candidate, retried>>
    /\ UNCHANGED <<pipe, alive, inForce, requests>>

\* snapshotFile and ReplaceFile. (Errors and deletions are only reported.)
Event(f) ==
    /\ alive /\ f \in Files(user) /\ watcher[f] = "idle"
    /\ delivered[f] # published[f]
    /\ delivered' = [delivered EXCEPT ![f] = published[f]]
    /\ IF ~ValidateFile(f, published[f])
       THEN UNCHANGED <<disk, reload, history>>
       ELSE /\ SnapshotFile(f)
            /\ ReplaceFile(f, published[f])
            /\ Goto(f, "read")
            /\ RecordOverlap(f)
            /\ UNCHANGED <<candidate, retried>>
    /\ UNCHANGED <<pipe, alive, inForce, requests>>

Unread(f) == {i \in 1..Len(Order(user)) : candidate[f][Order(user)[i]] = 0}

\* Bug: only the watcher's own file is read, the other contents are those of
\* the enforcer in use.
ReadNextOwn(f) ==
    /\ watcher[f] = "read"
    /\ \E i \in Unread(f) :
        /\ \A j \in Unread(f) : i <= j
        /\ candidate' = [candidate EXCEPT ![f][Order(user)[i]] =
              IF Order(user)[i] = f THEN disk[f] ELSE inForce[Order(user)[i]]]
    /\ UNCHANGED <<pipe, delivered, alive, disk, inForce, watcher, previous, retried, requests,
                   history>>

\* onChange reads the next of the user's files.
ReadNext(f) ==
    /\ watcher[f] = "read"
    /\ \E i \in Unread(f) :
        /\ \A j \in Unread(f) : i <= j
        /\ candidate' = [candidate EXCEPT ![f][Order(user)[i]] = disk[Order(user)[i]]]
    /\ UNCHANGED <<pipe, delivered, alive, disk, inForce, watcher, previous, retried, requests,
                   history>>

WatcherReturns(f) ==
    /\ Goto(f, "idle")
    /\ previous' = [previous EXCEPT ![f] = 0]
    /\ candidate' = [candidate EXCEPT ![f] = Nothing]
    /\ retried' = [retried EXCEPT ![f] = FALSE]

\* model.NewModelFromString and LoadPolicy, or the steps of reloadPublicKey.
Builds(f) == Loads(user, candidate[f])

\* Bug: the key in memory is taken for the one in the file.
BuildSucceedsUnchanged(f) ==
    /\ watcher[f] = "read" /\ Unread(f) = {}
    /\ Builds(f)
    /\ IF user = "jwt" THEN WatcherReturns(f)
       ELSE Goto(f, "lock") /\ UNCHANGED <<previous, candidate, retried>>
    /\ UNCHANGED <<pipe, delivered, alive, disk, inForce, requests, history>>

\* The enforcer, or the key, has been built and its lock is called for.
BuildSucceeds(f) ==
    /\ watcher[f] = "read" /\ Unread(f) = {}
    /\ Builds(f)
    /\ Goto(f, "lock")
    /\ UNCHANGED <<pipe, delivered, alive, disk, inForce, previous, candidate, retried, requests,
                   history>>

\* restoreFile and onChange again; a second failure is only reported.
BuildFails(f) ==
    /\ watcher[f] = "read" /\ Unread(f) = {}
    /\ ~Builds(f)
    /\ \/ /\ retried[f]
          /\ WatcherReturns(f)
          /\ UNCHANGED disk
       \/ /\ ~retried[f]
          /\ RestoreFile(f)
          /\ candidate' = [candidate EXCEPT ![f] = Nothing]
          /\ retried' = [retried EXCEPT ![f] = TRUE]
          /\ UNCHANGED <<watcher, previous>>
    /\ UNCHANGED <<pipe, delivered, alive, inForce, requests, history>>

\* A reload that ran alone makes up for the overlaps before it.
RecordSwap(f) ==
    /\ overlapped' = (overlapped /\ solo # f)
    /\ UNCHANGED solo

\* Bug: the new enforcer is put in place without the lock.
SwapUnlocked(f) ==
    /\ watcher[f] = "lock"
    /\ inForce' = candidate[f]
    /\ WatcherReturns(f)
    /\ RecordSwap(f)
    /\ UNCHANGED <<pipe, delivered, alive, disk, requests>>

\* The write lock is there when the readers are gone.
Swap(f) ==
    /\ watcher[f] = "lock" /\ readers = {}
    /\ inForce' = candidate[f]
    /\ WatcherReturns(f)
    /\ RecordSwap(f)
    /\ UNCHANGED <<pipe, delivered, alive, disk, requests>>

WatchFile(f) ==
    Event(f) \/ ReadNext(f) \/ BuildSucceeds(f) \/ BuildFails(f) \/ Swap(f)

----------------------------------------------------------------------------
(* Requests through the RBAC middleware *)

\* A call of Lock that waits keeps new readers out.
ReadLockFree == \A f \in File : watcher[f] # "lock"

\* The role comes from Casdoor. (A failing call ends the request.)
GetUserRoles(q) ==
    /\ alive /\ user = "rbac"
    /\ q \notin asking \cup readers
    /\ asking' = asking \cup {q}
    /\ UNCHANGED <<pipe, delivered, alive, disk, inForce, reload, readers, judgedBy, history>>

\* The enforcer refuses the role; the lock is released at once.
Deny(q) ==
    /\ q \in asking /\ ReadLockFree
    /\ asking' = asking \ {q}
    /\ UNCHANGED <<pipe, delivered, alive, disk, inForce, reload, readers, judgedBy, history>>

\* Allowed: the lock is kept while the upstream works.
Allow(q) ==
    /\ q \in asking /\ ReadLockFree
    /\ asking' = asking \ {q}
    /\ readers' = readers \cup {q}
    /\ judgedBy' = [judgedBy EXCEPT ![q] = inForce]
    /\ UNCHANGED <<pipe, delivered, alive, disk, inForce, reload, history>>

\* Bug: the lock of a request that failed upstream is never released.
RoundTripReturnsLocked(q) ==
    /\ q \in readers
    /\ UNCHANGED vars

RoundTripReturns(q) ==
    /\ q \in readers
    /\ readers' = readers \ {q}
    /\ judgedBy' = [judgedBy EXCEPT ![q] = Nothing]
    /\ UNCHANGED <<pipe, delivered, alive, disk, inForce, reload, asking, history>>

Next ==
    \/ Crash \/ Start
    \/ \E f \in File : Publish(f) \/ StreamEnds(f) \/ WatchFile(f)
    \/ \E q \in Request : GetUserRoles(q) \/ Deny(q) \/ Allow(q) \/ RoundTripReturns(q)

Spec == Init /\ [][Next]_vars

\* Goroutines run on, streams deliver, and an upstream call ends: by its
\* answer or by the time limit of its route.
Fairness ==
    /\ \A f \in File : WF_vars(WatchFile(f))
    /\ \A q \in Request : WF_vars(RoundTripReturns(q))

FairSpec == Spec /\ Fairness

----------------------------------------------------------------------------
(* Properties *)

\* Files, watchers and requests keep their types; no file ever holds contents
\* that validate refuses.
TypeOK ==
    /\ user \in Users
    /\ published \in [File -> Version] /\ delivered \in [File -> Version]
    /\ alive \in BOOLEAN
    /\ overlapped \in BOOLEAN /\ solo \in File \cup {"none"}
    /\ disk \in [File -> Version] /\ inForce \in [File -> Version]
    /\ watcher \in [File -> {"idle", "read", "lock"}]
    /\ previous \in [File -> Version]
    /\ candidate \in [File -> [File -> Version]]
    /\ retried \in [File -> BOOLEAN]
    /\ asking \subseteq Request /\ readers \subseteq Request
    /\ judgedBy \in [Request -> [File -> Version]]
    /\ \A f \in Files(user) : disk[f] # 0 => ~Malformed(f, disk[f])

(***************************************************************************)
(* Whenever no reload is under way, the enforcer or key in use is the one  *)
(* the files give, also after contents were refused: docs/REQUEST_FLOW.md: *)
(* 48 promises that a failing reload restores the file and what runs       *)
(* together (source.go:325-333).  RBAC has two watchers, and each of them  *)
(* rebuilds from both files (rbac.go:178-214, 171); reloads that overlap   *)
(* break the promise, since the one that swaps last may have read a file   *)
(* that was restored or replaced since.  What must hold even then is that  *)
(* the disagreement ends: the next reload that runs alone and gets to its  *)
(* swap leaves both in agreement, whatever the earlier ones left.          *)
(***************************************************************************)
SequentialReloadsAgree ==
    alive /\ ~overlapped /\ (\A f \in File : watcher[f] = "idle") => inForce = disk

\* While an allowed request is with its upstream, the enforcer that allowed
\* it is the one in force (rbac.go:327-343, 171-175).
JudgedByTheEnforcerInForce ==
    \A q \in readers : judgedBy[q] = inForce

\* A reload that waits for the write lock gets it, although requests keep
\* coming and hold the lock during their upstream calls (rbac.go:327).
ReloadIsNotStarved ==
    \A f \in File : watcher[f] = "lock" ~> watcher[f] # "lock"

\* With one file only (jwt.go:102-149) a published certificate that can be
\* used comes into force, whatever was refused before it, unless another is
\* published or the process dies.
UsableKey(v) ==
    /\ user = "jwt" /\ alive
    /\ published["key"] = v /\ ~Malformed("key", v)
    /\ Loads(user, [Nothing EXCEPT !["key"] = v])

UsableKeyComesIntoForce ==
    \A v \in 1..MaxVersion :
        UsableKey(v) ~> inForce["key"] = v \/ published["key"] # v \/ ~alive
=============================================================================
