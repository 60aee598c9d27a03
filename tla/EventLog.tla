------------------------------ MODULE EventLog ------------------------------
(***************************************************************************)
(* What one event stream promises its callers: a log that only grows, that *)
(* holds each idempotency key once, and whose acknowledgements name events *)
(* that are in the log for good.  Locks, temporary files, directory        *)
(* listings and crashes are the business of EventStream, which implements  *)
(* this specification.                                                     *)
(***************************************************************************)
EXTENDS Naturals, Sequences

CONSTANTS
    Key,    \* idempotency keys
    Body    \* what an event says besides its key (type and payload)

Request == [key : Key, body : Body]

VARIABLES
    log,    \* the requests committed so far, oldest first
    told    \* the histories (prefixes of log) some caller was given as identity

vars == <<log, told>>

Keys(h) == {h[i].key : i \in DOMAIN h}

PrefixesOf(h) == {SubSeq(h, 1, i) : i \in 1 .. Len(h)}

Init == log = <<>> /\ told = {}

\* A request with a key the log does not hold is appended at the end.
Commit(r) ==
    /\ r.key \notin Keys(log)
    /\ log' = Append(log, r)
    /\ UNCHANGED told

\* A caller learns the identity of an event that is already in the log: its
\* own, or the one an earlier append with the same key and body committed.
Tell(h) ==
    /\ h \in PrefixesOf(log)
    /\ told' = told \cup {h}
    /\ UNCHANGED log

Next ==
    \/ \E r \in Request : Commit(r)
    \/ \E h \in PrefixesOf(log) : Tell(h)

Spec == Init /\ [][Next]_vars
=============================================================================
