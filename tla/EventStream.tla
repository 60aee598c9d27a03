---------------------------- MODULE EventStream ----------------------------
(***************************************************************************)
(* One append-only, hash-linked event stream: a directory of immutable     *)
(* event files shared by several processes (store/event_stream.py and the  *)
(* write-once commit of store/safe_io.py).                                 *)
(*                                                                         *)
(* append() holds the directory's .append.lock from before it lists the    *)
(* directory until the new file is linked and its temporary name removed;  *)
(* read_verified() takes no lock.  A process may die between any two file  *)
(* system calls: the kernel drops its lock, its temporary file stays.      *)
(*                                                                         *)
(* An event's content identity hashes its own fields and its predecessor's *)
(* identity, so it commits to the whole history up to that event.  SHA-256 *)
(* is taken to be injective: an identity IS that history, a sequence of    *)
(* requests.                                                               *)
(***************************************************************************)
EXTENDS Naturals, Sequences, FiniteSets

CONSTANTS
    Proc,        \* processes that append to and read the stream
    Key, Body,   \* idempotency keys; everything else an event says
    NoProc,      \* nobody holds the lock
    MaxOps,      \* bound: operations started by each process
    MaxCrashes   \* bound: crashes of each process

ASSUME NoProcAssumption == NoProc \notin Proc
ASSUME BoundsAssumption == MaxOps \in Nat /\ MaxCrashes \in Nat

VARIABLES
    events,   \* the event files in the directory
    temps,    \* names of the temporary files in the directory
    lock,     \* holder of .append.lock
    pc,       \* the file-system call each process makes next
    op,       \* the operation a process is executing, or executed last
    seen,     \* event files in the process's directory listing
    listed,   \* temporary names in the process's directory listing
    reply,    \* how the process's last operation ended
    ops, crashes,   \* per-process counters (bounds and temporary names)
    acked,    \* history variable: identities returned by append so far
    known     \* history variable: acked when the running operation began

vars == <<events, temps, lock, pc, op, seen, listed, reply, ops, crashes,
          acked, known>>

Request == [key : Key, body : Body]
Ended(k) == [kind |-> k]
Stored(h) == [kind |-> "stored", history |-> h]
View(h) == [kind |-> "view", history |-> h]

Identity(e) == Append(e.predecessor, e.request)

PrefixesOf(h) == {SubSeq(h, 1, i) : i \in 1 .. Len(h)}

\* The file an event is: position, link to the identity before it, request.
EventAt(h, i) ==
    [sequence |-> i, predecessor |-> SubSeq(h, 1, i - 1), request |-> h[i]]

EventsOf(h) == {EventAt(h, i) : i \in 1 .. Len(h)}

\* The history the last file in name order commits to.
HistoryOf(S) ==
    IF S = {} THEN <<>>
    ELSE Identity(CHOOSE e \in S : \A f \in S : f.sequence <= e.sequence)

UniqueKeys(h) ==
    \A i, j \in DOMAIN h : h[i].key = h[j].key => i = j

\* The checks of read_verified over the listed event files: contiguous
\* sequence numbers, every predecessor link, no idempotency key twice.
IsChain(S) ==
    /\ S = EventsOf(HistoryOf(S))
    /\ UniqueKeys(HistoryOf(S))

-----------------------------------------------------------------------------

Init ==
    /\ events = {} /\ temps = {} /\ lock = NoProc
    /\ pc = [p \in Proc |-> "idle"]
    /\ op = [p \in Proc |-> [kind |-> "read"]]
    /\ seen = [p \in Proc |-> {}]
    /\ listed = [p \in Proc |-> {}]
    /\ reply = [p \in Proc |-> Ended("none")]
    /\ ops = [p \in Proc |-> 0]
    /\ crashes = [p \in Proc |-> 0]
    /\ acked = {}
    /\ known = [p \in Proc |-> {}]

Start(p, o, first) ==
    /\ pc[p] = "idle" /\ ops[p] < MaxOps
    /\ ops' = [ops EXCEPT ![p] = @ + 1]
    /\ op' = [op EXCEPT ![p] = o]
    /\ pc' = [pc EXCEPT ![p] = first]
    /\ reply' = [reply EXCEPT ![p] = Ended("none")]
    /\ known' = [known EXCEPT ![p] = acked]
    /\ UNCHANGED <<events, temps, lock, seen, listed, crashes, acked>>

StartAppend(p) ==
    \E r \in Request : Start(p, [kind |-> "append", request |-> r], "locking")

StartRead(p) == Start(p, [kind |-> "read"], "listing")

\* flock(LOCK_EX): blocks until nobody holds the lock.
Acquire(p) ==
    /\ pc[p] = "locking" /\ lock = NoProc
    /\ lock' = p
    /\ pc' = [pc EXCEPT ![p] = "listing"]
    /\ UNCHANGED <<events, temps, op, seen, listed, reply, ops, crashes, acked, known>>

\* Mutant: a conflict leaves the lock taken.
FinishLocked(p, r) ==
    /\ pc' = [pc EXCEPT ![p] = "idle"]
    /\ reply' = [reply EXCEPT ![p] = r]
    /\ lock' = IF lock = p /\ r.kind # "conflict" THEN NoProc ELSE lock
    /\ acked' = IF r.kind = "stored" THEN acked \cup {r.history} ELSE acked

\* The operation returns or raises; append's context manager unlocks.
Finish(p, r) ==
    /\ pc' = [pc EXCEPT ![p] = "idle"]
    /\ reply' = [reply EXCEPT ![p] = r]
    /\ lock' = IF lock = p THEN NoProc ELSE lock
    /\ acked' = IF r.kind = "stored" THEN acked \cup {r.history} ELSE acked

\* Mutant: the process remembers its first listing.
ListOnce(p) ==
    /\ pc[p] = "listing"
    /\ seen' = [seen EXCEPT ![p] = IF @ = {} THEN events ELSE @]
    /\ listed' = [listed EXCEPT ![p] = temps]
    /\ pc' = [pc EXCEPT ![p] = "verifying"]
    /\ UNCHANGED <<events, temps, lock, op, reply, ops, crashes, acked, known>>

\* read_verified, first half: one directory listing.
ListDirectory(p) ==
    /\ pc[p] = "listing"
    /\ seen' = [seen EXCEPT ![p] = events]
    /\ listed' = [listed EXCEPT ![p] = temps]
    /\ pc' = [pc EXCEPT ![p] = "verifying"]
    /\ UNCHANGED <<events, temps, lock, op, reply, ops, crashes, acked, known>>

\* Every listed entry is stat'ed, temporary names too, before it is skipped:
\* one that has vanished since the listing raises EventStreamCorrupt.
Verified(p) == listed[p] \subseteq temps /\ IsChain(seen[p])

VerifyFails(p) ==
    /\ pc[p] = "verifying" /\ ~Verified(p)
    /\ Finish(p, Ended("corrupt"))
    /\ UNCHANGED <<events, temps, op, seen, listed, ops, crashes, known>>

ReadReturns(p) ==
    /\ pc[p] = "verifying" /\ Verified(p) /\ op[p].kind = "read"
    /\ Finish(p, View(HistoryOf(seen[p])))
    /\ UNCHANGED <<events, temps, op, seen, listed, ops, crashes, known>>

\* Mutant: the whole request is looked up, not its key.
HolderOfRequest(p) == {e \in seen[p] : e.request = op[p].request}

Holder(p) == {e \in seen[p] : e.request.key = op[p].request.key}

\* An event with the requested key exists: the same request is answered with
\* the stored event, any other raises EventConflict.
AppendReplays(p) ==
    /\ pc[p] = "verifying" /\ Verified(p) /\ op[p].kind = "append"
    /\ \E e \in Holder(p) :
         Finish(p, IF e.request = op[p].request THEN Stored(Identity(e))
                                                ELSE Ended("conflict"))
    /\ UNCHANGED <<events, temps, op, seen, listed, ops, crashes, known>>

\* The file the process writes: one past the events it verified.
NewEvent(p) ==
    [sequence |-> Cardinality(seen[p]) + 1,
     predecessor |-> HistoryOf(seen[p]),
     request |-> op[p].request]

\* The name is unused, and the bytes go to a temporary file.
WriteTemp(p) ==
    /\ pc[p] = "verifying" /\ Verified(p) /\ op[p].kind = "append"
    /\ Holder(p) = {} /\ NewEvent(p) \notin events
    /\ temps' = temps \cup {<<p, crashes[p]>>}
    /\ pc' = [pc EXCEPT ![p] = "linking"]
    /\ UNCHANGED <<events, lock, op, seen, listed, reply, ops, crashes, acked, known>>

RemoveTemp(p) == temps' = temps \ {<<p, crashes[p]>>}

\* Mutant: a failed commit is reported as done.
CommitFailsQuietly(p) ==
    /\ pc[p] = "linking"
    /\ RemoveTemp(p)
    /\ Finish(p, Stored(Identity(NewEvent(p))))
    /\ UNCHANGED <<events, op, seen, listed, ops, crashes, known>>

\* Writing, syncing or linking fails (an EventStreamCorrupt in the code, kept
\* apart here from a history that does not verify), or the final name turned up meanwhile:
\* nothing is committed and the temporary file is removed.
CommitFails(p) ==
    /\ pc[p] = "linking"
    /\ RemoveTemp(p)
    /\ Finish(p, Ended("io_error"))
    /\ UNCHANGED <<events, op, seen, listed, ops, crashes, known>>

\* os.link publishes the event and never replaces an existing name.
Link(p) ==
    /\ pc[p] = "linking" /\ NewEvent(p) \notin events
    /\ events' = events \cup {NewEvent(p)}
    /\ pc' = [pc EXCEPT ![p] = "linked"]
    /\ UNCHANGED <<temps, lock, op, seen, listed, reply, ops, crashes, acked, known>>

\* After the link the directory is synced and the temporary file removed; a
\* failed sync raises although the event is in the directory.
AppendReturns(p) ==
    /\ pc[p] = "linked"
    /\ RemoveTemp(p)
    /\ \/ Finish(p, Stored(Identity(NewEvent(p))))
       \/ Finish(p, Ended("io_error"))
    /\ UNCHANGED <<events, op, seen, listed, ops, crashes, known>>

\* The process dies between two calls and is restarted: files stay.
Crash(p) ==
    /\ pc[p] # "idle" /\ crashes[p] < MaxCrashes
    /\ crashes' = [crashes EXCEPT ![p] = @ + 1]
    /\ pc' = [pc EXCEPT ![p] = "idle"]
    /\ lock' = IF lock = p THEN NoProc ELSE lock
    /\ UNCHANGED <<events, temps, op, seen, listed, reply, ops, acked, known>>

Step(p) ==
    \/ ListDirectory(p) \/ VerifyFails(p) \/ ReadReturns(p)
    \/ AppendReplays(p) \/ WriteTemp(p) \/ CommitFails(p) \/ Link(p)
    \/ AppendReturns(p)

Next ==
    \E p \in Proc :
        \/ StartAppend(p) \/ StartRead(p) \/ Acquire(p) \/ Step(p) \/ Crash(p)

\* A process that is running its own code keeps running it; no fairness is
\* assumed of flock, of callers or of crashes.
Fairness == \A p \in Proc : WF_vars(Step(p))

Spec == Init /\ [][Next]_vars /\ Fairness

-----------------------------------------------------------------------------
(* Properties                                                              *)

\* The files on disk form one verified chain, without a fork, a gap or a second
\* event of a key, and every identity append() returned names an event of it: a
\* later crash, a failed commit or another appender loses and reorders none.
AcknowledgedDurable ==
    IsChain(events) /\ acked \subseteq PrefixesOf(HistoryOf(events))

\* A successful unlocked read returns a prefix of the stream that holds every
\* event acknowledged to anyone before the read began.
ReadsFresh ==
    \A p \in Proc :
        reply[p].kind = "view" =>
            /\ reply[p].history \in PrefixesOf(HistoryOf(events)) \cup {<<>>}
            /\ known[p] \subseteq PrefixesOf(reply[p].history)

\* Whoever holds the append lock gives it up, whichever way the append ends.
LockReleased == \A p \in Proc : lock = p ~> lock # p

\* The class documentation says EventStreamCorrupt is "raised when an event
\* chain fails verification": a refused read means the chain is broken.
CorruptOnlyIfBroken ==
    \A p \in Proc : reply[p].kind = "corrupt" => ~IsChain(events)

Log == INSTANCE EventLog WITH log <- HistoryOf(events), told <- acked

\* The stream implements the abstract idempotent log.
ImplementsLog == Log!Spec
=============================================================================
