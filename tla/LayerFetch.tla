------------------------------ MODULE LayerFetch ------------------------------
(***************************************************************************)
(* The fetch of one layer: fetch_layer and join_fetch                      *)
(* (lib/src/container/unencapsulate.rs), the blocking import of a base     *)
(* layer (unencapsulate_base in lib/src/container/store.rs), write_tar and *)
(* filter_tar_async (lib/src/tar/write.rs) for a derived layer, and        *)
(* spawn_blocking_cancellable (lib/src/tokio_util.rs).                     *)
(*                                                                         *)
(*   proxy --pipe--> thread                          (base layer)          *)
(*   proxy --pipe--> thread --duplex--> copier --stdin--> ostree commit    *)
(*                                                   (derived layer)       *)
(*                                                                         *)
(* The proxy (skopeo) writes the blob to a pipe, verifies its digest and   *)
(* answers the driver.  A thread reads the pipe.  For a base layer it      *)
(* stores the layer itself; for a derived layer it filters the archive     *)
(* into an in-memory pipe that the future copies to a child process.  The  *)
(* future joins worker and driver, and may be dropped at any time.         *)
(***************************************************************************)
EXTENDS Integers

CONSTANTS
    Size,       \* blocks of the blob
    Need,       \* blocks after which the tar reader has seen its end marker
    PipeCap,    \* blocks the pipe of the proxy holds
    DuplexCap   \* blocks the duplex of filter_tar_async holds

ASSUME SizeAssumption ==
    /\ Size \in Nat /\ Need \in Nat /\ Need <= Size
    /\ PipeCap \in Nat \ {0} /\ DuplexCap \in Nat \ {0}

VARIABLES
    kind,      \* "base" or "derived"
    progress,  \* the caller asked for byte progress
    proxy,     \* the state of the proxy; it has closed its end unless "sending"
    sent,      \* blocks the proxy has written
    taken,     \* blocks the thread has read
    reader,    \* our end of the pipe
    driver,    \* what the driver future returned: of an error, the end of its text
    thread,    \* the blocking thread
    cancel,    \* the cancellable of spawn_blocking_cancellable
    piped,     \* blocks written to the duplex, the end marker included
    ending,    \* whether the filtered archive ends after all its entries
    copied,    \* blocks the child has received
    copier,    \* tokio::io::copy into the child's stdin
    child,     \* the `ostree commit` process
    stored,    \* what the ref of the layer holds
    worker,    \* what the worker future returned
    result,    \* what join_fetch returned
    dropped,   \* the caller dropped the future
    fault      \* something outside the fetch itself has failed

Errors == {"worker", "driver", "both"}

given == <<kind, progress>>
proxySide == <<proxy, sent>>
threadSide == <<taken, reader, thread, cancel>>
childSide == <<piped, ending, copied, copier, child>>
futureSide == <<driver, worker, result, dropped>>
vars == <<given, proxySide, threadSide, childSide, futureSide, stored, fault>>

Init ==
    /\ kind \in {"base", "derived"} /\ progress \in BOOLEAN
    /\ proxy = "sending" /\ sent = 0
    /\ taken = 0 /\ reader = "open" /\ thread = "queued" /\ cancel = "none"
    /\ piped = 0 /\ ending = "none" /\ copied = 0 /\ copier = "run"
    /\ child = IF kind = "derived" THEN "run" ELSE "none"
    /\ driver = "wait" /\ worker = "wait" /\ result = "none" /\ dropped = FALSE
    /\ stored = "none" /\ fault = FALSE

(***************************************************************************)
(* The worker future is still there to be polled.                          *)
(***************************************************************************)
Alive == worker = "wait" /\ ~dropped
ThreadEnded == thread \in {"ok", "err"}

-----------------------------------------------------------------------------
(***************************************************************************)
(* The proxy (external): it writes the blob and verifies its digest; it    *)
(* fails on its own, or because we closed the pipe.                        *)
(***************************************************************************)
ProxyWrite ==
    /\ proxy = "sending" /\ reader = "open"
    /\ sent < Size /\ sent - taken < PipeCap
    /\ sent' = sent + 1
    /\ UNCHANGED <<given, proxy, threadSide, childSide, futureSide, stored, fault>>

ProxyFinish ==
    /\ proxy = "sending" /\ sent = Size
    /\ proxy' \in {"ok", "corrupt"}
    /\ fault' = (fault \/ proxy' = "corrupt")
    /\ UNCHANGED <<given, sent, threadSide, childSide, futureSide, stored>>

ProxyFails ==
    /\ proxy = "sending"
    /\ proxy' = "failed" /\ fault' = TRUE
    /\ UNCHANGED <<given, sent, threadSide, childSide, futureSide, stored>>

ProxyBroken ==
    /\ proxy = "sending" /\ reader = "closed" /\ sent < Size
    /\ proxy' = "broken"
    /\ UNCHANGED <<given, sent, threadSide, childSide, futureSide, stored, fault>>

(***************************************************************************)
(* The driver that fetch_layer returns: the answer of the proxy, joined    *)
(* with the progress loop, which ends when the reader is dropped.  Of an   *)
(* error nothing but its text comes across.  That of a pipe we closed ends *)
(* in "broken pipe"; that of a failure of the proxy's own may as well (its *)
(* connection to the registry broke), that of a wrong digest does not.     *)
(***************************************************************************)
ErrorTexts(p) ==
    CASE p = "broken" -> {"broken_pipe"}
      [] p = "failed" -> {"broken_pipe", "other"}
      [] p = "corrupt" -> {"other"}

DriverAnswers ==
    /\ driver = "wait" /\ ~dropped
    /\ proxy # "sending"
    /\ progress => reader = "closed"
    /\ driver' \in IF proxy = "ok" THEN {"ok"} ELSE ErrorTexts(proxy)
    /\ UNCHANGED <<given, proxySide, threadSide, childSide, worker, result, dropped, stored, fault>>

-----------------------------------------------------------------------------
(***************************************************************************)
(* The blocking thread.  Only the import of a base layer has a             *)
(* cancellable: it is made, with its drop guard, when the closure starts.  *)
(***************************************************************************)
ThreadStarts ==
    /\ thread = "queued"
    /\ thread' = "run"
    /\ cancel' = IF kind = "base" THEN "armed" ELSE "none"
    /\ UNCHANGED <<given, proxySide, taken, reader, childSide, futureSide, stored, fault>>

\* Mutation of WantsMore.
WantsFewer == taken < Need - 1

(***************************************************************************)
(* The tar reader asks for blocks until it has seen the end marker; what   *)
(* follows in the blob is never read.  When the stream ends before, this   *)
(* is an error inside of an entry or of a compressed block, and a normal   *)
(* end between two entries of an uncompressed archive.                     *)
(***************************************************************************)
WantsMore == taken < Need
AtEof == taken = sent /\ proxy # "sending"

\* Mutation of ReadBlock.
ReadBlockUnblocked ==
    /\ thread = "run" /\ WantsMore /\ taken < sent
    /\ kind = "derived" => Alive
    /\ taken' = taken + 1
    /\ piped' = IF kind = "derived" THEN piped + 1 ELSE piped
    /\ UNCHANGED <<given, proxySide, reader, thread, cancel, ending, copied, copier, child, futureSide,
                   stored, fault>>

ReadBlock ==
    /\ thread = "run" /\ WantsMore /\ taken < sent
    /\ kind = "derived" => Alive /\ piped - copied < DuplexCap
    /\ taken' = taken + 1
    /\ piped' = IF kind = "derived" THEN piped + 1 ELSE piped
    /\ UNCHANGED <<given, proxySide, reader, thread, cancel, ending, copied, copier, child, futureSide,
                   stored, fault>>

(***************************************************************************)
(* The import of a base layer: the transaction is committed while the      *)
(* stream is open; the stream and the drop guard go with the closure.      *)
(***************************************************************************)
ReturnFromTask(r) ==
    /\ thread' = r /\ reader' = "closed" /\ cancel' = "triggered"
    /\ UNCHANGED <<given, proxySide, taken, childSide, futureSide, stored>>

ImportEndsEarly ==
    /\ kind = "base" /\ thread = "run" /\ WantsMore /\ AtEof
    /\ ReturnFromTask("err")
    /\ UNCHANGED fault

ImportFails ==
    /\ kind = "base" /\ thread = "run"
    /\ ReturnFromTask("err")
    /\ fault' = TRUE

CommitLayer ==
    /\ kind = "base" /\ thread = "run" /\ (WantsMore => AtEof)
    /\ thread' = "stored"
    /\ stored' = IF WantsMore THEN "cut" ELSE "whole"
    /\ UNCHANGED <<given, proxySide, taken, reader, cancel, childSide, futureSide, fault>>

ImportReturns ==
    /\ thread = "stored"
    /\ ReturnFromTask("ok")
    /\ UNCHANGED fault

(***************************************************************************)
(* filter_tar of a derived layer: the archive writer adds the end marker   *)
(* also when it is dropped after an error.  The thread passes the source   *)
(* back to filter_tar_async; once that future is gone, writing fails and   *)
(* the thread drops the source.                                            *)
(***************************************************************************)
FilterStops ==
    /\ kind = "derived" /\ thread = "run"
    /\ \/ (WantsMore => AtEof) /\ thread' = "finish" /\ UNCHANGED fault
       \/ WantsMore /\ AtEof /\ thread' = "fail" /\ UNCHANGED fault
       \/ WantsMore /\ thread' = "fail" /\ fault' = TRUE
    /\ ending' = IF WantsMore THEN "cut" ELSE "whole"
    /\ UNCHANGED <<given, proxySide, taken, reader, cancel, piped, copied, copier, child, futureSide, stored>>

DecompressorFails ==
    /\ kind = "derived" /\ thread = "run" /\ taken = 0
    /\ thread' = "err" /\ reader' = "closed" /\ fault' = TRUE
    /\ UNCHANGED <<given, proxySide, taken, cancel, childSide, futureSide, stored>>

FilterReturns ==
    /\ thread \in {"finish", "fail"} /\ Alive /\ piped - copied < DuplexCap
    /\ thread' = IF thread = "finish" THEN "ok" ELSE "err"
    /\ piped' = piped + 1
    /\ UNCHANGED <<given, proxySide, taken, reader, cancel, ending, copied, copier, child, futureSide,
                   stored, fault>>

FilterAbandoned ==
    /\ kind = "derived" /\ ~Alive
    /\ thread \in {"finish", "fail"} \/ (thread = "run" /\ (taken < sent \/ AtEof))
    /\ thread' = "err" /\ reader' = "closed"
    /\ UNCHANGED <<given, proxySide, taken, cancel, childSide, futureSide, stored, fault>>

-----------------------------------------------------------------------------
(***************************************************************************)
(* write_tar: the copier, the child process and the future that waits.     *)
(***************************************************************************)
CopyBlock ==
    /\ kind = "derived" /\ Alive /\ copier = "run"
    /\ copied < piped /\ child = "run"
    /\ copied' = copied + 1
    /\ UNCHANGED <<given, proxySide, threadSide, piped, ending, copier, child, futureSide, stored, fault>>

CopyEnds ==
    /\ kind = "derived" /\ Alive /\ copier = "run"
    /\ \/ copied = piped /\ ThreadEnded /\ copier' = "ok"
       \/ copied < piped /\ child # "run" /\ copier' = "err"
    /\ UNCHANGED <<given, proxySide, threadSide, piped, ending, copied, child, futureSide, stored, fault>>

(***************************************************************************)
(* `ostree commit --branch` (external) stores what it read up to the end   *)
(* marker, sets the ref and exits.                                         *)
(***************************************************************************)
ChildCommits ==
    /\ child = "run"
    /\ ThreadEnded /\ copied = piped /\ piped > 0
    /\ child' = "stored" /\ stored' = ending
    /\ UNCHANGED <<given, proxySide, threadSide, piped, ending, copied, copier, futureSide, fault>>

ChildExits ==
    /\ child = "stored"
    /\ child' = "exit0"
    /\ UNCHANGED <<given, proxySide, threadSide, piped, ending, copied, copier, futureSide, stored, fault>>

ChildFails ==
    /\ child = "run"
    /\ child' = "exit1" /\ fault' = TRUE
    /\ UNCHANGED <<given, proxySide, threadSide, piped, ending, copied, copier, futureSide, stored>>

\* Mutation of DropWriteTar.
DropWriteTarKeepsSource ==
    /\ child' = IF child \in {"run", "stored"} THEN "killed" ELSE child
    /\ UNCHANGED <<given, proxySide, threadSide, piped, ending, copied, copier, driver, result, stored>>

(***************************************************************************)
(* Dropping the futures of write_tar kills the child, and drops the source *)
(* when filter_tar_async has it.                                           *)
(***************************************************************************)
DropWriteTar ==
    /\ child' = IF child \in {"run", "stored"} THEN "killed" ELSE child
    /\ reader' = IF ThreadEnded THEN "closed" ELSE reader
    /\ UNCHANGED <<given, proxySide, taken, thread, cancel, piped, ending, copied, copier, driver, result,
                   stored>>

SetupFails ==
    /\ kind = "derived" /\ Alive /\ thread = "queued"
    /\ worker' = "err" /\ fault' = TRUE
    /\ thread' = "err" /\ reader' = "closed" /\ child' = "killed"
    /\ UNCHANGED <<given, proxySide, taken, cancel, piped, ending, copied, copier, driver, result,
                   dropped, stored>>

(***************************************************************************)
(* filter_tar_async waits for the filter and for the copier, and drops the *)
(* source when it returns.                                                 *)
(***************************************************************************)
FilterJoined == kind = "derived" /\ Alive /\ ThreadEnded /\ copier # "run"
FilterOk == thread = "ok" /\ copier = "ok"

FilterSucceeds ==
    /\ FilterJoined /\ FilterOk /\ reader = "open"
    /\ reader' = "closed"
    /\ UNCHANGED <<given, proxySide, taken, thread, cancel, childSide, futureSide, stored, fault>>

FilterFails ==
    /\ FilterJoined /\ ~FilterOk
    /\ worker' = "err"
    /\ DropWriteTar
    /\ UNCHANGED <<dropped, fault>>

\* Mutation of StatusFails.
StatusJoined ==
    /\ FilterJoined /\ child = "exit1"
    /\ worker' = "err"
    /\ DropWriteTar
    /\ UNCHANGED <<dropped, fault>>

(***************************************************************************)
(* The exit status of the child is an error of its own, so that try_join!  *)
(* ends although the filter may be blocked on a duplex nobody reads.       *)
(***************************************************************************)
StatusFails ==
    /\ Alive /\ child = "exit1"
    /\ worker' = "err"
    /\ DropWriteTar
    /\ UNCHANGED <<dropped, fault>>

WriteTarReturns ==
    /\ FilterJoined /\ FilterOk /\ reader = "closed" /\ child = "exit0"
    /\ worker' = "ok"
    /\ UNCHANGED <<given, proxySide, threadSide, childSide, driver, result, dropped, stored, fault>>

\* Mutation of TaskJoined.
TaskJoinedOuter ==
    /\ kind = "base" /\ Alive /\ ThreadEnded
    /\ worker' = "ok"
    /\ UNCHANGED <<given, proxySide, threadSide, childSide, driver, result, dropped, stored, fault>>

TaskJoined ==
    /\ kind = "base" /\ Alive /\ ThreadEnded
    /\ worker' = thread
    /\ UNCHANGED <<given, proxySide, threadSide, childSide, driver, result, dropped, stored, fault>>

-----------------------------------------------------------------------------
\* Mutations of Joined.
JoinedIgnoringDriver(w, d) ==
    CASE w = "ok" -> "ok"
      [] w = "err" /\ d = "other" -> "both"
      [] w = "err" /\ d # "other" -> "worker"
JoinedSwapped(w, d) ==
    CASE w = "ok" /\ d = "ok" -> "ok"
      [] w = "ok" /\ d # "ok" -> "driver"
      [] w = "err" /\ d = "broken_pipe" -> "both"
      [] w = "err" /\ d # "broken_pipe" -> "worker"

(***************************************************************************)
(* join_fetch: which error is reported.  Where both failed, the text of    *)
(* the driver's error decides whether it is taken for a consequence.       *)
(***************************************************************************)
Joined(w, d) ==
    CASE w = "ok" /\ d = "ok" -> "ok"
      [] w = "ok" /\ d # "ok" -> "driver"
      [] w = "err" /\ d = "other" -> "both"
      [] w = "err" /\ d \in {"ok", "broken_pipe"} -> "worker"

JoinFetch ==
    /\ result = "none" /\ ~dropped
    /\ worker # "wait" /\ driver # "wait"
    /\ result' = Joined(worker, driver)
    /\ UNCHANGED <<given, proxySide, threadSide, childSide, driver, worker, dropped, stored, fault>>

(***************************************************************************)
(* The caller drops the future.  The blocking thread is not stopped.       *)
(***************************************************************************)
DropFetch ==
    /\ result = "none" /\ ~dropped
    /\ dropped' = TRUE
    /\ IF kind = "derived" THEN DropWriteTar
       ELSE UNCHANGED <<given, proxySide, threadSide, childSide, driver, result, stored>>
    /\ UNCHANGED <<worker, fault>>

-----------------------------------------------------------------------------
ProxyStep == ProxyWrite \/ ProxyFinish \/ ProxyFails \/ ProxyBroken
ThreadStep ==
    \/ ThreadStarts \/ ReadBlock \/ ImportEndsEarly \/ ImportFails \/ CommitLayer \/ ImportReturns
    \/ DecompressorFails \/ FilterStops \/ FilterReturns \/ FilterAbandoned
ChildStep == ChildCommits \/ ChildExits
FutureStep ==
    \/ DriverAnswers \/ CopyBlock \/ CopyEnds \/ FilterSucceeds \/ FilterFails \/ StatusFails
    \/ WriteTarReturns \/ TaskJoined \/ JoinFetch

Next ==
    \/ ProxyStep \/ ThreadStep \/ ChildStep \/ FutureStep
    \/ ChildFails \/ SetupFails \/ DropFetch

Spec == Init /\ [][Next]_vars

(***************************************************************************)
(* The proxy either makes progress or fails (its connections time out);    *)
(* started threads and processes run; the executor polls the future while  *)
(* it exists.  No external failure and no drop is assumed.                 *)
(***************************************************************************)
FairSpec ==
    /\ Spec
    /\ WF_vars(ProxyStep) /\ WF_vars(ThreadStep) /\ WF_vars(ChildStep) /\ WF_vars(FutureStep)

-----------------------------------------------------------------------------
(***************************************************************************)
(* Every variable has its type, and no pipe holds more than its capacity.  *)
(***************************************************************************)
TypeOK ==
    /\ kind \in {"base", "derived"} /\ progress \in BOOLEAN
    /\ proxy \in {"sending", "ok", "corrupt", "failed", "broken"}
    /\ sent \in 0..Size /\ taken \in 0..Need /\ taken <= sent /\ sent - taken <= PipeCap
    /\ reader \in {"open", "closed"}
    /\ thread \in {"queued", "run", "stored", "finish", "fail", "ok", "err"}
    /\ cancel \in {"none", "armed", "triggered"}
    /\ piped \in 0..(Need + 1) /\ copied \in 0..piped /\ piped - copied <= DuplexCap
    /\ ending \in {"none", "whole", "cut"}
    /\ copier \in {"run", "ok", "err"}
    /\ child \in {"none", "run", "stored", "exit0", "exit1", "killed"}
    /\ driver \in {"wait", "ok", "broken_pipe", "other"}
    /\ worker \in {"wait", "ok", "err"}
    /\ result \in {"none", "ok"} \cup Errors
    /\ dropped \in BOOLEAN /\ fault \in BOOLEAN
    /\ stored \in {"none", "whole", "cut"}

(***************************************************************************)
(* join_fetch succeeds only when the whole layer is stored and the proxy   *)
(* has verified the digest of all that was read.                           *)
(***************************************************************************)
OkMeansVerified == result = "ok" => stored = "whole" /\ proxy = "ok"

(***************************************************************************)
(* When the archive fills the blob, a fetch fails only because something   *)
(* outside of it failed: closing the pipe, killing the child and dropping  *)
(* the futures never turn a good layer into an error.                      *)
(***************************************************************************)
NoSelfInflictedFailure == Need = Size /\ result \in Errors => fault

(***************************************************************************)
(* join_fetch never blames the proxy for a broken pipe that we caused.  A  *)
(* failure of the proxy's own is always an error, and is reported as its   *)
(* own unless the worker has failed as well and the text of the proxy ends *)
(* in "broken pipe": then only the worker's error, which is a consequence, *)
(* is reported.  A wrong digest is always reported.                        *)
(***************************************************************************)
RightBlame ==
    Need = Size /\ result # "none" =>
        /\ result \in {"driver", "both"} => proxy \in {"failed", "corrupt"}
        /\ proxy = "corrupt" => result \in {"driver", "both"}
        /\ proxy = "failed" =>
              \/ result \in {"driver", "both"}
              \/ result = "worker" /\ driver = "broken_pipe"

(***************************************************************************)
(* The fetch keeps the contract that the image store relies on.            *)
(***************************************************************************)
Outcome == IF dropped \/ result \in Errors THEN "err" ELSE result
Abstract == INSTANCE FetchContract WITH outcome <- Outcome
Contract == Abstract!Spec

(***************************************************************************)
(* Every fetch ends or is dropped: no pipe, child or join waits forever.   *)
(***************************************************************************)
FetchEnds == <>(result # "none" \/ dropped)

(***************************************************************************)
(* After a fetch, also one that failed or was dropped, the thread and the  *)
(* child end and the pipe is closed.                                       *)
(***************************************************************************)
ResourcesReleased == <>[](ThreadEnded /\ reader = "closed" /\ child \notin {"run", "stored"})

=============================================================================
