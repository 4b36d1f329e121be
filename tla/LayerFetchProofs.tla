--------------------------- MODULE LayerFetchProofs ---------------------------
(***************************************************************************)
(* Proofs about LayerFetch, for every size of the blob and of the pipes:   *)
(* what a successful fetch guarantees, who is blamed for a failed one, and *)
(* that the fetch keeps FetchContract.                                     *)
(*                                                                         *)
(* The properties follow from what each actor knows about the others:      *)
(*   - ProxyFacts: what the state of the proxy says about the pipe;        *)
(*   - ThreadFacts: how the thread can have ended;                         *)
(*   - StoredFacts: a layer is cut short only after the proxy failed;      *)
(*   - ChildFacts: when the child can have stored the layer or died;       *)
(*   - FutureFacts: what the answers that were joined stand for.           *)
(***************************************************************************)
EXTENDS LayerFetch, TLAPS

ProxyFacts ==
    /\ proxy \in {"ok", "corrupt"} => sent = Size
    /\ proxy = "broken" => sent < Size /\ reader = "closed"
    /\ proxy \in {"failed", "corrupt"} => fault

ThreadFacts ==
    /\ ~ThreadEnded => reader = "open"
    /\ thread = "stored" => kind = "base"
    /\ thread \in {"finish", "fail"} => kind = "derived"
    /\ piped <= taken + 1 /\ (~ThreadEnded => piped <= taken)
    /\ thread = "fail" => fault
    /\ thread = "err" /\ (kind = "base" \/ Alive) => fault

StoredFacts ==
    /\ "cut" \in {stored, ending} /\ thread \in {"stored", "finish", "ok"} => proxy = "failed"
    /\ "whole" \in {stored, ending} => taken = Need
    /\ kind = "base" => ending = "none" /\ (stored = "none" <=> thread \notin {"stored", "ok"})
    /\ kind = "derived" /\ stored # "none" => stored = ending /\ ThreadEnded
    /\ kind = "derived" /\ thread \in {"finish", "fail", "ok"} => ending # "none"
    /\ kind = "derived" /\ ThreadEnded /\ piped > 0 /\ Alive => ending # "none"

ChildFacts ==
    /\ child = "none" <=> kind = "base"
    /\ child = "run" => stored = "none"
    /\ child \in {"stored", "exit0"} => stored # "none" /\ copied = piped
    /\ child = "exit1" => fault
    /\ child = "killed" => ~Alive
    /\ child \in {"run", "stored"} => Alive
    /\ copier = "err" => child # "run" /\ (Alive => fault)

FutureFacts ==
    /\ driver = "ok" => proxy = "ok"
    /\ driver = "other" => proxy \in {"failed", "corrupt"}
    /\ driver = "broken_pipe" => proxy \in {"failed", "broken"}
    /\ worker = "ok" => thread = "ok" /\ stored # "none"
    /\ worker = "err" => fault
    /\ result # "none" => driver # "wait" /\ worker # "wait" /\ result = Joined(worker, driver)

FetchInv == TypeOK /\ ProxyFacts /\ ThreadFacts /\ StoredFacts /\ ChildFacts /\ FutureFacts

(***************************************************************************)
(* Every step of the fetch keeps what the actors know about each other.    *)
(***************************************************************************)
LEMMA InvStep == FetchInv /\ [Next]_vars => FetchInv'
<1> SUFFICES ASSUME FetchInv, [Next]_vars PROVE FetchInv'
  OBVIOUS
<1> USE SizeAssumption
    DEF FetchInv, TypeOK, ProxyFacts, ThreadFacts, StoredFacts, ChildFacts, FutureFacts, ThreadEnded,
        Alive, Errors, given, proxySide, threadSide, childSide, futureSide
<1>1. CASE ProxyWrite
  BY <1>1 DEF ProxyWrite
<1>2. CASE ProxyFinish
  <2>1. driver = "wait" /\ proxy' \in {"ok", "corrupt"} /\ fault' \in BOOLEAN
    BY <1>2 DEF ProxyFinish
  <2>2. (fault => fault') /\ (proxy' = "corrupt" => fault')
    BY <1>2 DEF ProxyFinish
  <2>3. TypeOK'
    BY <1>2, <2>1 DEF ProxyFinish
  <2>4. ProxyFacts' /\ ThreadFacts' /\ StoredFacts'
    BY <1>2, <2>1, <2>2 DEF ProxyFinish
  <2>5. ChildFacts' /\ FutureFacts'
    BY <1>2, <2>1, <2>2 DEF ProxyFinish
  <2>6. QED
    BY <2>3, <2>4, <2>5
<1>3. CASE ProxyFails
  BY <1>3 DEF ProxyFails
<1>4. CASE ProxyBroken
  BY <1>4 DEF ProxyBroken
<1>5. CASE ThreadStarts
  BY <1>5 DEF ThreadStarts
<1>6. CASE ReadBlock
  BY <1>6 DEF ReadBlock, WantsMore
<1>7. CASE ImportEndsEarly
  BY <1>7 DEF ImportEndsEarly, ReturnFromTask, WantsMore, AtEof
<1>8. CASE ImportFails
  BY <1>8 DEF ImportFails, ReturnFromTask
<1>9. CASE CommitLayer
  <2>1. WantsMore /\ AtEof => proxy = "failed" /\ fault
    BY <1>9 DEF CommitLayer, WantsMore, AtEof
  <2>2. TypeOK' /\ ProxyFacts' /\ ThreadFacts'
    BY <1>9 DEF CommitLayer
  <2>3. StoredFacts'
    <3>1. CASE WantsMore
      BY <1>9, <2>1, <3>1 DEF CommitLayer
    <3>2. CASE ~WantsMore
      BY <1>9, <3>2 DEF CommitLayer, WantsMore
    <3>3. QED
      BY <3>1, <3>2
  <2>4. ChildFacts' /\ FutureFacts'
    BY <1>9 DEF CommitLayer
  <2>5. QED
    BY <2>2, <2>3, <2>4
<1>10. CASE ImportReturns
  BY <1>10 DEF ImportReturns, ReturnFromTask
<1>11. CASE DecompressorFails
  BY <1>11 DEF DecompressorFails
<1>12. CASE FilterStops
  <2>1. WantsMore /\ AtEof => proxy = "failed" /\ fault
    BY <1>12 DEF FilterStops, WantsMore, AtEof
  <2>2. /\ thread' \in {"finish", "fail"} /\ fault' \in BOOLEAN /\ (fault => fault')
        /\ thread' = "fail" => fault'
        /\ thread' = "finish" => ~WantsMore \/ proxy = "failed"
    BY <1>12, <2>1 DEF FilterStops
  <2>3. /\ ending' \in {"whole", "cut"} /\ (ending' = "whole" => taken = Need)
        /\ ending' = "cut" => WantsMore
    BY <1>12 DEF FilterStops, WantsMore
  <2>4. TypeOK'
    BY <1>12, <2>2, <2>3 DEF FilterStops
  <2>5. ProxyFacts' /\ ThreadFacts' /\ StoredFacts'
    BY <1>12, <2>2, <2>3 DEF FilterStops
  <2>6. ChildFacts' /\ FutureFacts'
    BY <1>12, <2>2, <2>3 DEF FilterStops
  <2>7. QED
    BY <2>4, <2>5, <2>6
<1>13. CASE FilterReturns
  BY <1>13 DEF FilterReturns
<1>14. CASE FilterAbandoned
  BY <1>14 DEF FilterAbandoned, AtEof
<1>15. CASE ChildCommits
  BY <1>15 DEF ChildCommits
<1>16. CASE ChildExits
  BY <1>16 DEF ChildExits
<1>17. CASE DriverAnswers
  BY <1>17 DEF DriverAnswers, ErrorTexts
<1>18. CASE CopyBlock
  BY <1>18 DEF CopyBlock
<1>19. CASE CopyEnds
  BY <1>19 DEF CopyEnds
<1>20. CASE FilterSucceeds
  BY <1>20 DEF FilterSucceeds, FilterJoined, FilterOk
<1>21. CASE FilterFails
  BY <1>21 DEF FilterFails, FilterJoined, FilterOk, DropWriteTar
<1>22. CASE StatusFails
  BY <1>22 DEF StatusFails, DropWriteTar
<1>23. CASE WriteTarReturns
  BY <1>23 DEF WriteTarReturns, FilterJoined, FilterOk
<1>24. CASE TaskJoined
  BY <1>24 DEF TaskJoined
<1>25. CASE JoinFetch
  BY <1>25 DEF JoinFetch, Joined
<1>26. CASE ChildFails
  BY <1>26 DEF ChildFails
<1>27. CASE SetupFails
  BY <1>27 DEF SetupFails
<1>28. CASE DropFetch
  BY <1>28 DEF DropFetch, DropWriteTar
<1>29. CASE UNCHANGED vars
  BY <1>29 DEF vars
<1>30. QED
  BY <1>1, <1>2, <1>3, <1>4, <1>5, <1>6, <1>7, <1>8, <1>9, <1>10, <1>11, <1>12, <1>13, <1>14,
     <1>15, <1>16, <1>17, <1>18, <1>19, <1>20, <1>21, <1>22, <1>23, <1>24, <1>25, <1>26, <1>27,
     <1>28, <1>29
  DEF Next, ProxyStep, ThreadStep, ChildStep, FutureStep

(***************************************************************************)
(* The initial state is well formed.                                       *)
(***************************************************************************)
LEMMA InvInit == Init => FetchInv
<1> SUFFICES ASSUME Init PROVE FetchInv
  OBVIOUS
<1> USE SizeAssumption DEF Init, ThreadEnded, Alive, Errors
<1>1. TypeOK
  <2>1. child \in {"none", "run"}
    OBVIOUS
  <2>2. /\ sent \in 0..Size /\ taken \in 0..Need /\ taken <= sent /\ sent - taken <= PipeCap
        /\ piped \in 0..(Need + 1) /\ copied \in 0..piped /\ piped - copied <= DuplexCap
    OBVIOUS
  <2>3. progress \in BOOLEAN /\ dropped \in BOOLEAN /\ fault \in BOOLEAN
    OBVIOUS
  <2>4. QED
    BY <2>1, <2>2, <2>3 DEF TypeOK
<1>2. ProxyFacts /\ ThreadFacts /\ StoredFacts
  BY DEF ProxyFacts, ThreadFacts, StoredFacts
<1>3. ChildFacts /\ FutureFacts
  BY DEF ChildFacts, FutureFacts
<1>4. QED
  BY <1>1, <1>2, <1>3 DEF FetchInv

(***************************************************************************)
(* What the actors know about each other holds in every state, whatever is *)
(* slow, fails, is dropped or is killed.                                   *)
(***************************************************************************)
THEOREM FetchInvariant == Spec => []FetchInv
<1>1. QED
  BY InvInit, InvStep, PTL DEF Spec

(***************************************************************************)
(* What the invariant says about the result of join_fetch.                 *)
(***************************************************************************)
LEMMA InvResult == FetchInv => OkMeansVerified /\ NoSelfInflictedFailure /\ RightBlame
<1> SUFFICES ASSUME FetchInv PROVE OkMeansVerified /\ NoSelfInflictedFailure /\ RightBlame
  OBVIOUS
<1> USE SizeAssumption DEF FetchInv, TypeOK, ProxyFacts, StoredFacts, FutureFacts
<1>1. ASSUME result # "none"
      PROVE  /\ worker \in {"ok", "err"} /\ driver \in {"ok", "broken_pipe", "other"}
             /\ result = "ok" <=> worker = "ok" /\ driver = "ok"
             /\ result = "driver" <=> worker = "ok" /\ driver # "ok"
             /\ result = "both" <=> worker = "err" /\ driver = "other"
             /\ result = "worker" <=> worker = "err" /\ driver # "other"
  BY <1>1 DEF Joined
<1>2. worker = "ok" => stored = "whole" \/ proxy = "failed"
  OBVIOUS
<1>3. worker = "ok" /\ Need = Size /\ driver = "broken_pipe" => proxy = "failed"
  BY <1>2
<1>4. OkMeansVerified
  BY <1>1, <1>2 DEF OkMeansVerified
<1>5. NoSelfInflictedFailure
  BY <1>1, <1>3 DEF NoSelfInflictedFailure, Errors
<1>6. RightBlame
  BY <1>1, <1>3 DEF RightBlame
<1>7. QED
  BY <1>4, <1>5, <1>6

(***************************************************************************)
(* Every variable has its type, and no pipe holds more than it can.        *)
(***************************************************************************)
THEOREM FetchTypes == Spec => []TypeOK
<1>1. FetchInv => TypeOK
  BY DEF FetchInv
<1>2. QED
  BY <1>1, FetchInvariant, PTL

(***************************************************************************)
(* join_fetch reports success only for a layer that is stored as a whole   *)
(* and whose digest the proxy has verified.                                *)
(***************************************************************************)
THEOREM SuccessIsVerified == Spec => []OkMeansVerified
<1>1. QED
  BY FetchInvariant, InvResult, PTL

(***************************************************************************)
(* When the archive fills the blob, join_fetch fails only after an         *)
(* external fault: the fetch never breaks its own pipes or child.          *)
(***************************************************************************)
THEOREM FailureIsExternal == Spec => []NoSelfInflictedFailure
<1>1. QED
  BY FetchInvariant, InvResult, PTL

(***************************************************************************)
(* And then it blames the proxy for nothing that we caused, and never      *)
(* hides a wrong digest; a failure of the proxy's own is hidden behind the *)
(* worker's only where its text ends in "broken pipe".                     *)
(***************************************************************************)
THEOREM BlameIsRight == Spec => []RightBlame
<1>1. QED
  BY FetchInvariant, InvResult, PTL

(***************************************************************************)
(* A step of the fetch stores the layer, ends the fetch, or does nothing   *)
(* that the contract speaks of.                                            *)
(***************************************************************************)
LEMMA StepKeepsContract ==
  FetchInv /\ FetchInv' /\ [Next]_vars => [Abstract!Next]_(Abstract!contractVars)
<1> SUFFICES ASSUME FetchInv, FetchInv', [Next]_vars
             PROVE  [Abstract!Next]_(Abstract!contractVars)
  OBVIOUS
<1> USE DEF Outcome, Abstract!Next, Abstract!contractVars, given, proxySide, threadSide, childSide,
            futureSide
<1>1. ASSUME stored' = stored, Outcome' = Outcome PROVE [Abstract!Next]_(Abstract!contractVars)
  BY <1>1
<1>2. CASE CommitLayer
  <2>1. stored = "none" /\ stored' \in {"whole", "cut"} /\ Outcome' = Outcome
    BY <1>2 DEF CommitLayer, FetchInv, StoredFacts, TypeOK, ThreadEnded
  <2>2. QED
    BY <2>1 DEF Abstract!Store
<1>3. CASE ChildCommits
  <2>1. stored = "none" /\ stored' \in {"whole", "cut"} /\ Outcome' = Outcome
    BY <1>3 DEF ChildCommits, FetchInv, StoredFacts, ChildFacts, TypeOK, ThreadEnded
  <2>2. QED
    BY <2>1 DEF Abstract!Store
<1>4. CASE JoinFetch
  <2>1. Outcome = "none" /\ stored' = stored /\ ~dropped /\ ~dropped'
    BY <1>4 DEF JoinFetch, Errors
  <2>2. result' \in {"ok"} \cup Errors
    BY <1>4 DEF JoinFetch, FetchInv, TypeOK, Joined, Errors
  <2>3. result' = "ok" => stored = "whole" /\ Outcome' = "ok"
    <3>1. OkMeansVerified'
      BY InvResult, PTL
    <3>2. QED
      BY <2>1, <3>1 DEF OkMeansVerified, Errors
  <2>4. result' \in Errors => Outcome' = "err"
    OBVIOUS
  <2>5. QED
    BY <2>1, <2>2, <2>3, <2>4 DEF Abstract!Succeed, Abstract!Fail
<1>5. CASE DropFetch
  <2>1. Outcome = "none" /\ Outcome' = "err" /\ stored' = stored
    BY <1>5 DEF DropFetch, DropWriteTar, Errors
  <2>2. QED
    BY <2>1 DEF Abstract!Fail
<1>6. CASE ProxyStep
  BY <1>1, <1>6 DEF ProxyStep, ProxyWrite, ProxyFinish, ProxyFails, ProxyBroken
<1>7. CASE ThreadStarts \/ ReadBlock \/ ImportEndsEarly \/ ImportFails \/ ImportReturns
  BY <1>1, <1>7 DEF ThreadStarts, ReadBlock, ImportEndsEarly, ImportFails, ImportReturns,
     ReturnFromTask
<1>8. CASE DecompressorFails \/ FilterStops \/ FilterReturns \/ FilterAbandoned
  BY <1>1, <1>8 DEF DecompressorFails, FilterStops, FilterReturns, FilterAbandoned
<1>9. CASE ChildExits \/ ChildFails \/ SetupFails \/ DriverAnswers \/ CopyBlock \/ CopyEnds
  BY <1>1, <1>9 DEF ChildExits, ChildFails, SetupFails, DriverAnswers, CopyBlock, CopyEnds
<1>10. CASE FilterSucceeds \/ FilterFails \/ StatusFails \/ WriteTarReturns \/ TaskJoined
  BY <1>1, <1>10 DEF FilterSucceeds, FilterFails, StatusFails, WriteTarReturns, TaskJoined,
     DropWriteTar
<1>11. CASE UNCHANGED vars
  BY <1>1, <1>11 DEF vars
<1>12. QED
  BY <1>2, <1>3, <1>4, <1>5, <1>6, <1>7, <1>8, <1>9, <1>10, <1>11
  DEF Next, ThreadStep, ChildStep, FutureStep

(***************************************************************************)
(* The fetch implements FetchContract: the layer is stored at most once,   *)
(* the fetch ends at most once, and well only with the whole layer stored. *)
(***************************************************************************)
THEOREM KeepsContract == Spec => Contract
<1>1. Init => Abstract!Init
  BY DEF Init, Abstract!Init, Outcome, Errors
<1>2. QED
  BY <1>1, FetchInvariant, StepKeepsContract, PTL DEF Spec, Contract, Abstract!Spec

=============================================================================
