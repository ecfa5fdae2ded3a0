------------------------------ MODULE Workers ------------------------------
(* The threads around one Storage: the three periodic workers, the HTTP      *)
(* handlers that write, and main's way from a signal to the end of the       *)
(* process (startPeriodic*, stopPeriodic*, runMergePass, applyRetentionAt,   *)
(* Flush, Close; cmd/marchilogs/main.go, which never enables the log).       *)
(*                                                                           *)
(* A region of Storage.mu is one step; what it does inside one day is        *)
(* DayPartition's subject.  Days are numbers, so that passes can go through  *)
(* them in order; of a day's parts only the number of small ones counts.     *)
EXTENDS Integers, FiniteSets

CONSTANTS Requests,        \* POST /insert requests, one row each
          DayOf,           \* the day of each row
          WantFlush,       \* the requests with ?flush=1
          Days,
          MaxRowsPerBlock, MergeMinParts, MergeMaxPartsPerJob,
          InitSmall,       \* bound: small parts a day may have at the start
          BadDays,         \* bound: days that may be broken or stuck, not both
          MaxFaults        \* bound: failing flushes

ASSUME WorkersAssumption ==
    /\ DayOf \in [Requests -> Days] /\ Days \subseteq Nat
    /\ WantFlush \subseteq Requests
    /\ MaxRowsPerBlock \in Nat \ {0} /\ MergeMinParts \in Nat \ {0, 1}
    /\ MergeMaxPartsPerJob \in Nat \ {0, 1}
    /\ InitSmall \subseteq Nat /\ BadDays \subseteq Days /\ MaxFaults \in Nat

VARIABLES
    buffers, stored, dropped,   \* rows in memory, in listed parts, removed
    small,       \* small parts listed for each day
    dirs,        \* days with a directory
    expired,     \* days older than the retention period by now
    broken,      \* days with a part no merge can read
    stuck,       \* days whose directory cannot be removed
    worker,      \* each worker: "select", "calling" or "gone"
    stop,        \* workers whose stop channel is closed
    todo,        \* days the running merge pass has not tried,
    job,         \*   its running merge [day, n parts, still listed], or NoJob
    toDrop,      \* days the running retention pass will drop
    main,        \* "serving", "closing server", "close", "exited"
    handler,     \* each request: "new", "appended", "flushed" or "done"
    acked,       \* rows whose client got a 200,
    ackedFlushed, \*  and those with "flushed": true
    faults, closeFailed

storage  == <<buffers, stored, dropped, small, dirs>>
world    == <<expired, broken, stuck>>
threads  == <<worker, stop, todo, job, toDrop>>
clients  == <<handler, acked, ackedFlushed>>
vars     == <<storage, world, threads, main, clients, faults, closeFailed>>

Workers == {"retention", "merge", "flush"}
NoJob   == [day |-> 0, n |-> 0, listed |-> FALSE]

DaysOf(S)   == {DayOf[r] : r \in S}
OfDay(d, S) == {r \in S : DayOf[r] = d}
Lowest(S)   == CHOOSE d \in S : \A e \in S : d <= e
Lesser(a, b) == IF a < b THEN a ELSE b

TypeOK ==
    /\ buffers \cup stored \cup dropped \subseteq Requests
    /\ buffers \cap stored = {}
    /\ small \in [Days -> Nat] /\ dirs \subseteq Days
    /\ \A d \in Days : small[d] > 0 => d \in dirs
    /\ expired \cup broken \cup stuck \subseteq Days
    /\ worker \in [Workers -> {"select", "calling", "gone"}]
    /\ stop \subseteq Workers
    /\ \A w \in Workers : worker[w] = "gone" => w \in stop
    /\ todo \cup toDrop \subseteq Days
    /\ job # NoJob => worker["merge"] = "calling"
    /\ main \in {"serving", "closing server", "close", "exited"}
    /\ handler \in [Requests -> {"new", "appended", "flushed", "done"}]
    /\ ackedFlushed \subseteq acked /\ acked \subseteq Requests

Init ==
    /\ buffers = {} /\ stored = {} /\ dropped = {}
    /\ small \in [Days -> InitSmall]
    /\ dirs = {d \in Days : small[d] > 0}
    /\ expired = {}
    /\ broken \in SUBSET BadDays /\ stuck \in SUBSET (BadDays \ broken)
    /\ worker = [w \in Workers |-> "select"] /\ stop = {}
    /\ todo = {} /\ job = NoJob /\ toDrop = {}
    /\ main = "serving" /\ handler = [i \in Requests |-> "new"]
    /\ acked = {} /\ ackedFlushed = {} /\ faults = 0 /\ closeFailed = FALSE

Alive     == main # "exited"
Listening == main \in {"serving", "closing server"}

-----------------------------------------------------------------------------
(* Flush: one new small part for every day with buffered rows; an error ends *)
(* it after any number of days.                                              *)

FlushDays(D, B) ==
    /\ buffers' = {r \in B : DayOf[r] \notin D}
    /\ stored' = stored \cup {r \in B : DayOf[r] \in D}
    /\ small' = [d \in Days |-> IF d \in D THEN small[d] + 1 ELSE small[d]]
    /\ dirs' = dirs \cup D
    /\ UNCHANGED dropped

FlushOK == FlushDays(DaysOf(buffers), buffers) /\ UNCHANGED faults

FlushFails == /\ faults < MaxFaults /\ faults' = faults + 1
              /\ \E D \in SUBSET DaysOf(buffers) :
                     D # DaysOf(buffers) /\ FlushDays(D, buffers)

-----------------------------------------------------------------------------
(* The loop of every worker: a tick starts a call; a closed stop channel     *)
(* ends it, if select picks that branch, never in the middle of a call.      *)

Step(w, to) == worker' = [worker EXCEPT ![w] = to]

WorkerStops(w) ==
    /\ Alive /\ worker[w] = "select" /\ w \in stop
    /\ Step(w, "gone")
    /\ UNCHANGED <<storage, world, stop, todo, job, toDrop, main, clients,
                   faults, closeFailed>>

(* A tick and its Flush, one region of the lock.  The error is dropped; the  *)
(* rows stay buffered.                                                       *)
PeriodicFlush ==
    /\ Alive /\ worker["flush"] = "select"
    /\ FlushOK \/ FlushFails
    /\ UNCHANGED <<world, threads, main, clients, closeFailed>>

(* runMergePass: the days at the start of the pass, lowest first.  (A day    *)
(* that a failed drop has forgotten still has its directory but no list; it  *)
(* has no parts and is skipped.)                                             *)
MergeTick ==
    /\ Alive /\ worker["merge"] = "select" /\ Step("merge", "calling")
    /\ todo' = dirs
    /\ UNCHANGED <<storage, world, stop, job, toDrop, main, clients, faults,
                   closeFailed>>

(* Mutant of MergeSkips: the pass ends at the first day with too few parts.  *)
MergeSkipsAll(d) ==
    /\ Alive /\ worker["merge"] = "calling" /\ job = NoJob
    /\ d \in todo /\ d = Lowest(todo) /\ small[d] < MergeMinParts
    /\ todo' = {}
    /\ UNCHANGED <<storage, world, worker, stop, job, toDrop, main, clients,
                   faults, closeFailed>>

MergeSkips(d) ==
    /\ Alive /\ worker["merge"] = "calling" /\ job = NoJob
    /\ d \in todo /\ d = Lowest(todo) /\ small[d] < MergeMinParts
    /\ todo' = todo \ {d}
    /\ UNCHANGED <<storage, world, worker, stop, job, toDrop, main, clients,
                   faults, closeFailed>>

MergeSelects(d) ==
    /\ Alive /\ worker["merge"] = "calling" /\ job = NoJob
    /\ d \in todo /\ d = Lowest(todo) /\ small[d] >= MergeMinParts
    /\ job' = [day |-> d, n |-> Lesser(small[d], MergeMaxPartsPerJob),
               listed |-> TRUE]
    /\ UNCHANGED <<storage, world, worker, stop, todo, toDrop, main, clients,
                   faults, closeFailed>>

(* The tier of a part, of any tier, cannot be read: this too ends the pass.   *)
MergeSelectFails(d) ==
    /\ Alive /\ worker["merge"] = "calling" /\ job = NoJob
    /\ d \in todo /\ d = Lowest(todo) /\ d \in broken \cap dirs
    /\ todo' = {} /\ Step("merge", "select")
    /\ UNCHANGED <<storage, world, stop, job, toDrop, main, clients, faults,
                   closeFailed>>

(* Mutant of InputsListed: the inputs are not looked up again.               *)
InputsListedAlways == TRUE

(* The inputs of a job whose day was merged or dropped meanwhile are gone.   *)
InputsListed == job.listed

(* The pass ends after its first job, done, overtaken (which counts as done) *)
(* or failed: an error is not passed over to reach the later days.           *)
MergeEnds ==
    /\ Alive /\ job # NoJob
    /\ \/ /\ job.day \notin broken /\ InputsListed
          /\ small' = [small EXCEPT ![job.day] = @ - job.n]
       \/ /\ job.day \in broken \/ ~InputsListed
          /\ UNCHANGED small
    /\ job' = NoJob /\ todo' = {} /\ Step("merge", "select")
    /\ UNCHANGED <<buffers, stored, dropped, dirs, world, stop, toDrop, main,
                   clients, faults, closeFailed>>

MergePassEnds ==
    /\ Alive /\ worker["merge"] = "calling" /\ job = NoJob /\ todo = {}
    /\ Step("merge", "select")
    /\ UNCHANGED <<storage, world, stop, todo, job, toDrop, main, clients,
                   faults, closeFailed>>

(* A day's parts are replaced or gone: a job on it will find out.            *)
Overtake(d) == job' = IF job # NoJob /\ job.day = d THEN [job EXCEPT !.listed = FALSE]
                                                    ELSE job

-----------------------------------------------------------------------------
(* applyRetentionAt: the list under RLock and from the directories, the      *)
(* drops in one region of the lock.                                          *)

Expire(d) ==
    /\ main = "serving" /\ d = Lowest(Days \ expired) /\ expired' = expired \cup {d}
    /\ UNCHANGED <<storage, broken, stuck, threads, main, clients, faults,
                   closeFailed>>

RetentionTick ==
    /\ Alive /\ worker["retention"] = "select" /\ Step("retention", "calling")
    /\ toDrop' = expired \cap dirs
    /\ UNCHANGED <<storage, world, stop, todo, job, main, clients, faults,
                   closeFailed>>

(* Mutant of Reached: the latest day first.                                  *)
ReachedLatest == {d \in toDrop : \A e \in stuck \cap toDrop : d >= e}

(* The pass stops at the first directory it cannot remove, whose day is      *)
(* forgotten all the same.                                                   *)
Reached == {d \in toDrop : \A e \in stuck \cap toDrop : d <= e}

RetentionDrops ==
    /\ Alive /\ worker["retention"] = "calling" /\ Step("retention", "select")
    /\ LET lost == {r \in buffers \cup stored : DayOf[r] \in Reached} IN
           /\ buffers' = buffers \ lost /\ stored' = stored \ lost
           /\ dropped' = dropped \cup lost
    /\ small' = [d \in Days |-> IF d \in Reached THEN 0 ELSE small[d]]
    /\ dirs' = dirs \ (Reached \ stuck)
    /\ job' = IF job.day \in Reached THEN [job EXCEPT !.listed = FALSE] ELSE job
    /\ toDrop' = {}
    /\ UNCHANGED <<world, stop, todo, main, clients, faults, closeFailed>>

-----------------------------------------------------------------------------
(* HTTP handlers.  Once the server is closed no request is accepted; those   *)
(* accepted before go on until the process ends, but nobody gets their       *)
(* answers.                                                                  *)

Handler(i, pc) == handler' = [handler EXCEPT ![i] = pc]

(* Append; a full block flushes its day, with the lock still held.  The row  *)
(* of an Append that fails there is buffered all the same.                   *)
InsertAppend(i) ==
    /\ handler[i] = "new" /\ Alive
    /\ LET filled == buffers \cup {i} IN
       \/ /\ Cardinality(OfDay(DayOf[i], filled)) < MaxRowsPerBlock
          /\ FlushDays({}, filled) /\ Handler(i, "appended") /\ UNCHANGED faults
       \/ /\ Cardinality(OfDay(DayOf[i], filled)) >= MaxRowsPerBlock
          /\ FlushDays({DayOf[i]}, filled) /\ Handler(i, "appended")
          /\ UNCHANGED faults
       \/ /\ Cardinality(OfDay(DayOf[i], filled)) >= MaxRowsPerBlock
          /\ faults < MaxFaults /\ faults' = faults + 1
          /\ FlushDays({}, filled) /\ Handler(i, "done")
    /\ UNCHANGED <<world, threads, main, acked, ackedFlushed, closeFailed>>

(* Mutant of InsertFlush: the error of Flush is not looked at.               *)
InsertFlushUnchecked(i) ==
    /\ Alive /\ handler[i] = "appended" /\ i \in WantFlush
    /\ FlushOK \/ FlushFails
    /\ Handler(i, "flushed")
    /\ UNCHANGED <<world, threads, main, acked, ackedFlushed, closeFailed>>

InsertFlush(i) ==
    /\ Alive /\ handler[i] = "appended" /\ i \in WantFlush
    /\ \/ FlushOK /\ Handler(i, "flushed")
       \/ FlushFails /\ Handler(i, "done")
    /\ UNCHANGED <<world, threads, main, acked, ackedFlushed, closeFailed>>

InsertAnswer(i) ==
    /\ Alive
    /\ handler[i] = "flushed" \/ (handler[i] = "appended" /\ i \notin WantFlush)
    /\ Handler(i, "done")
    /\ \/ /\ Listening
          /\ acked' = acked \cup {i}
          /\ ackedFlushed' = IF handler[i] = "flushed" THEN ackedFlushed \cup {i}
                                                       ELSE ackedFlushed
       \/ ~Listening /\ UNCHANGED <<acked, ackedFlushed>>
    /\ UNCHANGED <<storage, world, threads, main, faults, closeFailed>>

(* POST /flush.                                                              *)
FlushRequest ==
    /\ Alive /\ buffers # {} /\ (FlushOK \/ FlushFails)
    /\ UNCHANGED <<world, threads, main, clients, closeFailed>>

(* POST /internal/force_merge?day=: two small parts are enough.              *)
ForceMerge(d) ==
    /\ Alive /\ small[d] >= 2 /\ d \notin broken
    /\ small' = [small EXCEPT ![d] = @ - Lesser(@, MergeMaxPartsPerJob)]
    /\ Overtake(d)
    /\ UNCHANGED <<buffers, stored, dropped, dirs, world, worker, stop, todo,
                   toDrop, main, clients, faults, closeFailed>>

-----------------------------------------------------------------------------
(* main: a signal, Flush with its error dropped, srv.Close, and the deferred *)
(* Close, which stops the workers one after the other before a last Flush.   *)

Goto(from, to) == main = from /\ main' = to

(* Requests are still accepted between the flush and srv.Close.              *)
SignalFlush == /\ Goto("serving", "closing server")
               /\ FlushOK \/ FlushFails
               /\ UNCHANGED <<world, threads, clients, closeFailed>>

CloseServer == /\ Goto("closing server", "close")
               /\ UNCHANGED <<storage, world, threads, clients, faults, closeFailed>>

StopOrder == [retention |-> 1, merge |-> 2, flush |-> 3]

(* Mutant of StopWorker: waits for the worker without closing its channel.   *)
StopWorkerWaits(w) ==
    /\ main = "close" /\ w \notin stop /\ worker[w] = "gone"
    /\ \A v \in Workers : StopOrder[v] < StopOrder[w] => worker[v] = "gone"
    /\ stop' = stop \cup {w}
    /\ UNCHANGED <<storage, world, worker, todo, job, toDrop, main, clients,
                   faults, closeFailed>>

(* close(stop), once the worker before has answered on its done channel.     *)
StopWorker(w) ==
    /\ main = "close" /\ w \notin stop
    /\ \A v \in Workers : StopOrder[v] < StopOrder[w] => worker[v] = "gone"
    /\ stop' = stop \cup {w}
    /\ UNCHANGED <<storage, world, worker, todo, job, toDrop, main, clients,
                   faults, closeFailed>>

(* Mutant of CloseFlush: relies on the flush after the signal.               *)
CloseFlushSkips ==
    /\ Goto("close", "exited") /\ \A w \in Workers : worker[w] = "gone"
    /\ UNCHANGED <<storage, world, threads, clients, faults, closeFailed>>

CloseFlush ==
    /\ Goto("close", "exited") /\ \A w \in Workers : worker[w] = "gone"
    /\ \/ FlushOK /\ UNCHANGED closeFailed
       \/ FlushFails /\ closeFailed' = TRUE
    /\ UNCHANGED <<world, threads, clients>>

-----------------------------------------------------------------------------
MergeWork     == (\E d \in Days : \/ MergeSkips(d) \/ MergeSelects(d)
                                   \/ MergeSelectFails(d))
                     \/ MergeEnds \/ MergePassEnds
InsertWork(i) == InsertFlush(i) \/ InsertAnswer(i)
MainWork      == CloseServer \/ (\E w \in Workers : StopWorker(w))
                     \/ CloseFlush

Next == \/ \E w \in Workers : WorkerStops(w)
        \/ PeriodicFlush
        \/ MergeTick \/ MergeWork
        \/ \E d \in Days \ expired : Expire(d)
        \/ RetentionTick \/ RetentionDrops
        \/ \E i \in Requests : InsertAppend(i) \/ InsertWork(i)
        \/ FlushRequest
        \/ \E d \in Days : ForceMerge(d)
        \/ SignalFlush \/ MainWork

Spec == Init /\ [][Next]_vars

(* Timers go off, calls return, main goes on; select picks among ready       *)
(* branches at random, so a closed stop channel is not passed over for ever. *)
Fairness == /\ \A w \in Workers : SF_vars(WorkerStops(w))
            /\ WF_vars(PeriodicFlush)
            /\ WF_vars(MergeWork) /\ WF_vars(RetentionDrops)
            /\ WF_vars(MergeTick) /\ WF_vars(RetentionTick)
            /\ WF_vars(MainWork)

FairSpec == Spec /\ Fairness
-----------------------------------------------------------------------------
(* Properties.                                                               *)

(* A shutdown whose last flush succeeds loses no row a client got a 200 for  *)
(* and retention did not remove, in whatever order the signal, the handlers, *)
(* the workers and failing earlier flushes come.  (Without the log, Close's  *)
(* own Flush is all there is: the one before srv.Close comes too early.)     *)
AckedDurable ==
    main = "exited" /\ ~closeFailed => acked \subseteq stored \cup dropped

(* "flushed": true is not answered early: the row is in a part by then, even *)
(* if another thread wrote it, and stays there unless its day is dropped.    *)
FlushedIsDurable == ackedFlushed \subseteq stored \cup dropped

(* A signal ends the process: Close's waiting for the workers cannot hang on *)
(* a call in progress, nor on a worker that is itself waiting.               *)
ShutdownEnds == main = "closing server" ~> main = "exited"

(* While the server runs, merge passes go through the days in order, one job *)
(* at a time, and still there is time and again no day left with enough      *)
(* small parts to merge, days from the first broken one on excepted.  (The   *)
(* rows end: in a service an earlier day that fills up again for every pass  *)
(* keeps the later ones waiting.)                                            *)
Reachable(d) == /\ small[d] >= MergeMinParts
                /\ \A e \in broken : e > d
PassesReachDays ==
    []<>(main = "serving" => \A d \in Days : ~Reachable(d))

(* While the server runs, there is time and again no directory left of an    *)
(* expired day, days from the first stuck one on excepted; a day that gets   *)
(* rows after it was removed is removed again.                               *)
Droppable(d) == d \in expired \cap dirs /\ \A e \in stuck : e > d
ExpiredDropped ==
    []<>(main = "serving" => \A d \in Days : ~Droppable(d))
=============================================================================
