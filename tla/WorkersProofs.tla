--------------------------- MODULE WorkersProofs ---------------------------
(* Proofs about Workers, for every set of requests and days, any number of   *)
(* faults and any thresholds: what the handlers answer, what a shutdown      *)
(* leaves behind, and type correctness.                                      *)
EXTENDS Workers, TLAPS

(* The rows the storage knows of, and those it no longer holds only in       *)
(* memory.                                                                   *)
Known == buffers \cup stored \cup dropped
Safe  == stored \cup dropped

HandlerType == handler \in [Requests -> {"new", "appended", "flushed", "done"}]

(* What each handler has achieved by the point it has reached.               *)
HandlersKeepRows ==
    \A i \in Requests : /\ handler[i] = "appended" => i \in Known
                        /\ handler[i] = "flushed" => i \in Safe

AnswersKeepRows == acked \subseteq Known /\ ackedFlushed \subseteq Safe

(* The last flush leaves the buffers empty, and nothing runs after it.       *)
ExitEmpties == main = "exited" /\ ~closeFailed => buffers = {}

Durable == /\ HandlerType /\ HandlersKeepRows /\ AnswersKeepRows
           /\ ExitEmpties

(* A step takes no row out of sight and returns none from a part to memory.  *)
KeepsRows == Known \subseteq Known' /\ Safe \subseteq Safe'

-----------------------------------------------------------------------------
(* The regions of the lock that move rows.                                   *)

(* flushDay moves the rows of the flushed days to parts and leaves the rest  *)
(* in the buffers.                                                           *)
LEMMA FlushDaysMoves ==
    ASSUME NEW D, NEW B, FlushDays(D, B)
    PROVE  /\ Known' = B \cup stored \cup dropped
           /\ Safe \subseteq Safe' /\ buffers' \subseteq B
  BY DEF FlushDays, Known, Safe

(* A Flush that succeeds leaves no row in memory only.                       *)
LEMMA FlushOKEmpties ==
    ASSUME FlushOK
    PROVE  KeepsRows /\ buffers' = {} /\ Known \subseteq Safe'
  <1>1. FlushDays(DaysOf(buffers), buffers)
    BY DEF FlushOK
  <1>2. KeepsRows
    BY <1>1, FlushDaysMoves DEF KeepsRows, Known
  <1>3. buffers' = {}
    BY <1>1 DEF FlushDays, DaysOf
  <1>4. Known \subseteq Safe'
    BY <1>2, <1>3 DEF KeepsRows, Known, Safe
  <1> QED
    BY <1>2, <1>3, <1>4

(* A Flush that fails loses nothing.                                         *)
LEMMA FlushFailsKeeps ==
    ASSUME FlushFails
    PROVE  KeepsRows
  <1>1. PICK D \in SUBSET DaysOf(buffers) : FlushDays(D, buffers)
    BY DEF FlushFails
  <1> QED
    BY <1>1, FlushDaysMoves DEF KeepsRows, Known

(* Retention moves rows to the dropped ones.                                 *)
LEMMA RetentionKeeps ==
    ASSUME RetentionDrops
    PROVE  KeepsRows
  <1> DEFINE lost == {r \in buffers \cup stored : DayOf[r] \in Reached}
  <1>1. /\ buffers' = buffers \ lost /\ stored' = stored \ lost
        /\ dropped' = dropped \cup lost
    BY DEF RetentionDrops
  <1> HIDE DEF lost
  <1> QED
    BY <1>1 DEF KeepsRows, Known, Safe

(* A step that keeps the rows and touches neither handlers nor answers, nor  *)
(* ends the process, keeps the invariant.                                    *)
LEMMA QuietStep ==
    ASSUME Durable, KeepsRows, UNCHANGED clients,
           main' # "exited" \/ UNCHANGED <<main, closeFailed, buffers>>
    PROVE  Durable'
  BY DEF Durable, HandlerType, HandlersKeepRows, AnswersKeepRows,
         ExitEmpties, KeepsRows, clients

-----------------------------------------------------------------------------
(* Nothing is answered at the start.                                         *)
LEMMA InitDurable == Init => Durable
  BY DEF Init, Durable, HandlerType, HandlersKeepRows, AnswersKeepRows,
         ExitEmpties, Known, Safe

(* Every step keeps the invariant.                                           *)
LEMMA StepDurable == Durable /\ [Next]_vars => Durable'
  <1> SUFFICES ASSUME Durable, [Next]_vars
               PROVE  Durable'
    OBVIOUS
  <1> USE DEF Alive
  <1>1. CASE UNCHANGED vars
    BY <1>1, QuietStep DEF vars, storage, KeepsRows, Known, Safe
  <1>2. CASE \E w \in Workers : WorkerStops(w)
    BY <1>2, QuietStep DEF WorkerStops, storage, KeepsRows, Known, Safe
  <1>3. CASE PeriodicFlush
    <2>1. KeepsRows
      BY <1>3, FlushOKEmpties, FlushFailsKeeps DEF PeriodicFlush
    <2> QED
      BY <1>3, <2>1, QuietStep DEF PeriodicFlush
  <1>4. CASE MergeTick
    BY <1>4, QuietStep DEF MergeTick, storage, KeepsRows, Known, Safe
  <1>5. CASE MergeWork
    <2>1. /\ Alive /\ KeepsRows
          /\ UNCHANGED <<clients, main>>
      <3>1. CASE \E d \in Days : MergeSkips(d)
        BY <3>1 DEF MergeSkips, storage, KeepsRows, Known, Safe
      <3>2. CASE \E d \in Days : MergeSelects(d)
        BY <3>2 DEF MergeSelects, storage, KeepsRows, Known, Safe
      <3>3. CASE MergeEnds
        BY <3>3 DEF MergeEnds, KeepsRows, Known, Safe
      <3>4. CASE MergePassEnds
        BY <3>4 DEF MergePassEnds, storage, KeepsRows, Known, Safe
      <3>5. CASE \E d \in Days : MergeSelectFails(d)
        BY <3>5 DEF MergeSelectFails, storage, KeepsRows, Known, Safe
      <3> QED
        BY <1>5, <3>1, <3>2, <3>3, <3>4, <3>5 DEF MergeWork
    <2> QED
      BY <2>1, QuietStep
  <1>6. CASE \E d \in Days \ expired : Expire(d)
    BY <1>6, QuietStep DEF Expire, storage, KeepsRows, Known, Safe
  <1>7. CASE RetentionTick
    BY <1>7, QuietStep DEF RetentionTick, storage, KeepsRows, Known, Safe
  <1>8. CASE RetentionDrops
    BY <1>8, RetentionKeeps, QuietStep DEF RetentionDrops
  <1>9. CASE \E i \in Requests : InsertAppend(i) \/ InsertWork(i)
    <2>1. PICK i \in Requests : InsertAppend(i) \/ InsertWork(i)
      BY <1>9
    <2>2. CASE InsertAppend(i)
      <3>1. /\ Alive /\ UNCHANGED <<main, acked, ackedFlushed>>
            /\ Handler(i, "appended") \/ Handler(i, "done")
        BY <2>2 DEF InsertAppend
      <3>2. PICK D : FlushDays(D, buffers \cup {i})
        BY <2>2 DEF InsertAppend
      <3>3. KeepsRows /\ i \in Known'
        BY <3>2, FlushDaysMoves DEF KeepsRows, Known
      <3> QED
        BY <3>1, <3>3 DEF Durable, HandlerType, HandlersKeepRows, AnswersKeepRows,
           ExitEmpties, KeepsRows, Handler
    <2>3. CASE InsertFlush(i)
      <3>1. /\ Alive /\ UNCHANGED <<main, acked, ackedFlushed>>
            /\ handler[i] = "appended"
        BY <2>3 DEF InsertFlush
      <3>2. KeepsRows
        BY <2>3, FlushOKEmpties, FlushFailsKeeps DEF InsertFlush
      <3>3. \/ Handler(i, "flushed") /\ Known \subseteq Safe'
            \/ Handler(i, "done")
        BY <2>3, FlushOKEmpties DEF InsertFlush
      <3> QED
        BY <3>1, <3>2, <3>3 DEF Durable, HandlerType, HandlersKeepRows,
           AnswersKeepRows, ExitEmpties, KeepsRows, Handler
    <2>4. CASE InsertAnswer(i)
      <3>1. /\ Alive /\ Handler(i, "done")
            /\ UNCHANGED <<main, buffers, stored, dropped>>
            /\ handler[i] = "flushed" \/ handler[i] = "appended"
            /\ \/ /\ acked' = acked \cup {i}
                  /\ ackedFlushed' = IF handler[i] = "flushed"
                                     THEN ackedFlushed \cup {i} ELSE ackedFlushed
               \/ UNCHANGED <<acked, ackedFlushed>>
        BY <2>4 DEF InsertAnswer, storage
      <3>2. i \in Known /\ (handler[i] = "flushed" => i \in Safe)
        BY <3>1 DEF Durable, HandlersKeepRows, Known, Safe
      <3>3. AnswersKeepRows'
        BY <3>1, <3>2 DEF Durable, AnswersKeepRows, Known, Safe
      <3> QED
        BY <3>1, <3>3 DEF Durable, HandlerType, HandlersKeepRows,
           ExitEmpties, Handler, Known, Safe
    <2> QED
      BY <2>1, <2>2, <2>3, <2>4 DEF InsertWork
  <1>10. CASE FlushRequest
    <2>1. KeepsRows
      BY <1>10, FlushOKEmpties, FlushFailsKeeps DEF FlushRequest
    <2> QED
      BY <1>10, <2>1, QuietStep DEF FlushRequest
  <1>11. CASE \E d \in Days : ForceMerge(d)
    BY <1>11, QuietStep DEF ForceMerge, KeepsRows, Known, Safe
  <1>12. CASE SignalFlush
    <2>1. KeepsRows
      BY <1>12, FlushOKEmpties, FlushFailsKeeps DEF SignalFlush
    <2> QED
      BY <1>12, <2>1, QuietStep DEF SignalFlush, Goto
  <1>13. CASE CloseServer
    BY <1>13, QuietStep DEF CloseServer, Goto, storage, KeepsRows, Known, Safe
  <1>14. CASE \E w \in Workers : StopWorker(w)
    BY <1>14, QuietStep DEF StopWorker, storage, KeepsRows, Known, Safe
  <1>15. CASE CloseFlush
    <2>1. KeepsRows /\ (closeFailed' \/ buffers' = {})
      BY <1>15, FlushOKEmpties, FlushFailsKeeps DEF CloseFlush
    <2>2. UNCHANGED clients
      BY <1>15 DEF CloseFlush
    <2> QED
      BY <2>1, <2>2 DEF Durable, HandlerType, HandlersKeepRows,
         AnswersKeepRows, ExitEmpties, KeepsRows, clients
  <1> QED
    BY <1>1, <1>2, <1>3, <1>4, <1>5, <1>6, <1>7, <1>8, <1>9, <1>10, <1>11,
       <1>12, <1>13, <1>14, <1>15 DEF Next, MainWork

(* Hence what was answered is always kept.                                   *)
LEMMA AlwaysDurable == Spec => []Durable
  BY InitDurable, StepDurable, PTL DEF Spec

(* Whatever the order of signal, handlers, workers and failing flushes, a    *)
(* shutdown whose last flush succeeds leaves every row that was answered     *)
(* with a 200 in a part, or in a day that retention removed.                 *)
THEOREM ShutdownKeepsAcked == Spec => []AckedDurable
  <1>1. Durable => AckedDurable
    BY DEF Durable, AnswersKeepRows, ExitEmpties, AckedDurable, Known
  <1> QED
    BY <1>1, AlwaysDurable, PTL

(* A 200 with "flushed": true is given only for a row that is in a part by   *)
(* then, and no later step takes it out of the parts but retention.          *)
THEOREM FlushedAnswersKept == Spec => []FlushedIsDurable
  <1>1. Durable => FlushedIsDurable
    BY DEF Durable, AnswersKeepRows, FlushedIsDurable, Safe
  <1> QED
    BY <1>1, AlwaysDurable, PTL
-----------------------------------------------------------------------------
(* Type correctness.  That no day's count of small parts goes below zero     *)
(* rests on a job's inputs being looked up again when it ends.               *)

(* A row is buffered once, by its own request.                               *)
NewUnseen == \A i \in Requests : handler[i] = "new" => i \notin Known

(* While no part of its day was replaced, a job's inputs are there.          *)
JobFits ==
    \/ job = NoJob
    \/ /\ job \in [day : Days, n : Nat, listed : BOOLEAN]
       /\ job.listed = TRUE => job.n <= small[job.day]

Rows == /\ Known \subseteq Requests /\ buffers \cap stored = {}
        /\ HandlerType /\ NewUnseen /\ ackedFlushed \subseteq acked
        /\ acked \subseteq Requests

Parts == /\ small \in [Days -> Nat] /\ dirs \subseteq Days
         /\ \A d \in Days : small[d] > 0 => d \in dirs
         /\ JobFits

Threads == /\ expired \cup broken \cup stuck \subseteq Days
           /\ worker \in [Workers -> {"select", "calling", "gone"}]
           /\ stop \subseteq Workers
           /\ \A w \in Workers : worker[w] = "gone" => w \in stop
           /\ todo \cup toDrop \subseteq Days
           /\ job # NoJob => worker["merge"] = "calling"
           /\ main \in {"serving", "closing server", "close", "exited"}

TypeInv == Rows /\ Parts /\ Threads

(* flushDay adds a part to days of known rows.                               *)
LEMMA FlushDaysTypes ==
    ASSUME Parts, NEW D \in SUBSET Days, NEW B \in SUBSET Requests,
           FlushDays(D, B), UNCHANGED job, B \cap stored = {}
    PROVE  Parts' /\ buffers' \cap stored' = {}
  <1>1. Parts'
    BY DEF Parts, FlushDays, JobFits
  <1>2. buffers' \cap stored' = {}
    BY DEF FlushDays
  <1> QED
    BY <1>1, <1>2

(* Flush, whether it fails or not, is such a step on the buffers.            *)
LEMMA FlushTypes ==
    ASSUME Rows, Parts, FlushOK \/ FlushFails, UNCHANGED job
    PROVE  /\ Parts' /\ buffers' \cap stored' = {} /\ Known' = Known
  <1>1. PICK D \in SUBSET DaysOf(buffers) : FlushDays(D, buffers)
    BY DEF FlushOK, FlushFails
  <1>2. D \subseteq Days /\ buffers \subseteq Requests
    BY WorkersAssumption DEF DaysOf, Rows, Known
  <1>3. Known' = Known
    BY <1>1, FlushDaysMoves DEF Known
  <1> QED
    BY <1>1, <1>2, <1>3, FlushDaysTypes DEF Rows

(* A step of a flush that leaves handlers and threads alone.                 *)
LEMMA FlushStepTypes ==
    ASSUME TypeInv, FlushOK \/ FlushFails,
           UNCHANGED <<world, threads, clients>>,
           main' \in {"serving", "closing server", "close", "exited"}
    PROVE  TypeInv'
  <1>1. /\ Parts' /\ buffers' \cap stored' = {} /\ Known' = Known
    BY FlushTypes DEF TypeInv, threads
  <1>2. Rows'
    BY <1>1 DEF TypeInv, Rows, HandlerType, NewUnseen, clients
  <1>3. Threads'
    BY DEF TypeInv, Threads, world, threads
  <1> QED
    BY <1>1, <1>2, <1>3 DEF TypeInv

(* A step of a thread that touches no row and no part.                       *)
LEMMA ThreadStepTypes ==
    ASSUME TypeInv, UNCHANGED <<storage, clients>>, JobFits', Threads'
    PROVE  TypeInv'
  BY DEF TypeInv, Rows, Parts, HandlerType, NewUnseen, Known, storage, clients

(* The type invariant at the start.                                          *)
LEMMA InitTypes == Init => TypeInv
  <1> SUFFICES ASSUME Init PROVE TypeInv
    OBVIOUS
  <1>1. Rows
    BY DEF Init, Rows, Known, HandlerType, NewUnseen
  <1>2. Parts
    BY WorkersAssumption DEF Init, Parts, JobFits
  <1>3. Threads
    BY WorkersAssumption DEF Init, Threads, Workers
  <1> QED
    BY <1>1, <1>2, <1>3 DEF TypeInv

(* The steps of a merge pass.                                                *)
LEMMA MergeStepTypes ==
    ASSUME TypeInv, MergeTick \/ MergeWork
    PROVE  TypeInv'
  <1> USE DEF Step
  <1>1. CASE MergeTick
    <2>1. JobFits' /\ Threads'
      BY <1>1 DEF MergeTick, TypeInv, Parts, JobFits, Threads, storage, world,
         Workers
    <2> QED
      BY <1>1, <2>1, ThreadStepTypes DEF MergeTick
  <1>2. CASE \E d \in Days : MergeSkips(d)
    <2>1. JobFits' /\ Threads'
      BY <1>2 DEF MergeSkips, TypeInv, Parts, JobFits, Threads, storage, world
    <2> QED
      BY <1>2, <2>1, ThreadStepTypes DEF MergeSkips
  <1>3. CASE \E d \in Days : MergeSelects(d)
    <2>1. PICK d \in Days : MergeSelects(d)
      BY <1>3
    <2>2. small[d] \in Nat /\ Lesser(small[d], MergeMaxPartsPerJob) \in Nat
            /\ Lesser(small[d], MergeMaxPartsPerJob) <= small[d]
      BY WorkersAssumption DEF TypeInv, Parts, Lesser
    <2>3. JobFits'
      BY <2>1, <2>2 DEF MergeSelects, JobFits, storage
    <2>4. Threads'
      BY <2>1 DEF MergeSelects, TypeInv, Threads, world
    <2> QED
      BY <2>1, <2>3, <2>4, ThreadStepTypes DEF MergeSelects
  <1>4. CASE MergeEnds
    <2>1. job \in [day : Days, n : Nat, listed : BOOLEAN] /\ job' = NoJob
      BY <1>4 DEF MergeEnds, TypeInv, Parts, JobFits
    <2>2. /\ small' \in [Days -> Nat]
          /\ \A d \in Days : small'[d] <= small[d]
      <3>1. CASE small' = small
        BY <3>1 DEF TypeInv, Parts
      <3>2. CASE job.listed = TRUE
                 /\ small' = [small EXCEPT ![job.day] = @ - job.n]
        BY <3>2, <2>1, <1>4 DEF TypeInv, Parts, JobFits, MergeEnds
      <3> QED
        BY <3>1, <3>2, <2>1, <1>4 DEF MergeEnds, InputsListed
    <2>3. Parts'
      BY <2>1, <2>2, <1>4 DEF MergeEnds, TypeInv, Parts, JobFits
    <2>4. Threads'
      BY <1>4 DEF MergeEnds, TypeInv, Threads, world, Workers
    <2>5. Rows'
      BY <1>4 DEF MergeEnds, TypeInv, Rows, HandlerType, NewUnseen, Known,
         clients
    <2> QED
      BY <2>3, <2>4, <2>5 DEF TypeInv
  <1>5. CASE MergePassEnds
    <2>1. JobFits' /\ Threads'
      BY <1>5 DEF MergePassEnds, TypeInv, Parts, JobFits, Threads, storage,
         world, Workers
    <2> QED
      BY <1>5, <2>1, ThreadStepTypes DEF MergePassEnds
  <1>6. CASE \E d \in Days : MergeSelectFails(d)
    <2>1. JobFits' /\ Threads'
      BY <1>6 DEF MergeSelectFails, TypeInv, Parts, JobFits, Threads, storage,
         world, Workers
    <2> QED
      BY <1>6, <2>1, ThreadStepTypes DEF MergeSelectFails
  <1> QED
    BY <1>1, <1>2, <1>3, <1>4, <1>5, <1>6 DEF MergeWork

(* Overtaking a job that is overtaken already changes nothing.               *)
LEMMA UnlistedStays ==
    ASSUME NEW j \in [day : Nat, n : Nat, listed : BOOLEAN], ~j.listed
    PROVE  [j EXCEPT !.listed = FALSE] = j
  OBVIOUS

(* The end of a retention pass.                                              *)
LEMMA RetentionDropsTypes ==
    ASSUME TypeInv, RetentionDrops
    PROVE  TypeInv'
  <1> DEFINE lost == {r \in buffers \cup stored : DayOf[r] \in Reached}
  <1>1. /\ buffers' = buffers \ lost /\ stored' = stored \ lost
        /\ dropped' = dropped \cup lost /\ UNCHANGED clients
    BY DEF RetentionDrops
  <1>2. lost \subseteq buffers \cup stored
    OBVIOUS
  <1> HIDE DEF lost
  <1>3. Known' = Known
    BY <1>1, <1>2 DEF Known
  <1>4. Rows'
    BY <1>1, <1>3 DEF TypeInv, Rows, HandlerType, NewUnseen, clients
  <1>5. \/ job' = NoJob /\ job = NoJob
        \/ /\ job \in [day : Days, n : Nat, listed : BOOLEAN] /\ job # NoJob
           /\ job' \in [day : Days, n : Nat, listed : BOOLEAN]
           /\ job'.day = job.day /\ job'.n = job.n
           /\ job'.listed = TRUE =>
                  job.listed = TRUE /\ job.day \notin Reached
    <2>1. job' = IF job.day \in Reached THEN [job EXCEPT !.listed = FALSE]
                                        ELSE job
      BY DEF RetentionDrops
    <2>2. CASE job = NoJob
      <3>1. NoJob \in [day : Nat, n : Nat, listed : BOOLEAN] /\ ~NoJob.listed
        BY DEF NoJob
      <3>2. [NoJob EXCEPT !.listed = FALSE] = NoJob
        BY <3>1, UnlistedStays
      <3> QED
        BY <2>1, <2>2, <3>2
    <2>3. CASE job # NoJob
      <3>1. job \in [day : Days, n : Nat, listed : BOOLEAN]
        BY <2>3 DEF TypeInv, Parts, JobFits
      <3> QED
        BY <2>1, <2>3, <3>1
    <2> QED
      BY <2>2, <2>3
  <1>6. JobFits'
    BY <1>5 DEF RetentionDrops, TypeInv, Parts, JobFits
  <1>7. /\ small' \in [Days -> Nat] /\ dirs' \subseteq Days
        /\ \A d \in Days : small'[d] > 0 => d \in dirs'
    BY DEF RetentionDrops, TypeInv, Parts
  <1>8. Threads'
    BY <1>5 DEF RetentionDrops, TypeInv, Threads, Step, world, Workers
  <1> QED
    BY <1>4, <1>6, <1>7, <1>8 DEF TypeInv, Parts

(* The steps of a request.                                                   *)
LEMMA InsertTypes ==
    ASSUME TypeInv, NEW i \in Requests, InsertAppend(i) \/ InsertWork(i)
    PROVE  TypeInv'
  <1>0. Threads'
    BY DEF InsertAppend, InsertWork, InsertFlush, InsertAnswer, TypeInv,
       Threads, world, threads
  <1>1. CASE InsertAppend(i)
    <2>1. /\ handler[i] = "new" /\ i \notin Known /\ UNCHANGED job
          /\ Handler(i, "appended") \/ Handler(i, "done")
          /\ UNCHANGED <<acked, ackedFlushed>>
      BY <1>1 DEF InsertAppend, TypeInv, Rows, NewUnseen, threads
    <2>2. PICK D \in SUBSET {DayOf[i]} : FlushDays(D, buffers \cup {i})
      BY <1>1 DEF InsertAppend
    <2>3. /\ D \subseteq Days /\ buffers \cup {i} \subseteq Requests
          /\ (buffers \cup {i}) \cap stored = {}
      BY <2>1, WorkersAssumption DEF TypeInv, Rows, Known
    <2>4. Parts' /\ buffers' \cap stored' = {}
      BY <2>1, <2>2, <2>3, FlushDaysTypes DEF TypeInv
    <2>5. Known' = Known \cup {i}
      BY <2>2, FlushDaysMoves DEF Known
    <2>6. Rows'
      BY <2>1, <2>4, <2>5 DEF TypeInv, Rows, HandlerType, NewUnseen, Handler
    <2> QED
      BY <1>0, <2>4, <2>6 DEF TypeInv
  <1>2. CASE InsertFlush(i)
    <2>1. /\ Handler(i, "flushed") \/ Handler(i, "done")
          /\ UNCHANGED <<acked, ackedFlushed, job>>
          /\ FlushOK \/ FlushFails
      BY <1>2 DEF InsertFlush, threads
    <2>2. Parts' /\ buffers' \cap stored' = {} /\ Known' = Known
      BY <2>1, FlushTypes DEF TypeInv
    <2>3. Rows'
      BY <2>1, <2>2 DEF TypeInv, Rows, HandlerType, NewUnseen, Handler
    <2> QED
      BY <1>0, <2>2, <2>3 DEF TypeInv
  <1>3. CASE InsertAnswer(i)
    <2>1. /\ Handler(i, "done") /\ UNCHANGED <<storage, job>>
          /\ \/ /\ acked' = acked \cup {i}
                /\ ackedFlushed' = ackedFlushed \cup {i}
                      \/ ackedFlushed' = ackedFlushed
             \/ UNCHANGED <<acked, ackedFlushed>>
      BY <1>3 DEF InsertAnswer, threads
    <2>2. Rows'
      BY <2>1 DEF TypeInv, Rows, HandlerType, NewUnseen, Handler, Known, storage
    <2>3. Parts'
      BY <2>1 DEF TypeInv, Parts, JobFits, storage
    <2> QED
      BY <1>0, <2>2, <2>3 DEF TypeInv
  <1> QED
    BY <1>1, <1>2, <1>3 DEF InsertWork

(* A forced merge overtakes the pass's job on its day.                       *)
LEMMA ForceMergeTypes ==
    ASSUME TypeInv, NEW d \in Days, ForceMerge(d)
    PROVE  TypeInv'
  <1>1. /\ small' \in [Days -> Nat]
        /\ \A e \in Days : small'[e] <= small[e] /\ (e # d => small'[e] = small[e])
    BY WorkersAssumption DEF ForceMerge, Lesser, TypeInv, Parts
  <1>2. \/ job' = job /\ (job = NoJob \/ job.day # d)
        \/ /\ job # NoJob /\ job \in [day : Days, n : Nat, listed : BOOLEAN]
           /\ job' = [job EXCEPT !.listed = FALSE]
    BY DEF ForceMerge, Overtake, TypeInv, Parts, JobFits
  <1>3. JobFits'
    BY <1>1, <1>2 DEF TypeInv, Parts, JobFits
  <1>4. Parts'
    BY <1>1, <1>3 DEF ForceMerge, TypeInv, Parts
  <1>5. Threads'
    BY <1>2 DEF ForceMerge, TypeInv, Threads, world
  <1>6. Rows'
    BY DEF ForceMerge, TypeInv, Rows, HandlerType, NewUnseen, Known, clients
  <1> QED
    BY <1>4, <1>5, <1>6 DEF TypeInv

(* No step leaves the types, action by action.                               *)
LEMMA StepTypes == TypeInv /\ [Next]_vars => TypeInv'
  <1> SUFFICES ASSUME TypeInv, [Next]_vars
               PROVE  TypeInv'
    OBVIOUS
  <1>1. CASE UNCHANGED vars
    <2>1. JobFits' /\ Threads'
      BY <1>1 DEF vars, storage, threads, world, TypeInv, Parts, JobFits, Threads
    <2> QED
      BY <1>1, <2>1, ThreadStepTypes DEF vars
  <1>2. CASE \E w \in Workers : WorkerStops(w)
    <2>1. PICK w \in Workers : WorkerStops(w)
      BY <1>2
    <2>2. JobFits'
      BY <2>1 DEF WorkerStops, storage, TypeInv, Parts, JobFits
    <2>3. job # NoJob => w # "merge"
      BY <2>1 DEF WorkerStops, TypeInv, Threads
    <2>4. worker' = [worker EXCEPT ![w] = "gone"] /\ w \in stop
      BY <2>1 DEF WorkerStops, Step
    <2>5. Threads'
      BY <2>1, <2>3, <2>4 DEF WorkerStops, world, TypeInv, Threads, Workers
    <2> QED
      BY <2>1, <2>2, <2>5, ThreadStepTypes DEF WorkerStops
  <1>3. CASE PeriodicFlush \/ FlushRequest
    BY <1>3, FlushStepTypes DEF PeriodicFlush, FlushRequest, TypeInv, Threads
  <1>4. CASE MergeTick \/ MergeWork
    BY <1>4, MergeStepTypes
  <1>5. CASE \E d \in Days \ expired : Expire(d)
    <2>1. JobFits' /\ Threads'
      BY <1>5 DEF Expire, storage, threads, TypeInv, Parts, JobFits, Threads
    <2> QED
      BY <1>5, <2>1, ThreadStepTypes DEF Expire
  <1>6. CASE RetentionTick
    <2>1. JobFits' /\ Threads'
      BY <1>6 DEF RetentionTick, Step, storage, world, TypeInv, Parts, JobFits,
         Threads, Workers
    <2> QED
      BY <1>6, <2>1, ThreadStepTypes DEF RetentionTick
  <1>7. CASE RetentionDrops
    BY <1>7, RetentionDropsTypes
  <1>8. CASE \E i \in Requests : InsertAppend(i) \/ InsertWork(i)
    BY <1>8, InsertTypes
  <1>9. CASE \E d \in Days : ForceMerge(d)
    BY <1>9, ForceMergeTypes
  <1>10. CASE SignalFlush \/ CloseFlush
    BY <1>10, FlushStepTypes DEF SignalFlush, CloseFlush, Goto
  <1>11. CASE CloseServer \/ \E w \in Workers : StopWorker(w)
    <2>1. JobFits' /\ Threads'
      BY <1>11 DEF CloseServer, StopWorker, Goto, storage, threads, world,
         TypeInv, Parts, JobFits, Threads
    <2> QED
      BY <1>11, <2>1, ThreadStepTypes DEF CloseServer, StopWorker
  <1> QED
    BY <1>1, <1>2, <1>3, <1>4, <1>5, <1>6, <1>7, <1>8, <1>9, <1>10, <1>11
    DEF Next, MainWork

(* Every variable keeps its type; in particular a merge that ends takes from *)
(* its day only parts that are still listed.                                 *)
THEOREM TypeCorrect == Spec => []TypeOK
  <1>1. TypeInv => TypeOK
    BY DEF TypeInv, Rows, Parts, Threads, TypeOK, Known, HandlerType
  <1> QED
    BY <1>1, InitTypes, StepTypes, PTL DEF Spec
=============================================================================
