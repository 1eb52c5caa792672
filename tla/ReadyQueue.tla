----------------------------- MODULE ReadyQueue -----------------------------
(***************************************************************************)
(* The process queue of sched.c: an array of MAX_PROCESSES PCB pointers    *)
(* with a front index (the running process) and a rear index.  A PCB       *)
(* pointer is represented by the pid whose slot it points at (the slot     *)
(* address 8MB - pid*8KB is injective in pid); NULL is 0.  The queue keeps *)
(* no length: the code relies on the global process_count for that.        *)
(* Every operator is a pure function of the queue record, so the kernel    *)
(* module can compose several of them inside one handler.                  *)
(***************************************************************************)
LOCAL INSTANCE Naturals

CONSTANT MAX_PROCESSES

ASSUME MAX_PROCESSES \in Nat /\ MAX_PROCESSES >= 2

NULL  == 0
Slots == 0 .. MAX_PROCESSES - 1

(* pq_init: front starts at 1 so that the first enqueue_front lands on 0. *)
PqInit == [pcbs  |-> [i \in Slots |-> NULL],
           front |-> 1,
           rear  |-> 0]

(* pq_enqueue: add at the rear, wrapping; fails without change for an    *)
(* out-of-range pid.  No overfill check (the check is commented out).    *)
PqEnqueue(q, p) ==
    IF p > MAX_PROCESSES THEN q
    ELSE LET r == IF q.rear >= MAX_PROCESSES - 1 THEN 0 ELSE q.rear + 1
         IN  [q EXCEPT !.rear = r, !.pcbs[r] = p]

(* Mutants of pq_enqueue_front: the wrap below 0 left out, and the store *)
(* made at the old front before stepping back.                           *)
PqEnqueueFrontNoWrap(q, p) ==
    [q EXCEPT !.front = q.front - 1, !.pcbs[q.front - 1] = p]

PqEnqueueFrontStoreFirst(q, p) ==
    LET f == IF q.front - 1 < 0 THEN MAX_PROCESSES - 1 ELSE q.front - 1
    IN  [q EXCEPT !.front = f, !.pcbs[q.front] = p]

(* pq_enqueue_front: step front back, wrapping below 0, and store there. *)
PqEnqueueFront(q, p) ==
    LET f == IF q.front - 1 < 0 THEN MAX_PROCESSES - 1 ELSE q.front - 1
    IN  [q EXCEPT !.front = f, !.pcbs[f] = p]

(* pq_peak: the pointer at the front index. *)
PqPeak(q) == q.pcbs[q.front]

(* Mutant of pq_dequeue: front not advanced.                             *)
PqDequeueStuck(q) == q

(* pq_dequeue: advance front, wrapping at MAX_PROCESSES; the slot keeps   *)
(* its stale pointer.                                                     *)
PqDequeue(q) ==
    [q EXCEPT !.front = IF q.front + 1 >= MAX_PROCESSES THEN 0 ELSE q.front + 1]

(* pq_rotate increments rear WITHOUT wrapping ("don't need to check       *)
(* bounds b/c we just dequeued") and stores the old front at pcbs[rear].  *)
(* When rear was already the last slot, that store is out of the array.   *)
PqRotateOverruns(q) == q.rear + 1 > MAX_PROCESSES - 1

(* Mutant of pq_rotate: the old front stored at rear without moving it. *)
PqRotateNoAdvance(q) ==
    [PqDequeue(q) EXCEPT !.pcbs[q.rear] = PqPeak(q)]

PqRotate(q) ==
    LET old == PqPeak(q)
        d   == PqDequeue(q)
    IN  [d EXCEPT !.rear = q.rear + 1, !.pcbs[q.rear + 1] = old]

(* The queue as the sequence front..rear, given the number n of entries   *)
(* (process_count in the kernel).                                         *)
RingSeq(q, n) == [i \in 1 .. n |-> q.pcbs[(q.front + i - 1) % MAX_PROCESSES]]

=============================================================================
