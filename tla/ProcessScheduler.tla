--------------------------- MODULE ProcessScheduler ---------------------------
(***************************************************************************)
(* What the process core promises (spec.md sections 3, 4.4 and 4.5),      *)
(* without rings, slots or counters: a queue of distinct live pids, the   *)
(* parent of each, and the pid on the CPU.                                *)
(*   - boot starts one parentless root shell per terminal;                *)
(*   - spawn puts a fresh pid, child of the caller, at the front and runs *)
(*     it;                                                                *)
(*   - halt removes the caller and resumes its parent, which is live;     *)
(*     the last process is replaced by a fresh root shell instead;        *)
(*   - a timer tick moves the front to the rear and runs the new front.   *)
(***************************************************************************)
EXTENDS Naturals, Sequences, SequencesExt

CONSTANTS Pids, NUM_TERMINALS

VARIABLES queue, parent, running

avars == <<queue, parent, running>>

NoPid == 0

AInit ==
    /\ queue   = <<>>
    /\ parent  = [p \in Pids |-> NoPid]
    /\ running = NoPid

Boot ==
    /\ queue = <<>>
    /\ \E roots \in [1 .. NUM_TERMINALS -> Pids] :
          /\ \A i, j \in DOMAIN roots : i # j => roots[i] # roots[j]
          /\ queue'   = roots
          /\ parent'  = [p \in Pids |-> IF p \in ToSet(roots) THEN NoPid
                                                            ELSE parent[p]]
          /\ running' = roots[1]

Spawn ==
    /\ queue # <<>>
    /\ \E c \in Pids \ ToSet(queue) :
          /\ queue'   = <<c>> \o queue
          /\ parent'  = [parent EXCEPT ![c] = running]
          /\ running' = c

Exit ==
    /\ Len(queue) > 1
    /\ Contains(queue, running)
    /\ parent[running] \in ToSet(Remove(queue, running))
    /\ queue'   = Remove(queue, running)
    /\ running' = parent[running]
    /\ UNCHANGED parent

Restart ==
    /\ queue = <<running>>
    /\ \E c \in Pids :
          /\ queue'   = <<c>>
          /\ parent'  = [parent EXCEPT ![c] = NoPid]
          /\ running' = c

Rotate ==
    /\ queue # <<>>
    /\ queue'   = Tail(queue) \o <<Head(queue)>>
    /\ running' = Head(queue')
    /\ UNCHANGED parent

ANext == Boot \/ Spawn \/ Exit \/ Restart \/ Rotate

ASpec == AInit /\ [][ANext]_avars

=============================================================================
