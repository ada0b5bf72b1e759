----------------------------- MODULE ParallelFor -----------------------------
(***************************************************************************)
(* What ParallelForRows promises its callers                               *)
(* (src/vt/cpu/cpu_threadpool.h): a call runs its body over every row of   *)
(* its grid exactly once, calls from several host threads take turns, and  *)
(* a call returns when all its rows are done, or with the exception of its *)
(* own body.  How the rows are shared out between threads is not said.     *)
(***************************************************************************)
EXTENDS Integers, Sequences, FiniteSets

CONSTANTS Submitter,  \* host threads that call ParallelForRows
          Jobs,       \* submitter -> the grids it submits, in order:
                      \* [nr: rows, throws: the rows whose body throws]
          None

VARIABLES current,   \* the call whose rows are being computed, or None
          times,     \* row -> how often the current call's body ran on it
          failed,    \* the body of the current call has thrown
          results    \* submitter -> what its calls came back with, in order

vars == <<current, times, failed, results>>

(* A call is <<submitter, how many it made before>>. *)
Grid(c)   == Jobs[c[1]][c[2] + 1]
NextOf(s) == <<s, Len(results[s])>>
HasMore(s) == Len(results[s]) < Len(Jobs[s])

Done(c)  == [how |-> "done", of |-> c]
Threw(c) == [how |-> "threw", of |-> c]

Init == /\ current = None
        /\ times = << >>
        /\ failed = FALSE
        /\ results = [s \in Submitter |-> << >>]

Call(s) == /\ current = None /\ HasMore(s)
           /\ current' = NextOf(s)
           /\ times' = [r \in 1 .. Grid(NextOf(s)).nr |-> 0]
           /\ failed' = FALSE
           /\ UNCHANGED results

(* A single row has nothing to share out: its caller computes it at once.  *)
CallInline(s) ==
    /\ HasMore(s) /\ NextOf(s) # current
    /\ results' = [results EXCEPT ![s] = Append(@,
                     IF Grid(NextOf(s)).throws = {} THEN Done(NextOf(s)) ELSE Threw(NextOf(s)))]
    /\ UNCHANGED <<current, times, failed>>

(* Rows nobody has computed yet are computed; the body may throw. *)
Compute ==
    /\ current # None
    /\ \E R \in SUBSET {r \in DOMAIN times : times[r] = 0} :
         times' = [r \in DOMAIN times |-> IF r \in R THEN 1 ELSE times[r]]
    /\ failed' \in {failed, Grid(current).throws # {}}
    /\ failed => failed'
    /\ UNCHANGED <<current, results>>

Return(s) ==
    /\ current # None /\ current = NextOf(s)
    /\ failed \/ \A r \in DOMAIN times : times[r] = 1
    /\ results' = [results EXCEPT ![s] =
                     Append(@, IF failed THEN Threw(current) ELSE Done(current))]
    /\ current' = None /\ times' = << >> /\ failed' = FALSE

Next == Compute \/ \E s \in Submitter : Call(s) \/ CallInline(s) \/ Return(s)

Spec == Init /\ [][Next]_vars
==============================================================================
