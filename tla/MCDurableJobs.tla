--------------------------- MODULE MCDurableJobs ---------------------------
EXTENDS DurableJobs, TLC

CONSTANTS jobA, jobB, jobC, jobD, w1, w2, e1

Job(lane, gpu, priority, created, deadline, epoch, recombination) ==
  [lane |-> lane, gpu |-> gpu, priority |-> priority, attempts |-> 2, created |-> created,
   start |-> created, deadline |-> deadline, epoch |-> epoch, recombination |-> recombination]

\* Two local-GPU jobs in different lanes: rolling inference work and the model factory.
LeaseJobs == (jobA :> Job("inference", TRUE, 200, 0, 3, e1, FALSE))
             @@ (jobB :> Job("maintenance", TRUE, 100, 0, 3, None, FALSE))

\* A full queue: ordinary work in two lanes, the imminent field's work arriving later in the
\* lane of the older, and recovery.
QueueJobs == (jobA :> Job("inference", FALSE, 200, 0, 3, None, FALSE))
             @@ (jobB :> Job("maintenance", FALSE, 100, 0, 1, None, FALSE))
             @@ (jobC :> Job("inference", FALSE, 400, 2, 3, None, FALSE))
             @@ (jobD :> Job("lookup_recovery", FALSE, 500, 0, 1, None, FALSE))

MCAttemptLimit == [schema |-> 1, transport |-> 2]
LaneLimit(n) == [l \in Lanes |-> n]
TwoPerLane == LaneLimit(2)
OnePerLane == LaneLimit(1)
WorkerSymmetry == Permutations(Workers)
============================================================================
