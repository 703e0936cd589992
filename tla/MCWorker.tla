------------------------------ MODULE MCWorker ------------------------------
(***************************************************************************)
(* Small configurations.  Page tables have room for 8 pages, so that three *)
(* requests of three pages do not fit; 33 requests are more than a model   *)
(* of one token has room for in its arrays.                                *)
(***************************************************************************)
EXTENDS Worker

Base == [pooling |-> FALSE, spec |-> FALSE, mla |-> FALSE, len |-> 33,
         seqs |-> 2, tokens |-> 140, minContext |-> 48, most |-> 0, eager |-> FALSE,
         cpuSampling |-> FALSE, batch |-> 1, all |-> TRUE, dp |-> FALSE, tp |-> 0,
         kvHeads |-> 3, devices |-> 1]

Generative ==
    {[Base EXCEPT !.len = l, !.seqs = s, !.minContext = m, !.most = x] :
        l \in {33, 70}, s \in {1, 3}, m \in {1, 200}, x \in {0, 18}}
    \cup {[Base EXCEPT !.spec = TRUE], [Base EXCEPT !.mla = TRUE, !.tokens = 8],
          [Base EXCEPT !.eager = TRUE], [Base EXCEPT !.cpuSampling = TRUE],
          [Base EXCEPT !.tp = 2], [Base EXCEPT !.tp = 3],
          [Base EXCEPT !.len = 1, !.seqs = 33, !.minContext = 1]}

Pooling ==
    {[Base EXCEPT !.pooling = TRUE, !.len = l, !.tokens = t, !.seqs = s, !.batch = b,
                  !.all = a, !.dp = d > 1, !.devices = d] :
        l \in {33, 70}, t \in {70, 200}, s \in {1, 3, 4}, b \in {1, 3, 4},
        a \in BOOLEAN, d \in {1, 2, 4}}

MCConfigs == Generative \cup Pooling
=============================================================================
