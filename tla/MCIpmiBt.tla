------------------------------ MODULE MCIpmiBt ------------------------------
(***************************************************************************)
(* Small instances of IpmiBt: late answers; lost requests; a running OS;   *)
(* a queue that is smaller than the number of CPUs; and endless retries.   *)
(***************************************************************************)
EXTENDS IpmiBt

MCSettings ==
  {[max_queue |-> 2, booting |-> TRUE, max_retries |-> 0, trouble |-> {"late"},
    messages |-> 3],
   [max_queue |-> 2, booting |-> TRUE, max_retries |-> 1, trouble |-> {"drop", "late"},
    messages |-> 2],
   [max_queue |-> 2, booting |-> FALSE, max_retries |-> 1,
    trouble |-> {"drop", "reuse", "attention"}, messages |-> 2],
   [max_queue |-> 1, booting |-> TRUE, max_retries |-> 0, trouble |-> {}, messages |-> 3],
   [max_queue |-> 2, booting |-> TRUE, max_retries |-> 2, trouble |-> {"drop"},
    messages |-> 1]}
=============================================================================
