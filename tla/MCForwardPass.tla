---------------------------- MODULE MCForwardPass ----------------------------
(* TLC instance of ForwardPass: two Mamba, two attention and an expert layer, *)
(* with an index the schedule skips.                                          *)
EXTENDS ForwardPass

MCSchedule ==
  << [index |-> 0, kind |-> "mamba"],
     [index |-> 1, kind |-> "attention"],
     [index |-> 2, kind |-> "expert"],
     [index |-> 4, kind |-> "mamba"],
     [index |-> 5, kind |-> "attention"] >>
=============================================================================
