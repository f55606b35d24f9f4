------------------------------ MODULE MCEngine ------------------------------
(* A small instance of Engine: ramps of 3 samples against updates every 2 or 3, *)
(* calls of one sample at twice the rate. With it, the oversampler with one or  *)
(* two sections in each cascade and all signals of three samples of 0 and 1.    *)
EXTENDS OversampledEngine

MCCallSizes == {1}
MCTables0 == [upDirect   |-> <<1, -1>>, upDelayed   |-> <<2>>,
              downDirect |-> <<1>>,     downDelayed |-> <<-1>>]
MCTables1 == [upDirect   |-> <<1>>,     upDelayed   |-> <<2>>,
              downDirect |-> <<2>>,     downDelayed |-> <<1>>]
MCSignals == [1..3 -> {0, 1}]
=============================================================================
