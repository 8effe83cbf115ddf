-------------------------- MODULE MCObservationMemory --------------------------
(* Small instances of ObservationMemory in one run.  Ledgers: three configs of which two    *)
(* fit the read budget and a history of two rows, with a clock that is set back once.  Ages: *)
(* one config, written twice or left by an older version, read three times by two processes. *)
EXTENDS ObservationMemory, TLC

CONSTANTS p1, p2

Ledgers == [batches : {{<<1>>, <<2>>, <<3>>, <<1, 3>>, <<2, 2>>}}, seeds : {{}, {2}, {1, 2}},
            commits : {5}, jumps : {1}, reads : {0}]
Ages    == [batches : {{<<1>>}}, seeds : {{}, {1}}, commits : {2}, jumps : {1}, reads : {3}]

MCConfigs   == 1 .. 3
MCScenarios == Ledgers \cup Ages
MCReaders   == {p1, p2}
MCSymmetry  == Permutations(MCReaders)
=============================================================================
