---------------------------- MODULE MCConversations ----------------------------
(* Two workers.  Scenarios keep the questions apart: requests against the limit, with and     *)
(* without a clock that is set back; uploads and collections around a message, by two workers *)
(* and by one, with and without a crash or a failed read; a conversation that recalls what it *)
(* learned over an import; and one whose executors overtake each other.                       *)
EXTENDS Conversations, TLC

CONSTANTS wA, wB, ask, goOn, red, blue

MCWorkers   == {wA, wB}
MCQuestions == {ask, goOn}
MCFindings  == {red, blue}
MCMatch == [q \in MCQuestions |-> [t \in MCQuestions \cup MCFindings |->
               IF q = t THEN 2 ELSE IF q = ask /\ t = red THEN 1 ELSE 0]]

Still == [serving |-> MCWorkers, clock |-> 0, setbacks |-> 0, stored |-> 0, uploads |-> 0,
          ageings |-> 0, messages |-> 0, questions |-> {ask}, findings |-> {red}, lapses |-> 0,
          crashes |-> 0, faults |-> 0, imports |-> 0]
Counting    == [Still EXCEPT !.clock = 7]
SettingBack == [Still EXCEPT !.clock = 4, !.setbacks = 1]
Collecting  == [Still EXCEPT !.uploads = 3, !.ageings = 1, !.messages = 1]
Crashing    == [Still EXCEPT !.uploads = 2, !.ageings = 2, !.messages = 1, !.crashes = 1]
Misreading  == [Still EXCEPT !.uploads = 2, !.ageings = 1, !.messages = 1, !.faults = 1]
Lone        == {[s EXCEPT !.serving = {w}] :
                   w \in MCWorkers,
                   s \in {[Collecting EXCEPT !.stored = 2, !.ageings = 2, !.crashes = 1],
                          [Misreading EXCEPT !.messages = 2]}}
Recalling   == [Still EXCEPT !.stored = 1, !.uploads = 1, !.messages = 3, !.imports = 1,
                             !.questions = MCQuestions, !.findings = MCFindings]
Racing      == [Still EXCEPT !.stored = 2, !.uploads = 2, !.messages = 2, !.lapses = 1]
MCScenarios == {Counting, SettingBack, Collecting, Crashing, Misreading, Recalling, Racing}
               \cup Lone

Alike == Permutations(MCWorkers)
=============================================================================
