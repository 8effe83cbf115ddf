----------------------------- MODULE Conversations -----------------------------
(***************************************************************************)
(* One conversation over the shared store: messages with attachments, the   *)
(* tasks they start, what these perceive, recall and leave behind, while    *)
(* uploads and collections of attachments go on, reads of their files fail, *)
(* leases lapse, workers crash and the catalog is replaced; and the         *)
(* requests of one client against its rate limit.                           *)
(*                                                                          *)
(* A worker's event loop does one thing at a time: neither a route nor a    *)
(* step of a task runs while the loop is in upload_attachment or in the     *)
(* collection at its start.                                                 *)
(***************************************************************************)
EXTENDS AttachmentStore, ContextMemory, Sequences

CONSTANTS
    NoWorker,
    Scenarios       \* bounds: which workers serve, and how far clock, uploads, ageings,
                    \* messages, takeovers, crashes, failed reads and imports go together

ASSUME ConversationAssumption ==
    /\ IsFiniteSet(Workers) /\ Workers # {} /\ NoWorker \notin Workers
    /\ \A s \in Scenarios : /\ s.serving \subseteq Workers
                            /\ s.stored \in 0 .. MaxAttachments
                            /\ s.stored <= MaxStored + Cardinality(Workers) - 1
                            /\ s.questions \subseteq Questions /\ s.findings \subseteq Findings

VARIABLES
    scenario,       \* the bounds of this behaviour
    messages,       \* the user's messages: what they say and the attachments they name
    items,          \* context_memory_items of the conversation
    revision,       \* the catalog revision
    turn,           \* the row of the run that is under way
    task,           \* task[w]: where w's executor stands
    perceived,      \* how many perceptions there were, the clock of observations
    spent,          \* takeovers, crashes and failed reads so far
    latest,         \* latest[a]: the newest observation of a that was ever kept
    late            \* attachments that were collected, or could be, when they were named, or
                    \* whose metadata a collection could not read

talkVars == <<scenario, messages, items, revision, turn, task, perceived, spent, latest, late>>
vars == <<rateVars, fileVars, referenced, talkVars>>

NoTurn == [owner |-> NoWorker, revision |-> 0, records |-> {}, final |-> FALSE]
NoTask == [at |-> "idle", number |-> 0, text |-> "", names |-> {}, revision |-> 0, said |-> {}, items |-> {},
           records |-> {}, context |-> {}]

Init ==
    /\ scenario \in Scenarios
    /\ RateInit /\ FilesInit(scenario.stored)
    /\ messages = <<>> /\ items = {} /\ revision = 1 /\ turn = NoTurn
    /\ task = [w \in Workers |-> NoTask]
    /\ perceived = 0 /\ spent = [lapses |-> 0, crashes |-> 0, faults |-> 0]
    /\ latest = [b \in Attachments |-> 0] /\ late = {}

LoopFree(w) == job[w].at = "idle"
At(w, where) == task[w].at = where /\ LoopFree(w)
Goto(w, where) == task' = [task EXCEPT ![w].at = where]
Ends(w) == task' = [task EXCEPT ![w] = NoTask]
InCharge(w) == turn.owner = w
Spend(kind) == spent[kind] < scenario[kind] /\ spent' = [spent EXCEPT ![kind] = @ + 1]

\* A collection that has read the references may still delete a; or a is gone.
Doomed(b) ==
    \/ ~Whole(b)
    \/ \E w \in Workers : /\ job[w].at \in {"sweep", "unlink"} /\ b \notin job[w].refs
                          /\ b \in job[w].records \cup {job[w].victim}

-----------------------------------------------------------------------------
(* The route of a message.                                                  *)

\* add_message: the attachments must load; the revision served is the task's.
Resolve(w) ==
    /\ At(w, "idle") /\ Len(messages) < scenario.messages
    /\ \E q \in scenario.questions, names \in SUBSET known :
          /\ \A b \in names : Whole(b)
          /\ task' = [task EXCEPT ![w] = [NoTask EXCEPT !.at = "accept", !.text = q,
                                              !.names = names, !.revision = revision]]
    /\ UNCHANGED <<rateVars, fileVars, referenced, scenario, messages, items, revision, turn,
                   perceived, spent, latest, late>>

\* start_run_with_user_message: message and run in one transaction, unless a run is active.
Accept(w) ==
    /\ At(w, "accept")
    /\ \/ /\ turn = NoTurn
          /\ messages' = Append(messages, [text |-> task[w].text, names |-> task[w].names])
          /\ turn' = [NoTurn EXCEPT !.owner = w, !.revision = task[w].revision]
          /\ referenced' = referenced \cup task[w].names
          /\ late' = late \cup {b \in task[w].names : Doomed(b)}
          /\ task' = [task EXCEPT ![w].at = "pool", ![w].number = Len(messages')]
       \/ /\ turn # NoTurn
          /\ Ends(w) /\ UNCHANGED <<messages, turn, referenced, late>>
    /\ UNCHANGED <<rateVars, fileVars, scenario, items, revision, perceived, spent, latest>>

-----------------------------------------------------------------------------
(* The executor.                                                            *)

\* Every message but the task's own, as the store returns it.
Earlier == {[source |-> n, text |-> messages[n].text, at |-> n] : n \in 1 .. Len(messages) - 1}
Asked == messages[Len(messages)]

Pool(w) ==
    /\ At(w, "pool")
    /\ task' = [task EXCEPT ![w].at = "perceive",
                            ![w].said = Remembered(task[w].text, Earlier),
                            ![w].items = Observed(task[w].text, items)]
    /\ UNCHANGED <<rateVars, fileVars, referenced, scenario, messages, items, revision, turn,
                   perceived, spent, latest, late>>

\* Observations of the task's own attachments are not recalled.
Recalled(w, own) == {r \in task[w].items : r.source \notin own}

\* The attachments that still load are perceived, each with an observation or with none that
\* can be kept; the context is built, and the row persisted with the observations, which a
\* worker no longer in charge cannot do.
Perceive(w) ==
    LET own == {b \in task[w].names : Whole(b)}
    IN /\ At(w, "perceive")
       /\ \E ready \in SUBSET own : \E finding \in [ready -> scenario.findings] :
             LET records == {[source |-> b, text |-> finding[b], revision |-> task[w].revision,
                              at |-> (perceived + 1) * MaxAttachments + b] : b \in ready}
             IN \E context \in GovernedContexts(task[w].text, task[w].said, Recalled(w, own),
                                                records, task[w].revision) :
                   \/ /\ InCharge(w)
                      /\ turn' = [turn EXCEPT !.records = records]
                      /\ task' = [task EXCEPT ![w].at = "run", ![w].records = records,
                                              ![w].context = context]
                   \/ /\ ~InCharge(w) /\ Ends(w) /\ UNCHANGED turn
       /\ perceived' = perceived + 1
       /\ UNCHANGED <<rateVars, fileVars, referenced, scenario, messages, items, revision,
                      spent, latest, late>>

\* The runner returns: the final checkpoint is persisted and the lease renewed, or the task
\* retires.
Run(w) ==
    /\ At(w, "run")
    /\ \/ InCharge(w) /\ turn' = [turn EXCEPT !.final = TRUE] /\ Goto(w, "remember")
       \/ ~InCharge(w) /\ Ends(w) /\ UNCHANGED turn
    /\ UNCHANGED <<rateVars, fileVars, referenced, scenario, messages, items, revision,
                   perceived, spent, latest, late>>

\* Results of another revision fail the run; otherwise the observations are kept, whoever is
\* in charge by now.
Keep(w) ==
    /\ \/ At(w, "remember") /\ task[w].revision = revision
       \/ At(w, "answer")
    /\ items' = Remember(items, task[w].records)
    /\ latest' = [b \in Attachments |->
                      Max({latest[b]} \cup {r.at : r \in {i \in items' : i.source = b}})]
    /\ Goto(w, "publish")
    /\ UNCHANGED <<rateVars, fileVars, referenced, scenario, messages, revision, turn,
                   perceived, spent, late>>

\* The answer is stored by the worker in charge only.
Publish(w) ==
    /\ At(w, "publish")
    /\ turn' = IF InCharge(w) THEN NoTurn ELSE turn
    /\ Ends(w)
    /\ UNCHANGED <<rateVars, fileVars, referenced, scenario, messages, items, revision,
                   perceived, spent, latest, late>>

\* A failure or a stop request ends the run with nothing kept.
Fail(w) ==
    /\ task[w].at \in {"pool", "perceive", "run", "remember", "answer"} /\ LoopFree(w)
    /\ turn' = IF InCharge(w) THEN NoTurn ELSE turn
    /\ Ends(w)
    /\ UNCHANGED <<rateVars, fileVars, referenced, scenario, messages, items, revision,
                   perceived, spent, latest, late>>

-----------------------------------------------------------------------------
(* Takeovers, crashes and imports.                                          *)

\* The lease lapsed and w recovers the run: it fails on another revision, is answered from
\* a final checkpoint with the observations of its row, or starts over.
Recover(w) ==
    /\ At(w, "idle") /\ turn # NoTurn /\ (InCharge(w) \/ Spend("lapses"))
    /\ InCharge(w) => UNCHANGED spent
    /\ \/ turn.revision # revision /\ turn' = NoTurn /\ UNCHANGED task
       \/ /\ turn.revision = revision
          /\ turn' = [turn EXCEPT !.owner = w]
          /\ task' = [task EXCEPT ![w] =
                 [NoTask EXCEPT !.at = IF turn.final THEN "answer" ELSE "pool",
                                !.number = Len(messages), !.text = Asked.text, !.names = Asked.names,
                                !.revision = turn.revision,
                                !.records = IF turn.final THEN turn.records ELSE {}]]
    /\ UNCHANGED <<rateVars, fileVars, referenced, scenario, messages, items, revision,
                   perceived, latest, late>>

Crash(w) ==
    /\ Spend("crashes")
    /\ Restart(w) /\ Ends(w)
    /\ UNCHANGED <<rateVars, scenario, messages, items, revision, turn, perceived, latest, late>>

\* The catalog is replaced while no run is active.
Import ==
    /\ turn = NoTurn /\ revision <= scenario.imports
    /\ revision' = revision + 1
    /\ UNCHANGED <<rateVars, fileVars, referenced, scenario, messages, items, turn, task,
                   perceived, spent, latest, late>>

Requests ==
    /\ scenario.clock > 0
    /\ RateStep /\ clock' <= scenario.clock /\ setbacks' <= scenario.setbacks
    /\ UNCHANGED <<fileVars, referenced, talkVars>>

\* Nothing comes between two statements of the same event loop.
Files ==
    /\ FileStep(scenario.serving)
    /\ \A w \in Workers : task[w].at \in {"accept", "publish"} => job'[w] = job[w]
    /\ uploaded' <= scenario.uploads /\ Cardinality(old') <= scenario.ageings
    /\ UNCHANGED <<rateVars, talkVars>>

\* The metadata of some attachments cannot be read, if only this once, while w collects.
Misread(w) ==
    /\ Spend("faults") /\ task[w].at \notin {"accept", "publish"}
    /\ \E unreadable \in (SUBSET meta) \ {{}} :
          Scan(w, unreadable) /\ late' = late \cup unreadable
    /\ UNCHANGED <<rateVars, scenario, messages, items, revision, turn, task, perceived, latest>>

TaskStep(w) ==
    Resolve(w) \/ Accept(w) \/ Pool(w) \/ Perceive(w) \/ Run(w) \/ Keep(w) \/ Publish(w) \/ Fail(w)

Next ==
    \/ \E w \in scenario.serving : TaskStep(w) \/ Recover(w) \/ Crash(w) \/ Misread(w)
    \/ Import \/ Requests \/ Files

Spec == Init /\ [][Next]_vars

-----------------------------------------------------------------------------
(* Properties.                                                              *)

Alone == \A v, w \in scenario.serving : v = w

\* Where one worker serves and every read succeeds, an attachment that a message names can be
\* loaded for as long as the conversation exists, whatever is uploaded, collected or cut off by
\* a crash.  Among several workers, or after failed reads, that is so of those that nobody was
\* collecting, or had, when the message was accepted, and whose metadata could always be read.
\* (gc_attachments, store.referenced_attachment_ids)
ReferencedIsKept ==
    /\ Alone /\ spent.faults = 0 => \A b \in referenced : Whole(b)
    /\ \A b \in referenced \ late : Whole(b)

\* What the reference protection is for, which the code does not keep: the lock is one
\* process's, and unreadable metadata is unlinked without asking for references.
ReferencedIsAlwaysKept == \A b \in referenced : Whole(b)

\* What is kept of an attachment is its newest observation ever: an executor that lost its run
\* cannot bring an older one back, not even after a later one was pruned.
\* (store._upsert_context_item, _prune_context_items)
ObservationsOnlyForward ==
    /\ Cardinality(items) <= ItemBudget
    /\ \A i, o \in items : i.source = o.source => i = o
    /\ \A i \in items : i.at = latest[i.source]

Grounded(w) ==
    LET told == task[w].context
    IN /\ Cardinality(told) <= MaxSelected
       /\ \A r \in told : CASE r.kind = "user" -> r.source < task[w].number
                            [] r.kind = "seen" ->
                                  \E i \in task[w].items : /\ i.source = r.source /\ i.at = r.at
                                                          /\ i.revision = task[w].revision
                            [] OTHER -> r.source \in task[w].names
       /\ \A r, o \in told : r.source = o.source /\ "user" \notin {r.kind, o.kind} => r = o
       /\ task[w].text \in Continuing /\ task[w].number > 1 =>
              \E r \in told : r.kind = "user" /\ r.text = messages[task[w].number - 1].text

\* The context of a task recalls earlier messages only, no observation made on another
\* catalog, nothing of the task's own attachments twice, no more than its budget; and a
\* question that continues a conversation carries what was said last.
\* (api_core._execute, context_memory.build_governed_context)
ContextIsGrounded == \A w \in Workers : task[w].at \in {"run", "remember"} => Grounded(w)
=============================================================================
