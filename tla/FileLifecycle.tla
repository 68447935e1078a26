---------------------------- MODULE FileLifecycle ----------------------------
(***************************************************************************)
(* What Flycatcher promises for the files of the watched directory, said   *)
(* without paths, queues and events: a file waits, is handled by one       *)
(* processor at a time, and is archived for good.  It is taken at most     *)
(* once in each run of the process; when the process ends in the middle of *)
(* a file, the file waits for the next run.                                *)
(***************************************************************************)
EXTENDS Naturals

CONSTANTS
    Files,
    Processors,
    Nobody

VARIABLES
    up,      \* the process runs
    run,     \* how often it was started
    stage,   \* [Files -> ...]
    holder,  \* [Files -> the processor that handles the file, or Nobody]
    tries    \* [Files -> Nat]: how often the file was taken

vars == <<up, run, stage, holder, tries>>

Produce(f) ==
    /\ stage[f] = "absent"
    /\ stage' = [stage EXCEPT ![f] = "waiting"]
    /\ UNCHANGED <<up, run, holder, tries>>

Start ==
    /\ ~up
    /\ up' = TRUE
    /\ run' = run + 1
    /\ UNCHANGED <<stage, holder, tries>>

Take(f, p) ==
    /\ up /\ stage[f] = "waiting" /\ tries[f] < run
    /\ \A g \in Files : holder[g] # p
    /\ stage' = [stage EXCEPT ![f] = "taken"]
    /\ holder' = [holder EXCEPT ![f] = p]
    /\ tries' = [tries EXCEPT ![f] = @ + 1]
    /\ UNCHANGED <<up, run>>

Archive(f) ==
    /\ up /\ stage[f] = "taken"
    /\ stage' = [stage EXCEPT ![f] = "archived"]
    /\ holder' = [holder EXCEPT ![f] = Nobody]
    /\ UNCHANGED <<up, run, tries>>

(* An exit or a crash. *)
Stop ==
    /\ up
    /\ up' = FALSE
    /\ stage' = [f \in Files |-> IF stage[f] = "taken" THEN "waiting" ELSE stage[f]]
    /\ holder' = [f \in Files |-> Nobody]
    /\ UNCHANGED <<run, tries>>

Init ==
    /\ up = FALSE /\ run = 0
    /\ stage = [f \in Files |-> "absent"]
    /\ holder = [f \in Files |-> Nobody]
    /\ tries = [f \in Files |-> 0]

Next ==
    \/ Start \/ Stop
    \/ \E f \in Files : Produce(f) \/ Archive(f) \/ \E p \in Processors : Take(f, p)

Spec == Init /\ [][Next]_vars
==============================================================================
