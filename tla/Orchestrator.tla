----------------------------- MODULE Orchestrator -----------------------------
(***************************************************************************)
(* The round-robin loop of Orchestrator.run over workers on one kernel.    *)
(* Who wants to act and what a step does belong to the workers; the module *)
(* that has them conjoins their part to the actions here.                  *)
(*                                                                         *)
(* A worker is asked with the view of the last productive step, so between *)
(* two views the board may be ahead of what the workers are told.          *)
(* should_activate reads its view only, so asking one worker after another *)
(* is one action, up to the first that wants to step.                      *)
(***************************************************************************)
EXTENDS Kernel

CONSTANTS
    Writes,     \* Writes[w] is the set of slots worker w writes
    MaxRounds   \* max_rounds

VARIABLES
    stage,      \* where run is: looking, asking, in a step (step, call, inside), ...
    round,      \* the rounds begun
    turn,       \* the dependency key the round has got to
    view,       \* what the workers are shown
    produced,   \* any_produced
    errors      \* whether the run met an exception, or ended in one

orchVars == <<stage, round, turn, view, produced, errors>>

Workers == DOMAIN Writes

SlotOrder == [percepts |-> 0, beliefs |-> 1, constraints |-> 2, plans |-> 3,
              evidence |-> 4, predictions |-> 5, actions |-> 6]

\* _dependency_key: writers of early slots run first.
DependencyKey(w) == Min({SlotOrder[s] : s \in Writes[w]})

\* Workers of one key would run in the order they were given in.
ASSUME OrchestratorAssumption ==
    /\ MaxRounds \in Nat \ {0}
    /\ \A w \in Workers : Writes[w] # {} /\ Writes[w] \subseteq Slots
    /\ \A w, x \in Workers : DependencyKey(w) = DependencyKey(x) => w = x

\* It is this worker that steps.
AtWork(w) == turn = DependencyKey(w)

\* current_view(trace, include_persistent=True), all slots of it.  Only the loop
\* itself writes while it looks, so the slots are those of one board.
WholeView(trace) == UNION {Listed(recs, slot, trace, TRUE) : slot \in Slots}

-----------------------------------------------------------------------------
\* The loop.  `wanting` are the workers that would activate on the view.

StartRun ==
    /\ stage = "between"
    /\ stage' = "look" /\ round' = 1 /\ turn' = 0
    /\ view' = {} /\ produced' = FALSE /\ errors' = FALSE

\* The view a round begins with, and the one after a productive step.
LookAround(trace) ==
    /\ stage = "look"
    /\ view' = WholeView(trace)
    /\ stage' = "ask"
    /\ UNCHANGED <<round, turn, produced, errors>>

\* The keys of those who want to, of the workers not asked yet.
Willing(wanting) == {DependencyKey(w) : w \in {x \in wanting : DependencyKey(x) >= turn}}

\* The first of the workers still to be asked that wants to steps.
EnterStep(wanting) ==
    /\ stage = "ask"
    /\ Willing(wanting) # {}
    /\ turn' = Min(Willing(wanting))
    /\ stage' = "step"
    /\ UNCHANGED <<round, view, produced, errors>>

\* Mutant: the view is not taken again after a productive step.
LeaveStep_SameView(p) ==
    /\ stage' = "ask"
    /\ turn' = turn + 1
    /\ produced' = (produced \/ p)
    /\ UNCHANGED <<round, view, errors>>

\* step returns p.
LeaveStep(p) ==
    /\ stage' = IF p THEN "look" ELSE "ask"
    /\ turn' = turn + 1
    /\ produced' = (produced \/ p)
    /\ UNCHANGED <<round, view, errors>>

\* step raises: the error is kept, the others go on with the view they had.
StepFailed ==
    /\ stage' = "ask"
    /\ turn' = turn + 1
    /\ errors' = TRUE
    /\ UNCHANGED <<round, view, produced>>

\* Nobody is left to ask: another round, or quiescence, or max_rounds.
EndRound(wanting) ==
    /\ stage = "ask"
    /\ Willing(wanting) = {}
    /\ IF produced /\ round < MaxRounds
       THEN stage' = "look" /\ round' = round + 1 /\ turn' = 0 /\ produced' = FALSE
       ELSE stage' = "final" /\ UNCHANGED <<round, turn, produced>>
    /\ UNCHANGED <<view, errors>>

\* The view of the result.
FinishRun(trace) ==
    /\ stage = "final"
    /\ view' = WholeView(trace)
    /\ stage' = "between"
    /\ UNCHANGED <<round, turn, produced, errors>>
=============================================================================
