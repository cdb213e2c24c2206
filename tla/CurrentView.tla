------------------------------ MODULE CurrentView ------------------------------
(***************************************************************************)
(* current_view as a client gets it, over a board that kernels and clients *)
(* go on changing: the slots are listed one after another, each at its own *)
(* moment under the store's lock, the records of a slot are tested one     *)
(* after another, and no lock is held from one to the next.  "A snapshot   *)
(* of the blackboard" it need not be; the properties say what it is.       *)
(*                                                                         *)
(* SqliteStore hands out copies of the records.  MemoryStore hands out its *)
(* own, so that a test reads the status of that moment, which another      *)
(* thread's transaction may have set and may yet undo.                     *)
(***************************************************************************)
EXTENDS AuditTrail

CONSTANT ViewCalls  \* the arguments clients call current_view with

ASSUME ViewCallsAssumption ==
    ViewCalls # {} /\ ViewCalls \subseteq [trace : Traces, includePersistent : BOOLEAN]

VARIABLES
    live,       \* the store is a MemoryStore: the records it hands out are its own
    marked,     \* the proposal an open transaction has marked INVALIDATED, or NoId
    asked,      \* the arguments of the call
    listed,     \* how many slots have been listed
    untested,   \* the records of the last of them that have not been tested
    seen,       \* the records of the view
    began,      \* history: how many records there were when the call began
    touched     \* history: the proposals that were `marked` while the call ran

callVars == <<asked, listed, untested, seen, began>>
viewVars == <<live, marked, callVars, touched>>

\* Mutant: the evidence is listed before the beliefs.
SlotsInOrder_EvidenceFirst ==
    <<"percepts", "evidence", "beliefs", "constraints", "plans", "predictions", "actions">>

\* The slots, as the loop goes through them.
SlotsInOrder ==
    <<"percepts", "beliefs", "constraints", "plans", "evidence", "predictions", "actions">>

Taken == listed = Len(SlotsInOrder) /\ untested = {}

ViewInit ==
    /\ Init
    /\ live \in BOOLEAN /\ marked = NoId
    /\ asked \in ViewCalls
    /\ listed = 0 /\ untested = {} /\ seen = {}
    /\ began = 0 /\ touched = {}

\* A call begins; nothing of the one before is left.
TakeView(arguments) ==
    /\ Taken
    /\ asked' = arguments
    /\ listed' = 0 /\ seen' = {}
    /\ began' = Len(trail) /\ touched' = {marked} \ {NoId}
    /\ UNCHANGED <<trail, live, marked, untested>>

\* The next list_slot.  MemoryStore holds its lock while a transaction is open.  Of
\* copies only those that were ACTIVE when they were made will pass the test.
ListNext ==
    /\ listed < Len(SlotsInOrder) /\ untested = {}
    /\ live => marked = NoId
    /\ listed' = listed + 1
    /\ untested' = {i \in DOMAIN trail : /\ trail[i].slot = SlotsInOrder[listed']
                                         /\ live \/ Active(trail, i)}
    /\ UNCHANGED <<trail, live, marked, asked, seen, began, touched>>

\* Mutants: the status is not tested; both stores hand out their own records.
Passes_AnyStatus(i) == Visible(trail[i], asked.trace, asked.includePersistent)
Passes_Shared(i) ==
    /\ Visible(trail[i], asked.trace, asked.includePersistent)
    /\ Active(trail, i) /\ i # marked

\* Whether a listed record goes into the view.
Passes(i) ==
    /\ Visible(trail[i], asked.trace, asked.includePersistent)
    /\ live => Active(trail, i) /\ i # marked

\* The next turn of the loop over what list_slot returned; it takes no lock.
TestNext ==
    \E i \in untested :
        /\ \A j \in untested : i <= j
        /\ untested' = untested \ {i}
        /\ seen' = seen \cup {j \in {i} : Passes(j)}
        /\ UNCHANGED <<trail, live, marked, asked, listed, began, touched>>

\* A commit in another thread marks its proposal; then it lands, or it fails and the
\* mark is undone.  Nobody else gets the store's lock in between.
Mark(p) ==
    /\ marked = NoId
    /\ Open(p) /\ trail[p].slot \in Committable
    /\ marked' = p
    /\ touched' = IF Taken THEN touched ELSE touched \cup {p}
    /\ UNCHANGED <<trail, live, callVars>>

LandMarked ==
    /\ marked # NoId
    /\ Land(marked)
    /\ marked' = NoId
    /\ UNCHANGED <<live, callVars, touched>>

Undo ==
    /\ marked # NoId
    /\ marked' = NoId
    /\ UNCHANGED <<trail, live, callVars, touched>>

\* The rest of the system, whenever no transaction is open.
Elsewhere ==
    /\ marked = NoId
    /\ \/ \E d \in Drafts : Publish(d)
       \/ \E i \in DOMAIN trail : Lapse(i) \/ Refuse(i)
    /\ UNCHANGED viewVars

ViewNext ==
    \/ \E arguments \in ViewCalls : TakeView(arguments)
    \/ ListNext
    \/ TestNext
    \/ \E p \in DOMAIN trail : Mark(p)
    \/ LandMarked
    \/ Undo
    \/ Elsewhere

ViewSpec == ViewInit /\ [][ViewNext]_<<trail, viewVars>>

-----------------------------------------------------------------------------
\* A view that shows a committed belief shows what vouches for it, although the
\* belief may have been replaced and its evidence joined by others meanwhile
\* (evidence is listed after beliefs in current_view, and never withdrawn).
BeliefsShownWithEvidence ==
    Taken => \A kind \in Kinds :
        LET b == Held(trail, seen, "beliefs", kind)
        IN  b # NoId => /\ trail[b].evid \in seen
                        /\ Held(trail, seen, "evidence", ValidationOf(kind)) >= trail[b].evid

\* A view never shows a proposal beside the commit that settled it, not even one
\* that lands between two slots (the status test of current_view, and that a slot
\* is listed at one moment, with no transaction open).
ProposalsShownAreOpen ==
    \A p \in seen : trail[p].mode = "PROPOSE" => CommitsOf(p) \cap seen = {}

\* What has stood since the call began is in the view, of this episode and, if it
\* was asked for, persistent of any other (the loops of current_view).  Over a
\* MemoryStore there is one exception: a proposal whose commit another thread had in
\* hand while the call ran, although that commit failed and the proposal stood all
\* along (the status of a live record is read without the lock under which a
\* transaction marks and unmarks it).  Nothing committed is ever missed.
NothingStandingMissed ==
    Taken => \A i \in 1..began :
        /\ trail[i].status = "ACTIVE"
        /\ \/ trail[i].trace = asked.trace
           \/ asked.includePersistent /\ trail[i].scope = "persistent"
        => \/ i \in seen
           \/ live /\ trail[i].mode = "PROPOSE" /\ i \in touched
=============================================================================
