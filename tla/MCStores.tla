------------------------------- MODULE MCStores -------------------------------
(***************************************************************************)
(* Two kernels in one process over one file, and another process that only *)
(* opens it.                                                               *)
(***************************************************************************)
EXTENDS StoreProperties

CONSTANTS k1, k2, p1, p2

\* One that stays, and one that does not though other episodes may see it.
MCContents ==
    {[slot |-> "percepts", kind |-> "load", trace |-> "t", scope |-> "episode", ttl |-> NoTtl],
     [slot |-> "percepts", kind |-> "load", trace |-> "t", scope |-> "persistent", ttl |-> 1]}

MCScripts == << <<"records", "indexes">> >>
MCKnows   == [p \in Processes |-> 1]
=============================================================================
