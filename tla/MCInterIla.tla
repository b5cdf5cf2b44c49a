----------------------------- MODULE MCInterIla -----------------------------
(***************************************************************************)
(* Two steps of an ILA with the private states p and q: `store' writes the *)
(* state x it shares with another ILA, `load' reads it.                    *)
(***************************************************************************)
EXTENDS InterIla, TLC

CONSTANTS store, load, x, p, q

MCRead == store :> {p} @@ load :> {x}
MCWrite == store :> {x} @@ load :> {q}
\* Filters select all steps, or the load.
MCFilters == {{store, load} \X {"inst", "facet"}, {<<load, "inst">>}}
MCPrivateProps == {{p}, {q}}
MCFinalProps == {{x, q}}
=============================================================================
