----------------------------- MODULE MCSession -----------------------------
(***************************************************************************)
(* Two browsers, of which one has two tabs.                                *)
(***************************************************************************)
EXTENDS Session, TLC

CONSTANTS t1, t2, t3, b1, b2

SharedHome == (t1 :> b1 @@ t2 :> b1 @@ t3 :> b2)

\* Slots are interchangeable, and so are the tabs of a browser.
Symmetric == Permutations(Slots) \cup Permutations({t1, t2})
=============================================================================
