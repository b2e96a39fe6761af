---------------------------- MODULE MCMessageLog ----------------------------
(***************************************************************************)
(* MessageLog with one kind of trouble at a time: the tab looks at another *)
(* channel, a handler has failed, or two fetches of the drawer are under   *)
(* way together.                                                           *)
(***************************************************************************)
EXTENDS MessageLog

Moved == spent.moves > 0
Failed == lost \ {"emptied", "ghost"} # {}
Crossing == Len(drawer) > 1

OneTrouble == ~ (Moved /\ Failed) /\ ~ (Moved /\ Crossing) /\ ~ (Failed /\ Crossing)
=============================================================================
