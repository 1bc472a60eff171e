----------------------------- MODULE MCSyncChan -----------------------------
(***************************************************************************)
(* Channel x has two receivers, one of them in a choice with channel y, and*)
(* a sender; the sender of y gives up after a time, and so does one branch *)
(* of the choice.                                                          *)
(***************************************************************************)
EXTENDS SyncChan, TLC

CONSTANTS x, y, gx, gy, hx, px, choice, reader, sender

MCChanOf == [o \in Offer |-> IF o \in {gx, hx, px} THEN x ELSE y]

MCOwner == gx :> choice @@ gy :> choice @@ hx :> reader @@ px :> sender
=============================================================================
