---------------------------- MODULE MCServingLoop ----------------------------
(***************************************************************************)
(* ServingLoop for TLC.                                                    *)
(***************************************************************************)
EXTENDS ServingLoop

CONSTANTS w1, w2

MCWorkers == {w1, w2}

Envelope(id, content) == [message_id |-> id, content |-> content]

(* Two contents of one id, and a second id. *)
MCEnvelopes == {Envelope("m1", "x"), Envelope("m1", "y"), Envelope("m2", "x")}
=============================================================================
