------------------------------ MODULE MCSession ------------------------------
(* A session with three challengers, one of each kind of format. *)
EXTENDS Session

CONSTANTS ann, bob, cid

MCFormat == [u \in Challengers |-> IF u = ann THEN "gen7ou"
                                   ELSE IF u = bob THEN "gen1ou"
                                   ELSE "gen1randombattle"]
=============================================================================
