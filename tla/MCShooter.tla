------------------------------ MODULE MCShooter ------------------------------
(* Small instances of Shooter: who owns which session.                     *)
EXTENDS Shooter

CONSTANTS u1, u2, u3, s1, s2, s3, s4

TwoUsers == {u1, u2}
ThreeUsers == {u1, u2, u3}
TwoSessions == {s1, s2}
FourSessions == {s1, s2, s3, s4}

\* One session per user, but a second one, s4, for the first.
Owner == [s \in Sessions |->
            CASE s \in {s1, s4} -> u1 [] s = s2 -> u2 [] s = s3 -> u3]
=============================================================================
