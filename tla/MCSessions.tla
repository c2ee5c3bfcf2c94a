----------------------------- MODULE MCSessions -----------------------------
(* Small instances of Sessions.                                            *)
EXTENDS Sessions

CONSTANTS s1, s2, s3

ThreeSessions == {s1, s2, s3}
=============================================================================
