---------------------------- MODULE MCSessionAppend ----------------------------
(* Small instances of SessionAppend for TLC. *)
EXTENDS SessionAppend, TLC

CONSTANTS s1, s2, c1, c2, c3, c4

\* Three calls race in one session, two of them replaying one upstream record
\* that a call in another session replays too.
SessionOfFour == c1 :> s1 @@ c2 :> s1 @@ c3 :> s1 @@ c4 :> s2
RecordOfFour == c1 :> NoRecord @@ c2 :> "msg-1" @@ c3 :> "msg-1" @@ c4 :> "msg-1"

=============================================================================
