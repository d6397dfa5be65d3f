--------------------------- MODULE MCStreamControl ---------------------------
(* Kinds of track for the runs of StreamControl.                           *)
EXTENDS StreamControl

K(f, timed, fits) == [format |-> f, timed |-> timed, fits |-> fits]
Formats2 == {"flac", "mp3"}
\* Files longer than the ring: FLAC has a duration, MP3 has not.
LongKinds  == {K("flac", TRUE, FALSE), K("mp3", FALSE, FALSE)}
\* The same format throughout.
OneKind    == {K("flac", TRUE, FALSE)}

\* Three tracks the first of which is FLAC show every change from one format to
\* the other, or to the same.
FlacFirst == Init /\ kind[1].format = "flac"
FlacFirstSpec == FlacFirst /\ [][Next]_vars

\* Each format in turn: every chained track waits for the tail of the one before.
Alternate == Init /\ \A t \in Track : kind[t].timed <=> (t % 2 = 1)
\* Bound: the connection is lost after the last strm-s, handled or in hand.
DropsLast == mainPc = "run" /\ mainPc' = "hangup" => strm = MaxTrack
AlternateSpec == Alternate /\ [][Next /\ DropsLast]_vars /\ Fairness

\* Bound: what follows the first expired wait is left to the other runs.
UntilDetached == orphans = {}
=============================================================================
