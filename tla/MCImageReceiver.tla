-------------------------- MODULE MCImageReceiver --------------------------
(* ImageReceiver with the scenarios of the configurations.  The receiver of *)
(* the repository expects 74 chunks; here it expects 4.                     *)
EXTENDS ImageReceiver

Frame(n, short) == [n |-> n, short |-> short]

\* Frames of one length below TotalChunks, their last chunk short; chunks get
\* lost and the receiver is restarted.
Lossy == [shapes |-> {Frame(3, TRUE)}, maxLost |-> 3, maxRestarts |-> 1]

\* Frames below, at and above the number the receiver expects.
Mixed == [shapes |-> {Frame(1, TRUE), Frame(3, TRUE), Frame(4, FALSE),
                      Frame(5, FALSE), Frame(6, TRUE)},
          maxLost |-> 0, maxRestarts |-> 0]

\* A 160 x 120 frame: 19200 bytes, 75 full chunks, one more than expected.
Full == [shapes |-> {Frame(5, FALSE)}, maxLost |-> 0, maxRestarts |-> 0]

LossyOrMixed == {Lossy, Mixed}
OnlyFull == {Full}
=============================================================================
