------------------------------- MODULE MCExits -------------------------------
(* Small instances of the exit rules for TLC.                              *)
EXTENDS Replay

\* A trailing stop like that of mode TESTNET of pairs.example.yaml, in tenths of a per
\* cent, with a hard stop that the prices of the model reach and a threshold
\* below which a new peak is not stored.
Trailing == [stopLoss |-> 4, takeProfit |-> 0, trailing |-> TRUE, armAt |-> 3, trail |-> 3,
             ratchets |-> <<[at |-> 4, trail |-> 2], [at |-> 6, trail |-> 1]>>, breakEven |-> 4,
             threshold |-> 2, minHold |-> 0, thesisExit |-> FALSE, confirm |-> 1]

\* A fixed target, and the thesis guard after a minimum time.
Guarded == [Trailing EXCEPT !.takeProfit = 5, !.trailing = FALSE, !.minHold = 1,
                            !.thesisExit = TRUE, !.confirm = 3]

\* Both, with every peak stored and a thesis exit after two signals, or at once.
Eager == [Trailing EXCEPT !.threshold = 0, !.thesisExit = TRUE, !.confirm = 2]

\* Past the hard stop, a loss short of it, and profits on which the advice decides
\* whether the trailing stop arms, which ratchet is reached and what is held.
SomeMoves == {-4, -1, 1, 2, 5}

Profiles == {Trailing, Guarded, Eager}
=============================================================================
