----------------------------- MODULE MCExecutor -----------------------------
(* Small instances of the executor for TLC.                                *)
EXTENDS ExecutorRefines

CONSTANTS k1, k2, k3, s1, s2, s3

Dec(k, a, s, q) == [key |-> k, action |-> a, symbol |-> s, qty |-> q]

\* Paper: more entries than the account of two takes, on both sides of one
\* symbol, and a source event that comes back as a partial close.
PaperDecisions ==
  {Dec(k1, "ENTER_LONG", s1, 2), Dec(k1, "CLOSE_LONG", s1, 1), Dec(k2, "ENTER_SHORT", s1, 1),
   Dec(k2, "ENTER_LONG", s2, 1), Dec(k3, "ENTER_SHORT", s3, 1)}

\* Live: the exchange nets per symbol, closes are reduce-only, s2 is not allowed.
LiveDecisions ==
  {Dec(k1, "ENTER_LONG", s1, 2), Dec(k2, "ENTER_SHORT", s1, 1), Dec(k2, "CLOSE_LONG", s1, 2),
   Dec(k1, "ENTER_LONG", s2, 1)}

\* Entries of different source events, all of them allowed.
KillDecisions == {Dec(k1, "ENTER_LONG", s1, 1), Dec(k2, "ENTER_LONG", s1, 1)}

\* One symbol, every kind of decision, a source event published more than once.
FewDecisions ==
  {Dec(k1, "ENTER_LONG", s1, 1), Dec(k2, "CLOSE_LONG", s1, 1), Dec(k1, "HOLD", s1, 1),
   Dec(k3, "OTHER", s1, 1)}
=============================================================================
