----------------------------- MODULE MCSimpleO3 -----------------------------
EXTENDS SimpleO3Properties

TwoCores == 1 .. 2
OneCore == 1 .. 1

Inst(b, l, s) == [bubbles |-> b, load |-> l, store |-> s]

\* A load and a store of two pages and the first page again, or two loads, with
\* a bubble in front.  Random translation maps the pages of both cores to lines
\* in every way, in the identical way too, so that no more traces are needed.
ShortTraces ==
  { <<Inst(1, 0, 1), Inst(0, 0, None)>>, <<Inst(1, 0, None), Inst(0, 1, None)>> }
=============================================================================
