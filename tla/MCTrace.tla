------------------------------ MODULE MCTrace ------------------------------
EXTENDS TraceSimulation

Load(type, channel, addr) == [type |-> type, channel |-> channel, addr |-> addr]

\* Reads and writes that meet at an address, and PIM requests around a barrier,
\* in a first channel, and requests for a second one between them.
Lines ==
  { Load("Read", 1, 0), Load("Write", 1, 0), Load("PIM_MAC_AB", 1, 0), Load("PIM_WR_GB", 1, 0),
    Load("PIM_BARRIER", 1, 0), Load("Read", 2, 0), Load("PIM_MAC_AB", 2, 0) }

\* All traces of three lines, the empty one, and some that fill the buffers of
\* one channel again and again while there are lines for the other.
A == Load("PIM_MAC_AB", 1, 0)
B == Load("PIM_BARRIER", 1, 0)
R == Load("Read", 1, 0)
W == Load("Write", 1, 0)
S == Load("Read", 2, 0)

ShortTraces ==
  {<<>>} \cup [1 .. 3 -> Lines]
         \cup { <<A, B, S, A, S>>, <<W, R, R, R, S, R>>, <<A, A, B, W, A>> }
=============================================================================
