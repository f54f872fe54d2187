---------------------------- MODULE BankProtocol ----------------------------
(***************************************************************************)
(* The row cycle of DRAM banks as the timing table of a standard means it, *)
(* bank by bank and whatever command caused the change: a closed bank may  *)
(* open one row, nRP or more cycles after it closed; an open bank may      *)
(* close nRAS or more cycles after it opened; nothing else happens to it.  *)
(* Where it takes two commands to activate a bank, the second may name     *)
(* another row than the first, and both are then open.                     *)
(***************************************************************************)
EXTENDS Integers

CONSTANTS Banks, Rows, nRP, nRAS,
          Idle    \* ages stop here

VARIABLES open,   \* the open rows of each bank
          half,   \* the banks that wait for the second command of two
          age     \* the cycles since the bank last opened or closed

vars == <<open, half, age>>

Init == /\ open = [b \in Banks |-> {}]
        /\ half = {}
        /\ age = [b \in Banks |-> Idle]

\* The age of bank b one cycle later.
Older(b) == IF age[b] + 1 < Idle THEN age[b] + 1 ELSE Idle

Rest(b) == /\ open'[b] = open[b]
           /\ b \in half' <=> b \in half
           /\ age'[b] = Older(b)

Activate(b) == /\ open[b] = {} /\ Older(b) >= nRP
               /\ \E row \in Rows : open'[b] = {row}
               /\ age'[b] = 0

\* The second of the two commands: the bank is as old as the first made it.
Complete(b) == /\ b \in half
               /\ \E row \in Rows : open'[b] = open[b] \cup {row}
               /\ b \notin half'
               /\ age'[b] = Older(b)

Precharge(b) == /\ open[b] # {} /\ Older(b) >= nRAS
                /\ open'[b] = {}
                /\ b \notin half'
                /\ age'[b] = 0

\* One cycle of the device.
Next == \A b \in Banks : Rest(b) \/ Activate(b) \/ Complete(b) \/ Precharge(b)

Spec == Init /\ [][Next]_vars
=============================================================================
