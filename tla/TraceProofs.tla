---------------------------- MODULE TraceProofs ----------------------------
(***************************************************************************)
(* For every trace, number of channels, buffer size and clock ratio: lines *)
(* are sent in order, barriers hold, the program ends when all is done,    *)
(* and the clocks keep their ratio.                                        *)
(***************************************************************************)
EXTENDS TraceSimulation, FiniteSetTheorems, TLAPS

----------------------------------------------------------------------------
(* How many of a set of positions come up to one of them.                  *)

Upto(S, n) == Cardinality(S \cap (1 .. n))

LEMMA UptoFinite ==
  ASSUME NEW S, NEW n \in Nat
  PROVE  IsFiniteSet(S \cap (1 .. n)) /\ Upto(S, n) \in Nat
<1>1. IsFiniteSet(1 .. n) BY FS_Interval
<1>2. IsFiniteSet(S \cap (1 .. n)) BY <1>1, FS_Subset
<1> QED BY <1>2, FS_CardinalityType DEF Upto

LEMMA UptoZero == ASSUME NEW S PROVE Upto(S, 0) = 0
BY FS_EmptySet DEF Upto

\* One position more.
LEMMA UptoNext ==
  ASSUME NEW S, NEW n \in Nat
  PROVE  Upto(S, n + 1) = IF n + 1 \in S THEN Upto(S, n) + 1 ELSE Upto(S, n)
<1>1. CASE n + 1 \in S
  <2>1. S \cap (1 .. n + 1) = (S \cap (1 .. n)) \cup {n + 1} BY <1>1
  <2>2. n + 1 \notin S \cap (1 .. n) OBVIOUS
  <2>3. IsFiniteSet(S \cap (1 .. n)) BY UptoFinite
  <2> QED BY <1>1, <2>1, <2>2, <2>3, FS_AddElement DEF Upto
<1>2. CASE n + 1 \notin S
  <2>1. S \cap (1 .. n + 1) = S \cap (1 .. n) BY <1>2
  <2> QED BY <1>2, <2>1 DEF Upto
<1> QED BY <1>1, <1>2

\* Positions of the set are numbered in their order.
LEMMA UptoIncreases ==
  ASSUME NEW S, NEW x \in Nat, NEW y \in Nat, x < y, y \in S
  PROVE  Upto(S, x) < Upto(S, y)
<1> DEFINE X == S \cap (1 .. x)
           Y == S \cap (1 .. y)
<1>1. IsFiniteSet(Y) /\ X \in SUBSET Y BY UptoFinite
<1>2. y \in Y /\ y \notin X OBVIOUS
<1>3. Cardinality(X) <= Cardinality(Y) /\ Cardinality(X) # Cardinality(Y)
  BY <1>1, <1>2, FS_Subset
<1>4. Upto(S, x) \in Nat /\ Upto(S, y) \in Nat BY UptoFinite
<1> QED BY <1>3, <1>4 DEF Upto

LEMMA UptoDistinct ==
  ASSUME NEW S, NEW x \in Nat, NEW y \in Nat, x \in S, y \in S, Upto(S, x) = Upto(S, y)
  PROVE  x = y
<1>1. Upto(S, x) \in Nat /\ Upto(S, y) \in Nat BY UptoFinite
<1>2. ~(x < y) BY <1>1, UptoIncreases
<1>3. ~(y < x) BY <1>1, UptoIncreases
<1> QED BY <1>2, <1>3

----------------------------------------------------------------------------
(* The inductive invariant.                                                *)

ToChannel(t, c) == { i \in DOMAIN t : t[i].channel = c }
OfType(t, type) == { i \in DOMAIN t : t[i].type = type }

Kinds == {"mem", "pim", "barrier"}
Waiting == [id : Nat, kind : Kinds, line : Nat, queued : BOOLEAN]

TypeOK ==
  /\ trace \in Traces
  /\ count \in 0 .. Len(trace)
  /\ sent \in [Channels -> Nat]
  /\ waiting \in [Channels -> SUBSET Waiting]
  /\ done \in [Channels -> SUBSET Nat]
  /\ stats \in [Types \ {"PIM_BARRIER"} -> Nat]

\* A request has the number of its line among those of its channel.
Stands(t, n, c, r) ==
  /\ r.line \in 1 .. n /\ r.line \in ToChannel(t, c)
  /\ r.id = Upto(ToChannel(t, c), r.line)
  /\ r.kind = Kind(t[r.line].type)

Numbered ==
  \A c \in Channels : /\ sent[c] = Upto(ToChannel(trace, c), count)
                      /\ \A r \in waiting[c] : Stands(trace, count, c, r)

Ids(some) == { r.id : r \in some }

\* What was sent is either waiting, once, or done.
Placed ==
  \A c \in Channels :
    /\ done[c] \cup Ids(waiting[c]) = 1 .. sent[c]
    /\ done[c] \cap Ids(waiting[c]) = {}
    /\ \A r1, r2 \in waiting[c] : r1.id = r2.id => r1 = r2

\* Of two lines of a channel that must not cross.
Bound(t, x, y) ==
  LET k1 == Kind(t[x].type)
      k2 == Kind(t[y].type)
  IN  x < y /\ k1 # "mem" /\ k2 # "mem" /\ "barrier" \in {k1, k2}

InOrder(t, n, c, over) ==
  \A x, y \in ToChannel(t, c) \cap (1 .. n) :
    Bound(t, x, y) /\ Upto(ToChannel(t, c), y) \in over => Upto(ToChannel(t, c), x) \in over

Ordered == \A c \in Channels : InOrder(trace, count, c, done[c])

Summed == \A type \in Types \ {"PIM_BARRIER"} : stats[type] = Upto(OfType(trace, type), count)

Ended ==
  turn = "ended" => is_finished(count) /\ refreshing = {} /\ \A c \in Channels : waiting[c] = {}

IInv == TypeOK /\ Numbered /\ Placed /\ Ordered /\ Summed /\ Ended

----------------------------------------------------------------------------
LEMMA Lines ==
  ASSUME NEW t \in Traces
  PROVE  /\ Len(t) \in Nat /\ DOMAIN t = 1 .. Len(t)
         /\ \A i \in DOMAIN t : t[i].type \in Types /\ t[i].channel \in Channels
<1> DEFINE A == [type : Types, channel : Channels, addr : Nat]
<1>1. t \in Seq(A) BY TraceSimulationAssumption
<1> HIDE DEF A
<1>2. Len(t) \in Nat /\ DOMAIN t = 1 .. Len(t) /\ \A i \in DOMAIN t : t[i] \in A BY <1>1
<1> USE DEF A
<1> QED BY <1>2

LEMMA KindType == \A type : Kind(type) \in Kinds
BY DEF Kind, Kinds

LEMMA InitIInv == Init => IInv
<1> SUFFICES ASSUME Init PROVE IInv OBVIOUS
<1> USE DEF Init
<1>1. TypeOK
  <2>1. Len(trace) \in Nat BY Lines
  <2> QED BY <2>1 DEF TypeOK
<1>2. Numbered BY UptoZero DEF Numbered
<1>3. Placed BY DEF Placed, Ids
<1>4. Ordered BY DEF Ordered, InOrder
<1>5. Summed BY UptoZero DEF Summed
<1>6. Ended BY DEF Ended
<1> QED BY <1>1, <1>2, <1>3, <1>4, <1>5, <1>6 DEF IInv
----------------------------------------------------------------------------
(* A line is sent.                                                         *)

LEMMA SendIInv == ASSUME IInv, SendLine, trace' = trace, done' = done, turn' = turn, turn = "front"
                  PROVE  IInv'
<1> DEFINE c == Line.channel
           S(d) == ToChannel(trace, d)
           new == [id |-> sent[c] + 1, kind |-> Kind(Line.type),
                   line |-> count + 1, queued |-> ~Forwards(Line)]
<1>1. TypeOK BY DEF IInv
<1>2. /\ Len(trace) \in Nat /\ count \in Nat /\ count < Len(trace)
      /\ DOMAIN trace = 1 .. Len(trace)
  BY <1>1, Lines DEF TypeOK, SendLine, Sends, is_finished
<1>3. /\ count + 1 \in DOMAIN trace /\ Line = trace[count + 1]
      /\ c \in Channels /\ Line.type \in Types
  BY <1>1, <1>2, Lines DEF TypeOK, Line
<1>4. /\ count' = count + 1
      /\ sent' = [sent EXCEPT ![c] = @ + 1]
      /\ waiting' = [waiting EXCEPT ![c] = @ \cup {new}]
      /\ stats' = Counted(stats, Line.type)
  BY DEF SendLine
<1> HIDE DEF c, new
<1>5. new = [id |-> sent[c] + 1, kind |-> Kind(Line.type),
             line |-> count + 1, queued |-> ~Forwards(Line)]
  BY DEF new, c
<1>6. new \in Waiting
  <2>1. sent[c] \in Nat BY <1>1, <1>3 DEF TypeOK
  <2>2. Kind(Line.type) \in Kinds BY KindType
  <2>3. (~Forwards(Line)) \in BOOLEAN BY DEF Forwards
  <2> QED BY <1>2, <1>5, <2>1, <2>2, <2>3 DEF Waiting
<1>7. \A d \in Channels : count + 1 \in S(d) <=> d = c
  BY <1>3 DEF ToChannel, c
<1>8. \A d \in Channels : Upto(S(d), count + 1) = IF d = c THEN Upto(S(d), count) + 1
                                                     ELSE Upto(S(d), count)
  BY <1>2, <1>7, UptoNext
<1>9. \A d \in Channels : sent[d] = Upto(S(d), count) /\ sent[d] \in Nat
  BY <1>1 DEF IInv, Numbered, TypeOK
<1>10. \A d \in Channels : /\ sent'[d] = IF d = c THEN sent[d] + 1 ELSE sent[d]
                           /\ waiting'[d] = IF d = c THEN waiting[d] \cup {new} ELSE waiting[d]
  BY <1>1, <1>4 DEF TypeOK
<1>11. TypeOK'
  <2>1. stats' \in [Types \ {"PIM_BARRIER"} -> Nat]
    BY <1>1, <1>3, <1>4 DEF TypeOK, Counted
  <2>2. sent' \in [Channels -> Nat] BY <1>1, <1>3, <1>4 DEF TypeOK
  <2>3. waiting' \in [Channels -> SUBSET Waiting] BY <1>1, <1>3, <1>4, <1>6 DEF TypeOK
  <2> QED BY <1>1, <1>2, <1>4, <2>1, <2>2, <2>3 DEF TypeOK
<1>12. Numbered'
  <2> SUFFICES ASSUME NEW d \in Channels
               PROVE  /\ sent'[d] = Upto(S(d), count + 1)
                      /\ \A r \in waiting'[d] : Stands(trace, count + 1, d, r)
    BY <1>4 DEF Numbered
  <2>1. sent'[d] = Upto(S(d), count + 1) BY <1>8, <1>9, <1>10
  <2>2. \A r \in waiting[d] : Stands(trace, count + 1, d, r)
    BY <1>2 DEF IInv, Numbered, Stands
  <2>3. d = c => Stands(trace, count + 1, d, new)
    BY <1>2, <1>3, <1>5, <1>7, <1>8, <1>9 DEF Stands
  <2> QED BY <1>10, <2>1, <2>2, <2>3
<1>13. Placed'
  <2> SUFFICES ASSUME NEW d \in Channels
               PROVE  /\ done[d] \cup Ids(waiting'[d]) = 1 .. sent'[d]
                      /\ done[d] \cap Ids(waiting'[d]) = {}
                      /\ \A r1, r2 \in waiting'[d] : r1.id = r2.id => r1 = r2
    BY DEF Placed
  <2>1. /\ done[d] \cup Ids(waiting[d]) = 1 .. sent[d]
        /\ done[d] \cap Ids(waiting[d]) = {}
        /\ \A r1, r2 \in waiting[d] : r1.id = r2.id => r1 = r2
    BY DEF IInv, Placed
  <2>2. CASE d # c BY <1>10, <2>1, <2>2
  <2>3. CASE d = c
    <3> DEFINE n == sent[d]
               W == waiting[d]
    <3>1. n \in Nat /\ sent'[d] = n + 1 /\ waiting'[d] = W \cup {new} /\ new.id = n + 1
      BY <1>5, <1>9, <1>10, <2>3
    <3>2. done[d] \cup Ids(W) = 1 .. n /\ done[d] \cap Ids(W) = {}
      BY <2>1
    <3>3. \A r1, r2 \in W : r1.id = r2.id => r1 = r2 BY <2>1
    <3> HIDE DEF n, W
    <3>4. Ids(W \cup {new}) = Ids(W) \cup {n + 1} BY <3>1 DEF Ids
    <3>5. 1 .. n + 1 = (1 .. n) \cup {n + 1} /\ n + 1 \notin 1 .. n BY <3>1
    <3>6. \A r \in W : r.id # n + 1 BY <3>2, <3>5 DEF Ids
    <3>7. \A r1, r2 \in W \cup {new} : r1.id = r2.id => r1 = r2 BY <3>1, <3>3, <3>6
    <3>8. /\ done[d] \cup (Ids(W) \cup {n + 1}) = 1 .. n + 1
          /\ done[d] \cap (Ids(W) \cup {n + 1}) = {}
      <4> DEFINE J == 1 .. n
                 i == n + 1
      <4>1. /\ 1 .. n + 1 = J \cup {i} /\ i \notin J
            /\ done[d] \cup Ids(W) = J /\ done[d] \cap Ids(W) = {}
        BY <3>2, <3>5
      <4> SUFFICES /\ done[d] \cup (Ids(W) \cup {i}) = J \cup {i}
                   /\ done[d] \cap (Ids(W) \cup {i}) = {}
        BY <4>1
      <4> HIDE DEF J, i
      <4> QED BY <4>1
    <3>9. Ids(waiting'[d]) = Ids(W) \cup {n + 1} BY <3>1, <3>4
    <3>10. sent'[d] = n + 1 /\ waiting'[d] = W \cup {new} BY <3>1
    <3> HIDE DEF new
    <3> QED BY <3>7, <3>8, <3>9, <3>10
  <2> QED BY <2>2, <2>3
<1>14. Ordered'
  <2> SUFFICES ASSUME NEW d \in Channels,
                      NEW x \in S(d) \cap (1 .. count + 1), NEW y \in S(d) \cap (1 .. count + 1),
                      Bound(trace, x, y), Upto(S(d), y) \in done[d]
               PROVE  Upto(S(d), x) \in done[d]
    BY <1>4 DEF Ordered, InOrder
  <2>1. done[d] \subseteq 1 .. sent[d] BY DEF IInv, Placed
  <2>2. y # count + 1
    <3>1. SUFFICES ASSUME y = count + 1 PROVE FALSE OBVIOUS
    <3>2. d = c BY <1>7, <3>1
    <3> QED BY <1>8, <1>9, <2>1, <3>1, <3>2
  <2>3. x \in 1 .. count /\ y \in 1 .. count BY <1>2, <2>2 DEF Bound
  <2> QED BY <2>3 DEF IInv, Ordered, InOrder
<1>15. Summed'
  <2> SUFFICES ASSUME NEW type \in Types \ {"PIM_BARRIER"}
               PROVE  stats'[type] = Upto(OfType(trace, type), count + 1)
    BY <1>4 DEF Summed
  <2>1. stats[type] = Upto(OfType(trace, type), count) BY DEF IInv, Summed
  <2>2. count + 1 \in OfType(trace, type) <=> Line.type = type BY <1>3 DEF OfType
  <2>3. stats'[type] = IF Line.type = type THEN stats[type] + 1 ELSE stats[type]
    BY <1>1, <1>4 DEF Counted, TypeOK
  <2> QED BY <1>2, <2>1, <2>2, <2>3, UptoNext
<1>16. Ended' BY DEF Ended
<1> QED BY <1>11, <1>12, <1>13, <1>14, <1>15, <1>16 DEF IInv
----------------------------------------------------------------------------
(* A controller ticks.                                                     *)

LEMMA Freeing ==
  ASSUME NEW r \in Waiting
  PROVE  LET freed == [r EXCEPT !.queued = FALSE]
         IN  /\ freed \in Waiting
             /\ freed.id = r.id /\ freed.kind = r.kind /\ freed.line = r.line
BY DEF Waiting

LEMMA TickIInv == ASSUME IInv, NEW c \in Channels, Tick(c) PROVE IInv'
<1> DEFINE S(d) == ToChannel(trace, d)
<1>1. TypeOK /\ UNCHANGED <<trace, count, sent, stats>> /\ turn = "memory"
  BY DEF IInv, Tick
<1>2. PICK over \in SUBSET waiting[c] :
        \E moved \in SUBSET { r \in waiting[c] \ over : r.queued /\ r.kind = "mem" } :
          /\ \A r1 \in over, r2 \in waiting[c] \ over : ~Controller(c)!Crosses(r1, r2)
          /\ waiting' = [waiting EXCEPT ![c] = (@ \ (over \cup moved))
                                                \cup { [r EXCEPT !.queued = FALSE] : r \in moved }]
          /\ done' = [done EXCEPT ![c] = @ \cup { r.id : r \in over }]
  BY DEF Tick
<1>3. PICK moved \in SUBSET { r \in waiting[c] \ over : r.queued /\ r.kind = "mem" } :
          /\ \A r1 \in over, r2 \in waiting[c] \ over : ~Controller(c)!Crosses(r1, r2)
          /\ waiting' = [waiting EXCEPT ![c] = (@ \ (over \cup moved))
                                                \cup { [r EXCEPT !.queued = FALSE] : r \in moved }]
          /\ done' = [done EXCEPT ![c] = @ \cup { r.id : r \in over }]
  BY <1>2
<1> DEFINE W == waiting[c]
           Freed == { [r EXCEPT !.queued = FALSE] : r \in moved }
           New == (W \ (over \cup moved)) \cup Freed
<1>4. W \subseteq Waiting /\ over \subseteq W /\ moved \subseteq W \ over
  BY <1>1, <1>3 DEF TypeOK
<1>5. /\ waiting' = [waiting EXCEPT ![c] = New]
      /\ done' = [done EXCEPT ![c] = @ \cup Ids(over)]
  BY <1>3 DEF Ids
<1>6. \A r1 \in over, r2 \in W \ over : ~Controller(c)!Crosses(r1, r2)
  BY <1>3
\* Whoever waits afterwards did so before, under the same number.
<1>7. \A r \in New : \E old \in W \ over :
        /\ r.id = old.id /\ r.kind = old.kind /\ r.line = old.line
        /\ r = IF old \in moved THEN [old EXCEPT !.queued = FALSE] ELSE old
  <2> SUFFICES ASSUME NEW r \in New
               PROVE  \E old \in W \ over :
                        /\ r.id = old.id /\ r.kind = old.kind /\ r.line = old.line
                        /\ r = IF old \in moved THEN [old EXCEPT !.queued = FALSE] ELSE old
    OBVIOUS
  <2>1. CASE r \in W \ (over \cup moved) BY <2>1
  <2>2. CASE r \in Freed
    <3>1. PICK old \in moved : r = [old EXCEPT !.queued = FALSE] BY <2>2
    <3>2. old \in W \ over /\ old \in Waiting BY <1>4
    <3>3. r.id = old.id /\ r.kind = old.kind /\ r.line = old.line
      BY <3>1, <3>2, Freeing
    <3> WITNESS old \in W \ over
    <3> QED BY <3>1, <3>3
  <2> QED BY <2>1, <2>2
<1>8. Ids(New) = Ids(W \ over)
  <2>1. \A old \in W \ over : \E r \in New : r.id = old.id
    <3> SUFFICES ASSUME NEW old \in W \ over PROVE \E r \in New : r.id = old.id OBVIOUS
    <3>1. CASE old \in moved
      <4>1. [old EXCEPT !.queued = FALSE] \in New BY <3>1
      <4>2. [old EXCEPT !.queued = FALSE].id = old.id
        <5>1. old \in Waiting BY <1>4
        <5> QED BY <5>1, Freeing
      <4> QED BY <4>1, <4>2
    <3>2. CASE old \notin moved BY <3>2
    <3> QED BY <3>1, <3>2
  <2> HIDE DEF New, W
  <2> QED BY <1>7, <2>1 DEF Ids
<1>9. New \in SUBSET Waiting
  <2>1. Freed \subseteq Waiting
    <3> SUFFICES ASSUME NEW old \in moved PROVE [old EXCEPT !.queued = FALSE] \in Waiting
      OBVIOUS
    <3>1. old \in Waiting BY <1>4
    <3> QED BY <3>1, Freeing
  <2> QED BY <1>4, <2>1
<1> HIDE DEF New
<1>10. /\ \A d \in Channels \ {c} : waiting'[d] = waiting[d] /\ done'[d] = done[d]
       /\ waiting'[c] = New /\ done'[c] = done[c] \cup Ids(over)
  BY <1>1, <1>5 DEF TypeOK
<1>11. TypeOK'
  <2>1. Ids(over) \subseteq Nat BY <1>4 DEF Ids, Waiting
  <2>2. waiting' \in [Channels -> SUBSET Waiting] BY <1>1, <1>5, <1>9 DEF TypeOK
  <2>3. done' \in [Channels -> SUBSET Nat] BY <1>1, <1>5, <2>1 DEF TypeOK
  <2> QED BY <1>1, <2>2, <2>3 DEF TypeOK
<1>12. Numbered'
  <2> SUFFICES ASSUME NEW d \in Channels, NEW r \in waiting'[d]
               PROVE  Stands(trace, count, d, r)
    BY <1>1 DEF IInv, Numbered
  <2>1. CASE d # c BY <1>10, <2>1 DEF IInv, Numbered
  <2>2. CASE d = c
    <3>1. PICK old \in W : r.id = old.id /\ r.kind = old.kind /\ r.line = old.line
      BY <1>7, <1>10, <2>2
    <3>2. Stands(trace, count, c, old) BY <3>1 DEF IInv, Numbered
    <3> QED BY <2>2, <3>1, <3>2 DEF Stands
  <2> QED BY <2>1, <2>2
<1>13. \A r1, r2 \in W : r1.id = r2.id => r1 = r2 BY DEF IInv, Placed
<1>14. Placed'
  <2> SUFFICES ASSUME NEW d \in Channels
               PROVE  /\ done'[d] \cup Ids(waiting'[d]) = 1 .. sent[d]
                      /\ done'[d] \cap Ids(waiting'[d]) = {}
                      /\ \A r1, r2 \in waiting'[d] : r1.id = r2.id => r1 = r2
    BY <1>1 DEF Placed
  <2>1. /\ done[d] \cup Ids(waiting[d]) = 1 .. sent[d]
        /\ done[d] \cap Ids(waiting[d]) = {}
        /\ \A r1, r2 \in waiting[d] : r1.id = r2.id => r1 = r2
    BY DEF IInv, Placed
  <2>2. CASE d # c BY <1>10, <2>1, <2>2
  <2>3. CASE d = c
    <3>1. Ids(W) = Ids(over) \cup Ids(W \ over) /\ Ids(over) \cap Ids(W \ over) = {}
      BY <1>4, <1>13 DEF Ids
    <3>2. \A r1, r2 \in New : r1.id = r2.id => r1 = r2
      <4> SUFFICES ASSUME NEW r1 \in New, NEW r2 \in New, r1.id = r2.id PROVE r1 = r2
        OBVIOUS
      <4>1. PICK o1 \in W : /\ r1.id = o1.id
                            /\ r1 = IF o1 \in moved THEN [o1 EXCEPT !.queued = FALSE] ELSE o1
        BY <1>7
      <4>2. PICK o2 \in W : /\ r2.id = o2.id
                            /\ r2 = IF o2 \in moved THEN [o2 EXCEPT !.queued = FALSE] ELSE o2
        BY <1>7
      <4>3. o1 = o2 BY <1>13, <4>1, <4>2
      <4> QED BY <4>1, <4>2, <4>3
    <3> HIDE DEF W
    <3> QED BY <1>8, <1>10, <2>1, <2>3, <3>1, <3>2 DEF W
  <2> QED BY <2>2, <2>3
<1>15. Ordered'
  <2> SUFFICES ASSUME NEW d \in Channels,
                      NEW x \in S(d) \cap (1 .. count), NEW y \in S(d) \cap (1 .. count),
                      Bound(trace, x, y), Upto(S(d), y) \in done'[d]
               PROVE  Upto(S(d), x) \in done'[d]
    BY <1>1 DEF Ordered, InOrder
  <2>1. Upto(S(d), y) \in done[d] => Upto(S(d), x) \in done[d]
    BY DEF IInv, Ordered, InOrder
  <2>2. CASE d # c BY <1>10, <2>1, <2>2
  <2>3. CASE d = c /\ Upto(S(d), y) \in done[d] BY <1>10, <2>1, <2>3
  <2>4. CASE d = c /\ Upto(S(d), y) \in Ids(over)
    <3> SUFFICES ASSUME Upto(S(c), x) \notin done[c] \cup Ids(over) PROVE FALSE
      BY <1>10, <2>4
    <3>1. /\ count \in Nat /\ x \in Nat /\ y \in Nat /\ x <= count /\ x < y
          /\ Upto(S(c), x) < Upto(S(c), y) /\ Upto(S(c), x) \in Nat /\ Upto(S(c), x) >= 1
          /\ Upto(S(c), y) \in Nat
      <4>1. /\ count \in Nat /\ x \in Nat /\ y \in Nat /\ x <= count /\ x < y /\ 0 < x
        <5>1. Len(trace) \in Nat /\ count \in Nat BY <1>1, Lines DEF TypeOK
        <5> QED BY <5>1 DEF Bound
      <4>2. x \in S(c) /\ y \in S(c) BY <2>4
      <4>3. Upto(S(c), 0) < Upto(S(c), x) BY <4>1, <4>2, UptoIncreases
      <4> HIDE DEF S
      <4>4. Upto(S(c), x) \in Nat /\ Upto(S(c), y) \in Nat BY <4>1, UptoFinite
      <4>5. Upto(S(c), x) < Upto(S(c), y) BY <4>1, <4>2, UptoIncreases
      <4> QED BY <4>1, <4>3, <4>4, <4>5, UptoZero
    <3>2. PICK r1 \in over : r1.id = Upto(S(c), y) BY <2>4 DEF Ids
    <3>3. Upto(S(c), x) \in 1 .. sent[c]
      <4>1. done[c] \cup Ids(W) = 1 .. sent[c] BY DEF IInv, Placed
      <4>2. r1.id \in 1 .. sent[c] BY <1>4, <4>1 DEF Ids
      <4>3. sent[c] \in Nat BY <1>1 DEF TypeOK
      <4> QED BY <3>1, <3>2, <4>2, <4>3
    <3>4. PICK r2 \in W \ over : r2.id = Upto(S(c), x)
      <4>1. Upto(S(c), x) \in Ids(W) BY <3>3 DEF IInv, Placed
      <4> QED BY <4>1 DEF Ids
    <3>5. /\ Stands(trace, count, c, r1) /\ Stands(trace, count, c, r2)
      BY <1>4, <3>2, <3>4 DEF IInv, Numbered
    <3>6. r1.line \in Nat /\ r2.line \in Nat BY <1>4, <3>2, <3>4 DEF Waiting
    <3>7. r1.line = y /\ r2.line = x
      <4>1. x \in S(c) /\ y \in S(c) BY <2>4
      <4>2. /\ r1.line \in S(c) /\ r1.id = Upto(S(c), r1.line)
            /\ r2.line \in S(c) /\ r2.id = Upto(S(c), r2.line) BY <3>5 DEF Stands
      <4> HIDE DEF S
      <4>3. r1.line = y BY <3>1, <3>2, <3>6, <4>1, <4>2, UptoDistinct
      <4>4. r2.line = x BY <3>1, <3>4, <3>6, <4>1, <4>2, UptoDistinct
      <4> QED BY <4>3, <4>4
    <3>8. r1.kind = Kind(trace[y].type) /\ r2.kind = Kind(trace[x].type)
      BY <3>5, <3>7 DEF Stands
    <3>9. Controller(c)!Crosses(r1, r2)
      BY <3>1, <3>2, <3>4, <3>8 DEF Bound, Controller!Crosses
    <3> QED BY <1>6, <3>9
  <2> QED BY <1>10, <2>2, <2>3, <2>4
<1>16. Summed' BY <1>1 DEF IInv, Summed
<1>17. Ended'
  <2>1. turn' # "ended" BY <1>1 DEF Tick
  <2> QED BY <2>1 DEF Ended
<1> QED BY <1>11, <1>12, <1>14, <1>15, <1>16, <1>17 DEF IInv

----------------------------------------------------------------------------
(* The other steps, and the theorems.                                      *)

LEMMA NextIInv == IInv /\ [Next]_vars => IInv'
<1> SUFFICES ASSUME IInv, [Next]_vars PROVE IInv' OBVIOUS
<1>1. ASSUME UNCHANGED <<trace, count, sent, waiting, done, stats>>, Ended'
      PROVE  IInv'
  <2> USE <1>1 DEF IInv
  <2>1. TypeOK' BY DEF TypeOK
  <2>2. Numbered' BY DEF Numbered
  <2>3. Placed' BY DEF Placed
  <2>4. Ordered' BY DEF Ordered
  <2>5. Summed' BY DEF Summed
  <2> QED BY <2>1, <2>2, <2>3, <2>4, <2>5
<1>2. CASE FrontEnd
  <2>1. CASE FrontTicks /\ SendLine /\ UNCHANGED <<turn, ticks>>
    BY <1>2, <2>1, SendIInv DEF FrontEnd
  <2>2. CASE ~(FrontTicks /\ SendLine /\ UNCHANGED <<turn, ticks>>)
    <3>1. /\ UNCHANGED <<trace, count, sent, waiting, done, stats>>
          /\ turn' \in {"memory", "check"}
      BY <1>2, <2>2 DEF FrontEnd, LastTurn
    <3>2. Ended' BY <3>1 DEF Ended
    <3> QED BY <1>1, <3>1, <3>2
  <2> QED BY <2>1, <2>2
<1>3. CASE \E c \in Channels : Tick(c) BY <1>3, TickIInv
<1>4. CASE Check
  <2>1. CASE Ends /\ turn' = "ended"
    <3>1. UNCHANGED <<trace, count, sent, waiting, done, stats, refreshing>> BY <1>4 DEF Check
    <3> USE <2>1, <3>1 DEF IInv
    <3>2. TypeOK' BY DEF TypeOK
    <3>3. Numbered' BY DEF Numbered
    <3>4. Placed' BY DEF Placed
    <3>5. Ordered' BY DEF Ordered
    <3>6. Summed' BY DEF Summed
    <3>7. Ended' BY DEF Ended, Ends, is_finished, is_pending
    <3> QED BY <3>2, <3>3, <3>4, <3>5, <3>6, <3>7
  <2>2. CASE turn' = "front"
    <3>1. UNCHANGED <<trace, count, sent, waiting, done, stats>> BY <1>4 DEF Check
    <3>2. Ended' BY <2>2 DEF Ended
    <3> QED BY <1>1, <3>1, <3>2
  <2> QED BY <1>4, <2>1, <2>2 DEF Check
<1>5. CASE UNCHANGED vars
  <2>1. UNCHANGED <<trace, count, sent, waiting, done, stats>> BY <1>5 DEF vars
  <2>2. Ended' BY <1>5 DEF IInv, Ended, is_finished, vars
  <2> QED BY <1>1, <2>1, <2>2
<1> QED BY <1>2, <1>3, <1>4, <1>5 DEF Next

LEMMA Invariant == Spec => []IInv
<1> QED BY InitIInv, NextIInv, PTL DEF Spec

LEMMA LinesUpto ==
  ASSUME TypeOK, NEW c, NEW n \in Nat, n <= count
  PROVE  Cardinality(LinesTo(c, n)) = Upto(ToChannel(trace, c), n)
<1>1. Len(trace) \in Nat /\ DOMAIN trace = 1 .. Len(trace) BY Lines DEF TypeOK
<1>2. LinesTo(c, n) = ToChannel(trace, c) \cap (1 .. n)
  BY <1>1 DEF TypeOK, LinesTo, ToChannel
<1> QED BY <1>2 DEF Upto

\* Through refusals and retries, the requests of each channel are the lines of
\* the trace for it, in their order (tick of the front end, send of the memory
\* system).
THEOREM SentInOrder == Spec => []LinesInOrder
<1>1. IInv => LinesInOrder
  <2> SUFFICES ASSUME IInv, NEW c \in Channels
               PROVE  /\ sent[c] = Cardinality(LinesTo(c, count))
                      /\ \A r \in waiting[c] : /\ trace[r.line].channel = c
                                               /\ r.id = Cardinality(LinesTo(c, r.line))
    BY DEF LinesInOrder
  <2>1. TypeOK /\ count \in Nat BY Lines DEF IInv, TypeOK
  <2>2. sent[c] = Cardinality(LinesTo(c, count)) BY <2>1, LinesUpto DEF IInv, Numbered
  <2>3. ASSUME NEW r \in waiting[c]
        PROVE  trace[r.line].channel = c /\ r.id = Cardinality(LinesTo(c, r.line))
    <3>1. Stands(trace, count, c, r) BY DEF IInv, Numbered
    <3>2. r.line \in Nat /\ r.line <= count BY <2>1, <3>1 DEF Stands
    <3> QED BY <2>1, <3>1, <3>2, LinesUpto DEF Stands, ToChannel
  <2> QED BY <2>2, <2>3
<1> QED BY Invariant, <1>1, PTL

\* In each channel, PIM lines behind a barrier are over after those before it,
\* if the controller keeps barriers among what it was sent (PIMService).
THEOREM BarriersHold == Spec => []BarriersKept
<1>1. IInv => BarriersKept
  <2> SUFFICES ASSUME IInv, NEW i \in 1 .. count, NEW b \in 1 .. count, NEW j \in 1 .. count,
                      i < b, b < j, trace[b].type = "PIM_BARRIER",
                      trace[i].channel = trace[b].channel, trace[j].channel = trace[b].channel,
                      Kind(trace[i].type) = "pim", Kind(trace[j].type) = "pim",
                      Cardinality(LinesTo(trace[b].channel, j)) \in done[trace[b].channel]
               PROVE  Cardinality(LinesTo(trace[b].channel, i)) \in done[trace[b].channel]
    BY DEF BarriersKept
  <2> DEFINE c == trace[b].channel
             S == ToChannel(trace, c)
  <2>1. /\ TypeOK /\ count \in Nat
        /\ i \in DOMAIN trace /\ b \in DOMAIN trace /\ j \in DOMAIN trace
    BY Lines DEF IInv, TypeOK
  <2>2. c \in Channels BY <2>1, Lines DEF TypeOK
  <2>3. /\ i \in S \cap (1 .. count) /\ b \in S \cap (1 .. count) /\ j \in S \cap (1 .. count)
    BY <2>1 DEF ToChannel
  <2>4. Kind(trace[b].type) = "barrier" BY DEF Kind
  <2>5. Bound(trace, b, j) /\ Bound(trace, i, b) BY <2>4 DEF Bound
  <2> HIDE DEF c
  <2>6. \A x, y \in S \cap (1 .. count) :
           Bound(trace, x, y) /\ Upto(S, y) \in done[c] => Upto(S, x) \in done[c]
    BY <2>2 DEF IInv, Ordered, InOrder
  <2>7. Upto(S, j) \in done[c] => Upto(S, i) \in done[c] BY <2>3, <2>5, <2>6
  <2>8. /\ Cardinality(LinesTo(c, j)) = Upto(S, j)
        /\ Cardinality(LinesTo(c, i)) = Upto(S, i)
    BY <2>1, LinesUpto
  <2> QED BY <2>7, <2>8 DEF c
<1> QED BY Invariant, <1>1, PTL

\* When the main loop breaks, every line of the trace has been served, no refresh
\* is queued and the statistics are those of the trace.
THEOREM DoneAtEnd == Spec => []EndsDone
<1>1. IInv => EndsDone
  <2> SUFFICES ASSUME IInv, turn = "ended"
               PROVE  /\ refreshing = {}
                      /\ \A c \in Channels : done[c] = 1 .. Cardinality(LinesTo(c, Len(trace)))
                      /\ \A t \in DOMAIN stats :
                           stats[t] = Cardinality({ i \in DOMAIN trace : trace[i].type = t })
    BY DEF EndsDone
  <2>1. /\ TypeOK /\ count \in Nat /\ count = Len(trace) /\ DOMAIN trace = 1 .. count
        /\ refreshing = {} /\ \A c \in Channels : waiting[c] = {}
    BY Lines DEF IInv, TypeOK, Ended, is_finished
  <2>2. ASSUME NEW c \in Channels PROVE done[c] = 1 .. Cardinality(LinesTo(c, Len(trace)))
    <3>1. done[c] = 1 .. sent[c] BY <2>1 DEF IInv, Placed, Ids
    <3>2. sent[c] = Cardinality(LinesTo(c, count)) BY <2>1, LinesUpto DEF IInv, Numbered
    <3> QED BY <2>1, <3>1, <3>2
  <2>3. ASSUME NEW t \in DOMAIN stats
        PROVE  stats[t] = Cardinality({ i \in DOMAIN trace : trace[i].type = t })
    <3>1. stats[t] = Upto(OfType(trace, t), count) BY <2>1 DEF IInv, Summed, TypeOK
    <3>2. OfType(trace, t) \cap (1 .. count) = { i \in DOMAIN trace : trace[i].type = t }
      BY <2>1 DEF OfType
    <3> QED BY <3>1, <3>2 DEF Upto
  <2> QED BY <2>1, <2>2, <2>3
<1> QED BY Invariant, <1>1, PTL

----------------------------------------------------------------------------
(* The two clocks.                                                         *)

\* A clock that ticks at the multiples of m has ticked k times in n steps.
Passed(n, m, k) == k \in Nat /\ (k - 1) * m < n /\ n <= k * m

LEMMA Products ==
  ASSUME NEW m \in Nat \ {0}, NEW a \in Int, NEW b \in Int, a * m < b * m
  PROVE  a < b
<1> SUFFICES ASSUME b <= a PROVE FALSE OBVIOUS
<1> DEFINE d == a - b
<1>1. d \in Nat /\ a = b + d OBVIOUS
<1> HIDE DEF d
<1>2. d * m \in Nat BY <1>1
<1>3. a * m = b * m + d * m BY <1>1
<1> QED BY <1>2, <1>3

\* A multiple of m is what leaves no remainder.
LEMMA Remainder ==
  ASSUME NEW m \in Nat \ {0}, NEW n \in Nat
  PROVE  \E q \in Nat : n = q * m + (n % m) /\ n % m \in 0 .. m - 1
<1>1. n = (n \div m) * m + (n % m) /\ n % m \in 0 .. m - 1 /\ n \div m \in Nat OBVIOUS
<1> QED BY <1>1

\* One step more, in which the clock ticks if its number is a multiple.
LEMMA PassedNext ==
  ASSUME NEW m \in Nat \ {0}, NEW n \in Nat, NEW k, Passed(n, m, k)
  PROVE  IF n % m = 0 THEN Passed(n + 1, m, k + 1) ELSE Passed(n + 1, m, k)
<1>1. PICK q \in Nat : n = q * m + (n % m) /\ n % m \in 0 .. m - 1 BY Remainder
<1>2. k \in Nat /\ (k - 1) * m < n /\ n <= k * m BY DEF Passed
<1>3. /\ k * m \in Int /\ q * m \in Int
      /\ (k - 1) * m = k * m - m /\ (k + 1) * m = k * m + m /\ (q + 1) * m = q * m + m
  BY <1>2
<1>4. k - 1 < q + 1
  <2>1. (k - 1) * m < (q + 1) * m BY <1>1, <1>2, <1>3
  <2> QED BY <1>2, <2>1, Products
<1>5. CASE n % m = 0
  <2>1. k - 1 < q BY <1>1, <1>2, <1>5, Products
  <2>2. ~(k < q)
    <3> SUFFICES ASSUME k < q PROVE FALSE OBVIOUS
    <3>1. PICK d \in Nat : q = k + 1 + d BY <1>2
    <3>2. q * m = k * m + m + d * m /\ d * m \in Nat BY <1>2, <3>1
    <3> QED BY <1>1, <1>2, <1>3, <1>5, <3>2
  <2>3. k = q BY <1>2, <2>1, <2>2
  <2>4. n = k * m BY <1>1, <1>3, <1>5, <2>3
  <2> QED BY <1>2, <1>3, <1>5, <2>4 DEF Passed
<1>6. CASE n % m # 0
  <2>1. n # k * m
    <3> SUFFICES ASSUME n = k * m PROVE FALSE OBVIOUS
    <3>1. q * m < k * m /\ k * m < (q + 1) * m BY <1>1, <1>3, <1>6
    <3>2. q < k /\ k < q + 1 BY <1>2, <3>1, Products
    <3> QED BY <1>2, <3>2
  <2> QED BY <1>2, <1>3, <1>6, <2>1 DEF Passed
<1> QED BY <1>5, <1>6

\* A whole number of turns of a clock.
LEMMA PassedAll ==
  ASSUME NEW m \in Nat \ {0}, NEW f \in Nat, NEW k, Passed(f * m, m, k)
  PROVE  k = f
<1>1. k \in Nat /\ (k - 1) * m < f * m /\ f * m <= k * m BY DEF Passed
<1>2. k - 1 < f BY <1>1, Products
<1>3. ~(k < f)
  <2> SUFFICES ASSUME k < f PROVE FALSE OBVIOUS
  <2>1. PICK d \in Nat : f = k + 1 + d BY <1>1
  <2>2. f * m = k * m + m + d * m /\ d * m \in Nat /\ k * m \in Int BY <1>1, <2>1
  <2> QED BY <1>1, <2>2
<1> QED BY <1>1, <1>2, <1>3

\* In each turn, the clocks have ticked for the steps they have been asked in.
InStep ==
  /\ step \in Nat /\ step < tick_mult
  /\ ticks = [front |-> ticks.front, memory |-> ticks.memory]
  /\ turn \in {"front", "memory", "check", "ended"}
  /\ turn = "front" => Passed(step, mem_tick, ticks.front)
  /\ turn \in {"memory", "check"} => Passed(step + 1, mem_tick, ticks.front)
  /\ turn \in {"front", "memory"} => Passed(step, frontend_tick, ticks.memory)
  /\ turn = "memory" => MemoryTicks
  /\ turn = "check" => Passed(step + 1, frontend_tick, ticks.memory)

LEMMA Ratios == /\ frontend_tick \in Nat \ {0} /\ mem_tick \in Nat \ {0}
                /\ tick_mult \in Nat \ {0} /\ tick_mult = mem_tick * frontend_tick
<1>1. frontend_tick \in Nat \ {0} /\ mem_tick \in Nat \ {0} BY TraceSimulationAssumption
<1>2. frontend_tick * mem_tick \in Nat \ {0} /\ frontend_tick * mem_tick = mem_tick * frontend_tick
  BY <1>1
<1> QED BY <1>1, <1>2 DEF tick_mult

LEMMA Rounds ==
  ASSUME NEW n \in Nat
  PROVE  n % tick_mult \in 0 .. tick_mult - 1 /\ \E q \in Nat : n = q * tick_mult + (n % tick_mult)
BY Ratios, Remainder

LEMMA PassedNone == ASSUME NEW m \in Nat \ {0} PROVE Passed(0, m, 0)
BY DEF Passed

LEMMA InitInStep == Init => InStep
<1> SUFFICES ASSUME Init PROVE InStep OBVIOUS
<1>1. Passed(0, mem_tick, 0) /\ Passed(0, frontend_tick, 0) BY Ratios, PassedNone
<1> QED BY <1>1, Ratios DEF Init, InStep

\* The last step of a round: both have ticked as often as their ratios say.
LEMMA RoundOver ==
  ASSUME InStep, Check, step' = 0, turn # turn', turn' = "front"
  PROVE  ticks = [front |-> frontend_tick, memory |-> mem_tick]
<1>1. turn = "check" /\ step' = (step + 1) % tick_mult BY DEF Check
<1>2. step + 1 \in 1 .. tick_mult BY Ratios DEF InStep
<1>3. step + 1 = tick_mult
  <2> SUFFICES ASSUME step + 1 < tick_mult PROVE FALSE BY <1>2, Ratios
  <2>1. PICK q \in Nat : step + 1 = q * tick_mult + step' BY <1>1, <1>2, Rounds
  <2>2. step + 1 = q * tick_mult BY <1>1, <1>2, <2>1, Ratios
  <2>3. q * tick_mult < 1 * tick_mult /\ 0 * tick_mult < q * tick_mult BY <1>2, <2>2, Ratios
  <2>4. q < 1 /\ 0 < q BY <2>3, Ratios, Products
  <2> QED BY <2>4
<1>4. Passed(step + 1, mem_tick, ticks.front) /\ Passed(step + 1, frontend_tick, ticks.memory)
  BY <1>1 DEF InStep
<1>5. Passed(frontend_tick * mem_tick, mem_tick, ticks.front) BY <1>3, <1>4 DEF tick_mult
<1>6. Passed(mem_tick * frontend_tick, frontend_tick, ticks.memory) BY <1>3, <1>4, Ratios
<1>7. ticks.front = frontend_tick /\ ticks.memory = mem_tick
  BY <1>5, <1>6, Ratios, PassedAll
<1> QED BY <1>7 DEF InStep

LEMMA FrontInStep == ASSUME InStep, FrontEnd PROVE InStep'
<1>1. turn = "front" /\ step' = step /\ step \in Nat BY DEF FrontEnd, InStep
<1>2. /\ Passed(step, mem_tick, ticks.front) /\ Passed(step, frontend_tick, ticks.memory)
      /\ ticks = [front |-> ticks.front, memory |-> ticks.memory]
  BY <1>1 DEF InStep
<1>3. CASE UNCHANGED <<turn, ticks>> BY <1>1, <1>3 DEF InStep, MemoryTicks
<1>4. CASE turn' = IF MemoryTicks THEN "memory" ELSE "check"
  <2>1. /\ ticks'.memory = ticks.memory
        /\ ticks' = [front |-> ticks'.front, memory |-> ticks'.memory]
        /\ ticks'.front = IF FrontTicks THEN ticks.front + 1 ELSE ticks.front
    <3>1. CASE FrontTicks /\ ticks' = [ticks EXCEPT !.front = @ + 1] BY <1>2, <3>1
    <3>2. CASE ~FrontTicks /\ ticks' = ticks BY <1>2, <3>2
    <3> QED BY <1>1, <1>4, <3>1, <3>2 DEF FrontEnd
  <2>2. Passed(step + 1, mem_tick, ticks'.front)
    BY <1>1, <1>2, <2>1, Ratios, PassedNext DEF FrontTicks
  <2>3. ~MemoryTicks => Passed(step + 1, frontend_tick, ticks'.memory)
    BY <1>1, <1>2, <2>1, Ratios, PassedNext DEF MemoryTicks
  <2> QED BY <1>1, <1>2, <1>4, <2>1, <2>2, <2>3 DEF InStep, MemoryTicks
<1> QED BY <1>1, <1>3, <1>4 DEF FrontEnd

LEMMA TickInStep == ASSUME InStep, NEW c \in Channels, Tick(c) PROVE InStep'
<1>1. /\ turn = "memory" /\ step' = step /\ step \in Nat /\ step < tick_mult /\ MemoryTicks
      /\ Passed(step + 1, mem_tick, ticks.front) /\ Passed(step, frontend_tick, ticks.memory)
      /\ ticks = [front |-> ticks.front, memory |-> ticks.memory]
  BY DEF Tick, InStep
<1>2. CASE UNCHANGED <<turn, ticks>> BY <1>1, <1>2 DEF InStep, MemoryTicks
<1>3. CASE turn' = "check" /\ ticks' = [ticks EXCEPT !.memory = @ + 1]
  <2>1. /\ ticks'.front = ticks.front /\ ticks'.memory = ticks.memory + 1
        /\ ticks' = [front |-> ticks'.front, memory |-> ticks'.memory]
    BY <1>1, <1>3
  <2>2. Passed(step + 1, frontend_tick, ticks'.memory)
    BY <1>1, <2>1, Ratios, PassedNext DEF MemoryTicks
  <2> QED BY <1>1, <1>3, <2>1, <2>2 DEF InStep
<1> QED BY <1>2, <1>3 DEF Tick

LEMMA CheckInStep == ASSUME InStep, Check PROVE InStep'
<1>1. turn = "check" /\ step \in Nat /\ step < tick_mult BY DEF Check, InStep
<1>2. CASE turn' = "ended" /\ UNCHANGED <<step, ticks>> BY <1>1, <1>2 DEF InStep
<1>3. CASE /\ turn' = "front" /\ step' = (step + 1) % tick_mult
           /\ ticks' = IF step' = 0 THEN [front |-> 0, memory |-> 0] ELSE ticks
  <2>1. step' \in Nat /\ step' < tick_mult
    <3>1. step + 1 \in Nat BY <1>1
    <3>2. step' \in 0 .. tick_mult - 1 BY <1>3, <3>1, Rounds
    <3>3. tick_mult \in Nat BY Ratios
    <3> QED BY <3>2, <3>3
  <2>2. CASE step' = 0
    <3>1. Passed(0, mem_tick, 0) /\ Passed(0, frontend_tick, 0) BY Ratios, PassedNone
    <3> QED BY <1>3, <2>1, <2>2, <3>1 DEF InStep
  <2>3. CASE step' # 0
    <3>1. step' = step + 1
      <4>1. step + 1 \in 1 .. tick_mult BY <1>1, Ratios
      <4>2. PICK q \in Nat : step + 1 = q * tick_mult + step' BY <1>3, <4>1, Rounds
      <4>3. q * tick_mult < 1 * tick_mult BY <2>1, <2>3, <4>1, <4>2, Ratios
      <4>4. q < 1 BY <4>3, Ratios, Products
      <4> QED BY <2>1, <4>2, <4>4, Ratios
    <3> QED BY <1>1, <1>3, <2>1, <2>3, <3>1 DEF InStep
  <2> QED BY <2>2, <2>3
<1> QED BY <1>2, <1>3 DEF Check

\* In every round of tick_mult steps, whatever is refused or waits, the front
\* end ticks frontend_tick times and the memory system mem_tick times.
THEOREM RatiosHold == Spec => RatioKept
<1>1. InStep /\ [Next]_vars => InStep'
  <2> SUFFICES ASSUME InStep, [Next]_vars PROVE InStep' OBVIOUS
  <2>1. CASE UNCHANGED vars BY <2>1 DEF vars, InStep, MemoryTicks
  <2> QED BY <2>1, FrontInStep, TickInStep, CheckInStep DEF Next
<1>2. InStep /\ [Next]_vars =>
        [step' # step /\ step' = 0 => ticks = [front |-> frontend_tick, memory |-> mem_tick]]_vars
  <2> SUFFICES ASSUME InStep, Next, step' # step, step' = 0
               PROVE  ticks = [front |-> frontend_tick, memory |-> mem_tick]
    OBVIOUS
  <2>1. Check BY DEF Next, FrontEnd, Tick
  <2>2. turn # turn' /\ turn' = "front" BY <2>1 DEF Check
  <2> QED BY <2>1, <2>2, RoundOver
<1> QED BY InitInStep, <1>1, <1>2, PTL DEF Spec, RatioKept
=============================================================================
