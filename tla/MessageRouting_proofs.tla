------------------------ MODULE MessageRouting_proofs ------------------------
(***************************************************************************)
(* What a router gives to the queues that it has chosen, for any mq.json   *)
(* and any batch.                                                          *)
(***************************************************************************)
EXTENDS MessageRouting, SequenceTheorems, WellFoundedInduction, TLAPS

\* A set of numbers has a least element: induction, as the refutation of a least
\* counterexample.
LEMMA LeastElement ==
  ASSUME NEW T, T \subseteq Nat, T # {}
  PROVE  \E x \in T : \A y \in T : x <= y
<1>1. PICK x \in T : \A y \in T : ~(<<y, x>> \in OpToRel(<, Nat))
  BY NatLessThanWellFounded, WFMin
<1>2. \A y \in T : ~(y < x)
  BY <1>1 DEF OpToRel
<1> QED
  BY <1>2

\* No queue has filters, so each of them takes every message.
LEMMA NothingFiltered ==
  ASSUME NEW aliases \in SUBSET Aliases, NEW message
  PROVE  filter(aliases, message) = aliases
BY DEF filter, queues, from_json

\* The loop copies the whole batch for an alias that takes every message.
LEMMA AllTaken ==
  ASSUME NEW S, NEW batch \in Seq(S), NEW a, NEW aliases,
         \A n \in 1 .. Len(batch) : a \in filter(aliases, batch[n])
  PROVE  messages_taken(a, aliases, batch) = batch
<1> DEFINE Loop(f) == f = [n \in 0 .. Len(batch) |->
                             IF n = 0 THEN <<>>
                             ELSE IF a \in filter(aliases, batch[n]) THEN Append(f[n - 1], batch[n])
                             ELSE f[n - 1]]
<1>1. Len(batch) \in Nat /\ \A n \in 1 .. Len(batch) : batch[n] \in S
  BY LenProperties, ElementOfSeq
<1>2. PICK g : g = [n \in 0 .. Len(batch) |-> SubSeq(batch, 1, n)]
  OBVIOUS
\* The prefixes of the batch are a solution of what the loop computes,
<1>3. Loop(g)
  <2>1. SubSeq(batch, 1, 0) = <<>>
    BY SubSeqEmpty
  <2>2. ASSUME NEW n \in 1 .. Len(batch)
        PROVE  SubSeq(batch, 1, n) = Append(SubSeq(batch, 1, n - 1), batch[n])
    <3>1. /\ SubSeq(batch, 1, n) \in Seq(S) /\ Len(SubSeq(batch, 1, n)) = n
          /\ \A i \in 1 .. n : SubSeq(batch, 1, n)[i] = batch[i]
      BY <1>1, SubSeqProperties
    <3>2. /\ SubSeq(batch, 1, n - 1) \in Seq(S) /\ Len(SubSeq(batch, 1, n - 1)) = n - 1
          /\ \A i \in 1 .. n - 1 : SubSeq(batch, 1, n - 1)[i] = batch[i]
      BY <1>1, SubSeqProperties
    <3>3. PICK t : t = Append(SubSeq(batch, 1, n - 1), batch[n])
      OBVIOUS
    <3>4. t \in Seq(S) /\ Len(t) = n /\ \A i \in 1 .. n : t[i] = batch[i]
      BY <1>1, <3>2, <3>3, AppendProperties
    <3> QED
      BY <3>1, <3>3, <3>4, SeqEqual
  <2>3. ASSUME NEW n \in 1 .. Len(batch) PROVE g[n - 1] = SubSeq(batch, 1, n - 1)
    <3>1. \A i \in 0 .. Len(batch) : g[i] = SubSeq(batch, 1, i)
      BY <1>2
    <3>2. n - 1 \in 0 .. Len(batch)
      BY <1>1
    <3> QED
      BY <3>1, <3>2
  <2>4. \A n \in 0 .. Len(batch) :
          SubSeq(batch, 1, n) = IF n = 0 THEN <<>>
                                ELSE IF a \in filter(aliases, batch[n]) THEN Append(g[n - 1], batch[n])
                                ELSE g[n - 1]
    BY <1>1, <2>1, <2>2, <2>3
  <2> QED
    BY <1>2, <2>4
\* and the only one.
<1>4. PICK f : f = CHOOSE h : Loop(h)
  OBVIOUS
<1>5. Loop(f)
  BY <1>3, <1>4
<1>6. \A n \in 0 .. Len(batch) : f[n] = g[n]
  <2> SUFFICES ASSUME NEW k \in 0 .. Len(batch), f[k] # g[k] PROVE FALSE
    OBVIOUS
  <2>1. PICK T : T = {n \in 0 .. Len(batch) : f[n] # g[n]}
    OBVIOUS
  <2>2. T \subseteq Nat /\ T # {}
    BY <1>1, <2>1
  <2>3. PICK m \in T : \A n \in T : m <= n
    BY <2>2, LeastElement
  <2>4. m \in 0 .. Len(batch) /\ f[m] # g[m]
    BY <2>1
  <2>5. f[0] = <<>> /\ g[0] = <<>>
    BY <1>1, <1>3, <1>5
  <2>6. m - 1 \in 0 .. Len(batch) /\ m # 0
    BY <1>1, <2>4, <2>5
  <2>7. f[m - 1] = g[m - 1]
    BY <1>1, <2>1, <2>3, <2>6
  <2>8. a \in filter(aliases, batch[m])
    BY <1>1, <2>4, <2>6
  <2>9. f[m] = Append(f[m - 1], batch[m])
    BY <1>5, <2>4, <2>6, <2>8
  <2>10. g[m] = Append(g[m - 1], batch[m])
    BY <1>3, <2>4, <2>6, <2>8
  <2> QED
    BY <2>4, <2>7, <2>9, <2>10
<1>7. messages_taken(a, aliases, batch) = f[Len(batch)]
  BY <1>4 DEF messages_taken
<1>8. g[Len(batch)] = batch
  BY <1>1, <1>2, SubSeqFull
<1> QED
  BY <1>1, <1>6, <1>7, <1>8

\* Whatever router and whatever attributes: every queue that matches them is sent
\* the batch as it is, with all its messages in their order, whatever filters
\* mq.json has for it; only a batch without messages has no queue.
THEOREM BatchesAreWhole ==
  ASSUME NEW kind \in Kinds, NEW S, NEW batch \in Seq(S), batch # <<>>,
         NEW aliases \in SUBSET Aliases
  PROVE  find_by_filter(kind, aliases, batch) = [a \in aliases |-> batch]
<1>1. Len(batch) \in Nat \ {0} /\ DOMAIN batch = 1 .. Len(batch)
  BY LenProperties, EmptySeq
<1>2. UNION {filter(aliases, batch[i]) : i \in DOMAIN batch} = aliases
  <2>1. 1 \in DOMAIN batch
    BY <1>1
  <2>2. \A i \in DOMAIN batch : filter(aliases, batch[i]) = aliases
    BY NothingFiltered
  <2> QED
    BY <2>1, <2>2
<1>3. ASSUME NEW a \in aliases PROVE messages_taken(a, aliases, batch) = batch
  BY NothingFiltered, AllTaken
<1> QED
  BY <1>2, <1>3 DEF find_by_filter
==============================================================================
