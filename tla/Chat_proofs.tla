----------------------------- MODULE Chat_proofs -----------------------------
(***************************************************************************)
(* Proofs about Chat, for any orders, clocks and number of messages.       *)
(***************************************************************************)
EXTENDS Chat, FiniteSetTheorems, SequenceTheorems, TLAPS

-----------------------------------------------------------------------------
(* Sorting.                                                                *)

\* InOrder lists a finite set: every element once, those above it before it.
LEMMA Sorting ==
    ASSUME NEW above, IsFiniteSet(DOMAIN above),
           \A m \in DOMAIN above : above[m] \subseteq DOMAIN above /\ m \notin above[m],
           \A m \in DOMAIN above : \A k \in above[m] : above[k] \subseteq above[m],
           \A m, k \in DOMAIN above : m # k => m \in above[k] \/ k \in above[m]
    PROVE  /\ InOrder(above) \in [1 .. Cardinality(DOMAIN above) -> DOMAIN above]
           /\ Cardinality(DOMAIN above) \in Nat
           /\ \A m \in DOMAIN above : \E i \in DOMAIN InOrder(above) : InOrder(above)[i] = m
           /\ \A i, j \in DOMAIN InOrder(above) :
                 i < j => InOrder(above)[i] \in above[InOrder(above)[j]]
           /\ \A i, j \in DOMAIN InOrder(above) : InOrder(above)[i] = InOrder(above)[j] => i = j
<1> DEFINE S == DOMAIN above
           n == Cardinality(S)
           rank == [m \in S |-> Cardinality(above[m])]
           s == InOrder(above)
<1>0. n \in Nat
  BY FS_CardinalityType
<1>1. ASSUME NEW m \in S PROVE /\ IsFiniteSet(above[m])
                               /\ Cardinality(above[m]) \in 0 .. n - 1
  <2>1. IsFiniteSet(above[m]) /\ Cardinality(above[m]) <= n /\ Cardinality(above[m]) # n
    BY FS_Subset
  <2>2. Cardinality(above[m]) \in Nat
    BY <2>1, FS_CardinalityType
  <2> QED
    BY <1>0, <2>1, <2>2
<1>2. ASSUME NEW m \in S, NEW k \in above[m]
      PROVE  Cardinality(above[k]) < Cardinality(above[m])
  <2>1. above[k] \in SUBSET above[m] /\ above[k] # above[m] /\ k \in S
    OBVIOUS
  <2>2. Cardinality(above[k]) <= Cardinality(above[m])
        /\ Cardinality(above[k]) # Cardinality(above[m])
    BY <1>1, <2>1, FS_Subset
  <2> QED
    BY <1>1, <2>1, <2>2
<1>3. \A m, k \in S : Cardinality(above[m]) = Cardinality(above[k]) => m = k
  BY <1>1, <1>2
<1>4. rank \in Injection(S, 0 .. n - 1)
  BY <1>1, <1>3 DEF Injection, IsInjective
<1>5. IsFiniteSet(0 .. n - 1) /\ Cardinality(0 .. n - 1) = n
  BY <1>0, FS_Interval
<1>6. rank \in Surjection(S, 0 .. n - 1)
  BY <1>4, <1>5, FS_Injection
<1>7. \A r \in 0 .. n - 1 : \E m \in S : Cardinality(above[m]) = r
  BY <1>6 DEF Surjection
<1>8. s = [i \in 1 .. n |-> CHOOSE m \in S : Cardinality(above[m]) = i - 1]
  BY DEF InOrder
<1>9. ASSUME NEW i \in 1 .. n PROVE s[i] \in S /\ Cardinality(above[s[i]]) = i - 1
  <2>1. i - 1 \in 0 .. n - 1
    BY <1>0
  <2> QED
    BY <1>7, <1>8, <2>1
<1>10. s \in [1 .. n -> S] /\ DOMAIN s = 1 .. n
  BY <1>8, <1>9
<1>11. ASSUME NEW m \in S PROVE \E i \in DOMAIN s : s[i] = m
  <2>1. Cardinality(above[m]) + 1 \in 1 .. n
    BY <1>0, <1>1
  <2>2. Cardinality(above[s[Cardinality(above[m]) + 1]]) = Cardinality(above[m])
    BY <1>1, <1>9, <2>1
  <2>3. s[Cardinality(above[m]) + 1] = m
    BY <1>3, <1>9, <2>1, <2>2
  <2> QED
    BY <1>10, <2>1, <2>3
<1>12. ASSUME NEW i \in DOMAIN s, NEW j \in DOMAIN s, i < j PROVE s[i] \in above[s[j]]
  <2>1. s[i] # s[j] /\ ~(s[j] \in above[s[i]])
    BY <1>0, <1>2, <1>9, <1>10, <1>12
  <2> QED
    BY <1>9, <1>10, <2>1
<1>13. ASSUME NEW i \in DOMAIN s, NEW j \in DOMAIN s, s[i] = s[j] PROVE i = j
  BY <1>0, <1>9, <1>10, <1>13
<1> QED
  BY <1>0, <1>10, <1>11, <1>12, <1>13

-----------------------------------------------------------------------------
(* The messages.                                                           *)

\* Each message has a number of its own; the server has those of this phone in
\* the order they were written, and the phone hears of them in that order.
Numbered ==
    /\ \A i, j \in DOMAIN log : log[i].n = log[j].n => i = j
    /\ \A i, j \in DOMAIN outbox : i < j => outbox[i].n < outbox[j].n
    /\ \A i \in DOMAIN outbox : outbox[i].from = "here"
    /\ \A i \in DOMAIN log, j \in DOMAIN outbox :
          /\ log[i].n # outbox[j].n
          /\ log[i].from = "here" => log[i].n < outbox[j].n
    /\ \A i, j \in DOMAIN log :
          log[i].from = "here" /\ log[j].from = "here" /\ i < j => log[i].n < log[j].n
    /\ \A i \in DOMAIN log : log[i].n <= sent
    /\ \A i \in DOMAIN outbox : outbox[i].n <= sent
    /\ \A m, k \in Written : k.n < m.n /\ m \in known => k \in known

\* The server and the phone's part of it.
CloudOK ==
    /\ log \in Seq(Message) /\ outbox \in Seq(Message) /\ sent \in 0 .. MaxMessages
    /\ known \subseteq Range(log) /\ skew \in Skew

LEMMA Sequences ==
    ASSUME CloudOK
    PROVE  /\ Len(log) \in Nat /\ Len(outbox) \in Nat
           /\ DOMAIN log = 1 .. Len(log) /\ DOMAIN outbox = 1 .. Len(outbox)
           /\ \A i \in DOMAIN log : log[i] \in Message /\ log[i].n \in Int
           /\ \A i \in DOMAIN outbox : outbox[i] \in Message /\ outbox[i].n \in Int
<1>1. \A m \in Message : m.n \in Int
  BY ChatAssumption DEF Message
<1> QED
  BY <1>1, LenProperties DEF CloudOK

\* The time the server gave a message is its place in the log.
LEMMA Places ==
    ASSUME CloudOK, Numbered
    PROVE  /\ \A i \in DOMAIN log : ServerTime(log[i]) = 2 * i
           /\ \A m \in Range(log) : \E i \in 1 .. Len(log) : log[i] = m /\ ServerTime(m) = 2 * i
<1>1. ASSUME NEW i \in DOMAIN log PROVE ServerTime(log[i]) = 2 * i
  <2> DEFINE j == CHOOSE j \in DOMAIN log : log[j] = log[i]
  <2>1. j \in DOMAIN log /\ log[j] = log[i]
    OBVIOUS
  <2>2. j = i
    BY <2>1 DEF Numbered
  <2> QED
    BY <2>2 DEF ServerTime
<1> QED
  BY <1>1, Sequences DEF Range

\* Two messages do not share a number, and the phone's own stand in the log in
\* the order of their numbers.
LEMMA Numbers ==
    ASSUME CloudOK, Numbered
    PROVE  /\ Held \subseteq Range(log) \cup Range(outbox)
           /\ Held \subseteq Message /\ Written \subseteq Message
           /\ \A m \in Held : m.n \in Int /\ m.n <= sent
           /\ \A m, k \in Held : m.n = k.n => m = k
           /\ \A m \in Written : m.from = "here"
           /\ \A m \in Range(outbox) : m \notin Range(log)
           /\ \A m \in Written : m \in Range(log) \/ m \in Range(outbox)
           /\ \A m, k \in Written : k.n < m.n /\ m \in Range(log) =>
                 k \in Range(log) /\ ServerTime(k) < ServerTime(m)
<1>1. \A m \in Range(log) : m \in Message /\ m.n \in Int /\ m.n <= sent
  BY Sequences DEF Range, Numbered
<1>2. \A m \in Range(outbox) : m \in Message /\ m.n \in Int /\ m.n <= sent /\ m.from = "here"
  BY Sequences DEF Range, Numbered
<1>3. \A m, k \in Range(log) : m.n = k.n => m = k
  BY DEF Range, Numbered
<1>4. \A m, k \in Range(outbox) : m.n = k.n => m = k
  <2>1. \A i, j \in DOMAIN outbox : outbox[i].n = outbox[j].n => i = j
    BY Sequences DEF Numbered
  <2> QED
    BY <2>1 DEF Range
<1>5. \A m \in Range(log), k \in Range(outbox) : m.n # k.n
  BY DEF Range, Numbered
<1>6. /\ Held \subseteq Range(log) \cup Range(outbox)
      /\ \A m \in Written : m \in Range(log) \/ m \in Range(outbox)
  BY DEF Held, Written, CloudOK
<1>7. \A m \in Written : m.from = "here"
  BY <1>2 DEF Written
<1>8. ASSUME NEW m \in Written, NEW k \in Written, k.n < m.n, m \in Range(log)
      PROVE  k \in Range(log) /\ ServerTime(k) < ServerTime(m)
  <2>1. PICK i \in 1 .. Len(log) : log[i] = m /\ ServerTime(m) = 2 * i
    BY <1>8, Places
  <2>2. k \in Range(log)
    <3>1. SUFFICES ASSUME k \in Range(outbox) PROVE FALSE
      BY <1>6
    <3>2. PICK j \in DOMAIN outbox : outbox[j] = k
      BY <3>1 DEF Range
    <3>3. log[i].n < outbox[j].n
      BY <1>7, <2>1, Sequences DEF Numbered
    <3> QED
      BY <1>1, <1>2, <1>8, <2>1, <3>1, <3>2, <3>3
  <2>3. PICK j \in 1 .. Len(log) : log[j] = k /\ ServerTime(k) = 2 * j
    BY <2>2, Places
  <2>4. ~(i < j) /\ i # j
    <3>1. m.n \in Int /\ k.n \in Int /\ m.from = "here" /\ k.from = "here"
      BY <1>1, <1>7, <1>8, <2>2
    <3>2. i < j => log[i].n < log[j].n
      BY <2>1, <2>3, <3>1, Sequences DEF Numbered
    <3> QED
      BY <1>8, <2>1, <2>3, <3>1, <3>2
  <2> QED
    BY <2>1, <2>2, <2>3, <2>4
<1>9. \A m \in Range(outbox) : m \notin Range(log)
  BY <1>5
<1>10. /\ Held \subseteq Message /\ Written \subseteq Message
       /\ \A m \in Held : m.n \in Int /\ m.n <= sent
       /\ \A m, k \in Held : m.n = k.n => m = k
  BY <1>1, <1>2, <1>3, <1>4, <1>5, <1>6 DEF Held
<1> QED
  BY <1>6, <1>7, <1>8, <1>9, <1>10

LEMMA AppendRange ==
    ASSUME NEW S, NEW s \in Seq(S), NEW e \in S
    PROVE  /\ Append(s, e) \in Seq(S) /\ Len(Append(s, e)) = Len(s) + 1
           /\ DOMAIN s = 1 .. Len(s) /\ DOMAIN Append(s, e) = 1 .. Len(s) + 1 /\ Len(s) \in Nat
           /\ \A i \in 1 .. Len(s) : Append(s, e)[i] = s[i]
           /\ Append(s, e)[Len(s) + 1] = e
           /\ Range(Append(s, e)) = Range(s) \cup {e}
<1>1. /\ Append(s, e) \in Seq(S) /\ Len(Append(s, e)) = Len(s) + 1
      /\ \A i \in 1 .. Len(s) : Append(s, e)[i] = s[i]
      /\ Append(s, e)[Len(s) + 1] = e
  BY AppendProperties
<1>2. /\ DOMAIN s = 1 .. Len(s) /\ DOMAIN Append(s, e) = 1 .. Len(s) + 1 /\ Len(s) \in Nat
  BY <1>1, LenProperties
<1>3. \A i \in 1 .. Len(s) + 1 : i \in 1 .. Len(s) \/ i = Len(s) + 1
  BY <1>2
<1>4. \A i \in 1 .. Len(s) : i \in 1 .. Len(s) + 1
  BY <1>2
<1>5. Len(s) + 1 \in 1 .. Len(s) + 1
  BY <1>2
<1>6. ASSUME NEW x PROVE x \in Range(Append(s, e)) <=> x \in Range(s) \cup {e}
  BY <1>1, <1>2, <1>3, <1>4, <1>5 DEF Range
<1> QED
  BY <1>1, <1>2, <1>6

LEMMA TailRange ==
    ASSUME NEW S, NEW s \in Seq(S), s # <<>>
    PROVE  /\ Head(s) \in S /\ Head(s) = s[1] /\ 1 \in DOMAIN s
           /\ Tail(s) \in Seq(S) /\ Len(Tail(s)) = Len(s) - 1 /\ Len(s) \in Nat \ {0}
           /\ DOMAIN Tail(s) = 1 .. Len(s) - 1 /\ DOMAIN s = 1 .. Len(s)
           /\ \A i \in DOMAIN Tail(s) : i + 1 \in DOMAIN s /\ Tail(s)[i] = s[i + 1]
           /\ Range(s) = Range(Tail(s)) \cup {Head(s)}
<1>1. /\ Head(s) \in S /\ Tail(s) \in Seq(S) /\ Len(Tail(s)) = Len(s) - 1
      /\ \A i \in 1 .. Len(Tail(s)) : Tail(s)[i] = s[i + 1]
  BY HeadTailProperties
<1>2. Len(s) \in Nat \ {0} /\ DOMAIN s = 1 .. Len(s) /\ Head(s) = s[1]
  BY EmptySeq, LenProperties
<1>3. DOMAIN Tail(s) = 1 .. Len(s) - 1
  BY <1>1, LenProperties
<1>4. \A i \in DOMAIN Tail(s) : i + 1 \in DOMAIN s /\ Tail(s)[i] = s[i + 1]
  BY <1>1, <1>2, <1>3
<1>5. \A i \in DOMAIN s : i = 1 \/ (i - 1 \in DOMAIN Tail(s) /\ Tail(s)[i - 1] = s[i])
  <2> SUFFICES ASSUME NEW i \in DOMAIN s, i # 1
               PROVE  i - 1 \in DOMAIN Tail(s) /\ Tail(s)[i - 1] = s[i]
    OBVIOUS
  <2>1. i - 1 \in DOMAIN Tail(s) /\ (i - 1) + 1 = i
    BY <1>2, <1>3
  <2> QED
    BY <1>4, <2>1
<1>6. 1 \in DOMAIN s
  BY <1>2
<1>7. ASSUME NEW x PROVE x \in Range(s) <=> x \in Range(Tail(s)) \cup {Head(s)}
  BY <1>2, <1>4, <1>5, <1>6 DEF Range
<1> QED
  BY <1>1, <1>2, <1>3, <1>4, <1>6, <1>7

\* What the steps that send and carry messages have in common.
Carried ==
    /\ UNCHANGED <<skew, told, starting, chat, screen>>
    /\ Len(log) <= Len(log') /\ \A i \in DOMAIN log : i \in DOMAIN log' /\ log'[i] = log[i]
    /\ Held \subseteq Held' /\ known \subseteq known' /\ sent <= sent'
    /\ Written \subseteq Written'
    /\ \A m \in Written' : \/ m \in Written
                            \/ /\ m.n = sent + 1 /\ m \in Range(outbox')
                               /\ AllReported /\ open # none
                               /\ open \in starting => Answer(open) = {}
    /\ \A m \in Range(outbox) :
          m \in Range(outbox') \/ (Len(log) + 1 \in DOMAIN log' /\ log'[Len(log) + 1] = m)

LEMMA SendingHere ==
    ASSUME CloudOK, Numbered, open \in Order \cup {none}, SendHere
    PROVE  CloudOK' /\ Numbered' /\ Carried
<1> DEFINE m == [order |-> open, from |-> "here", n |-> sent + 1]
<1>0. /\ outbox' = Append(outbox, m) /\ sent < MaxMessages /\ open # none
      /\ AllReported /\ (open \in starting => Answer(open) = {})
      /\ UNCHANGED <<log, known, skew, told, starting, chat, screen>>
  BY DEF SendHere
<1>1. sent \in Nat /\ Len(log) \in Nat /\ Len(outbox) \in Nat /\ sent = Len(log) + Len(outbox)
  BY Sequences DEF CloudOK, sent
<1>2. m \in Message /\ m.n = sent + 1 /\ m.from = "here"
  BY <1>0, <1>1, ChatAssumption DEF Message
<1> HIDE DEF m
<1>3. /\ outbox' \in Seq(Message) /\ Len(outbox') = Len(outbox) + 1
      /\ DOMAIN outbox = 1 .. Len(outbox) /\ DOMAIN outbox' = 1 .. Len(outbox) + 1
      /\ \A i \in 1 .. Len(outbox) : outbox'[i] = outbox[i]
      /\ outbox'[Len(outbox) + 1] = m
      /\ Range(outbox') = Range(outbox) \cup {m}
  BY <1>0, <1>2, AppendRange DEF CloudOK
<1>4. sent' = sent + 1
  BY <1>0, <1>1, <1>3 DEF sent
<1>5. CloudOK'
  BY <1>0, <1>1, <1>3, <1>4, ChatAssumption DEF CloudOK
<1>6. Written' = Written \cup {m}
  BY <1>0, <1>2, <1>3 DEF Written
<1>7. \A i \in DOMAIN outbox' : \/ i \in DOMAIN outbox /\ outbox'[i] = outbox[i]
                                \/ i = Len(outbox) + 1 /\ outbox'[i] = m
  BY <1>1, <1>3
<1>8. /\ \A i \in DOMAIN log : log[i].n \in Int /\ log[i].n <= sent
      /\ \A i \in DOMAIN outbox : outbox[i].n \in Int /\ outbox[i].n <= sent
      /\ \A k \in Held : k.n \in Int /\ k.n <= sent
  BY Sequences, Numbers DEF Numbered
<1>9. Numbered'
  <2>1. /\ \A i, j \in DOMAIN outbox' : i < j => outbox'[i].n < outbox'[j].n
        /\ \A i \in DOMAIN outbox' : outbox'[i].from = "here" /\ outbox'[i].n <= sent'
    BY <1>1, <1>2, <1>3, <1>4, <1>7, <1>8 DEF Numbered
  <2>2. /\ \A i \in DOMAIN log', j \in DOMAIN outbox' :
              /\ log'[i].n # outbox'[j].n
              /\ log'[i].from = "here" => log'[i].n < outbox'[j].n
    BY <1>0, <1>1, <1>2, <1>7, <1>8 DEF Numbered
  <2>3. \A i \in DOMAIN log' : log'[i].n <= sent'
    BY <1>0, <1>1, <1>4, <1>8
  <2>4. \A l, k \in Written' : k.n < l.n /\ l \in known' => k \in known'
    <3>1. \A l \in known : l \in Held
      BY DEF Held
    <3> QED
      BY <1>0, <1>1, <1>2, <1>6, <1>8, <3>1 DEF Numbered, Held
  <2> QED
    BY <1>0, <2>1, <2>2, <2>3, <2>4 DEF Numbered
<1>10. Carried
  BY <1>0, <1>1, <1>2, <1>3, <1>4, <1>6 DEF Carried, Held
<1> QED
  BY <1>5, <1>9, <1>10

LEMMA SendingThere ==
    ASSUME CloudOK, Numbered, NEW o \in Order, SendThere(o)
    PROVE  CloudOK' /\ Numbered' /\ Carried
<1> DEFINE m == [order |-> o, from |-> "there", n |-> sent + 1]
<1>0. /\ log' = Append(log, m) /\ sent < MaxMessages
      /\ UNCHANGED <<outbox, known, skew, told, starting, chat, screen>>
  BY DEF SendThere
<1>1. sent \in Nat /\ Len(log) \in Nat /\ Len(outbox) \in Nat /\ sent = Len(log) + Len(outbox)
  BY Sequences DEF CloudOK, sent
<1>2. m \in Message /\ m.n = sent + 1 /\ m.from = "there"
  BY <1>0, <1>1, ChatAssumption DEF Message
<1> HIDE DEF m
<1>3. /\ log' \in Seq(Message) /\ Len(log') = Len(log) + 1
      /\ DOMAIN log = 1 .. Len(log) /\ DOMAIN log' = 1 .. Len(log) + 1
      /\ \A i \in 1 .. Len(log) : log'[i] = log[i]
      /\ log'[Len(log) + 1] = m
      /\ Range(log') = Range(log) \cup {m}
  BY <1>0, <1>2, AppendRange DEF CloudOK
<1>4. sent' = sent + 1
  BY <1>0, <1>1, <1>3 DEF sent
<1>5. CloudOK'
  BY <1>0, <1>1, <1>3, <1>4, ChatAssumption DEF CloudOK
<1>6. Written' = Written
  BY <1>0, <1>2, <1>3 DEF Written
<1>7. \A i \in DOMAIN log' : \/ i \in DOMAIN log /\ log'[i] = log[i]
                             \/ i = Len(log) + 1 /\ log'[i] = m
  BY <1>1, <1>3
<1>8. /\ \A i \in DOMAIN log : log[i].n \in Int /\ log[i].n <= sent
      /\ \A i \in DOMAIN outbox : outbox[i].n \in Int /\ outbox[i].n <= sent
  BY Sequences DEF Numbered
<1>9. Numbered'
  <2>1. /\ \A i, j \in DOMAIN log' : log'[i].n = log'[j].n => i = j
        /\ \A i \in DOMAIN log' : log'[i].n <= sent'
    BY <1>1, <1>2, <1>4, <1>7, <1>8 DEF Numbered
  <2>2. \A i \in DOMAIN log', j \in DOMAIN outbox' :
              /\ log'[i].n # outbox'[j].n
              /\ log'[i].from = "here" => log'[i].n < outbox'[j].n
    BY <1>0, <1>1, <1>2, <1>7, <1>8 DEF Numbered
  <2>3. \A i, j \in DOMAIN log' :
           log'[i].from = "here" /\ log'[j].from = "here" /\ i < j => log'[i].n < log'[j].n
    BY <1>2, <1>7 DEF Numbered
  <2>4. \A i \in DOMAIN outbox' : outbox'[i].n <= sent'
    BY <1>0, <1>1, <1>4, <1>8
  <2> QED
    BY <1>0, <1>6, <2>1, <2>2, <2>3, <2>4 DEF Numbered
<1>10. Carried
  <2>1. \A i \in DOMAIN log : i \in DOMAIN log' /\ log'[i] = log[i]
    BY <1>1, <1>3
  <2> QED
    BY <1>0, <1>1, <1>2, <1>3, <1>4, <1>6, <2>1 DEF Carried, Held
<1> QED
  BY <1>5, <1>9, <1>10

LEMMA Committing ==
    ASSUME CloudOK, Numbered, Commit
    PROVE  CloudOK' /\ Numbered' /\ Carried
<1> DEFINE m == Head(outbox)
<1>0. /\ log' = Append(log, m) /\ outbox # <<>> /\ outbox' = Tail(outbox)
      /\ UNCHANGED <<known, skew, told, starting, chat, screen>>
  BY DEF Commit
<1>1. sent \in Nat /\ Len(log) \in Nat /\ Len(outbox) \in Nat /\ sent = Len(log) + Len(outbox)
  BY Sequences DEF CloudOK, sent
<1>2. /\ m \in Message /\ m = outbox[1] /\ 1 \in DOMAIN outbox
      /\ outbox' \in Seq(Message) /\ Len(outbox') = Len(outbox) - 1
      /\ \A i \in DOMAIN outbox' : i + 1 \in DOMAIN outbox /\ outbox'[i] = outbox[i + 1]
      /\ Range(outbox) = Range(outbox') \cup {m}
      /\ DOMAIN outbox' = 1 .. Len(outbox) - 1
  BY <1>0, TailRange DEF CloudOK
<1> HIDE DEF m
<1>3. /\ log' \in Seq(Message) /\ Len(log') = Len(log) + 1
      /\ DOMAIN log = 1 .. Len(log) /\ DOMAIN log' = 1 .. Len(log) + 1
      /\ \A i \in 1 .. Len(log) : log'[i] = log[i]
      /\ log'[Len(log) + 1] = m
      /\ Range(log') = Range(log) \cup {m}
  BY <1>0, <1>2, AppendRange DEF CloudOK
<1>4. sent' = sent
  BY <1>0, <1>1, <1>2, <1>3 DEF sent
<1>5. CloudOK'
  BY <1>0, <1>2, <1>3, <1>4 DEF CloudOK
<1>6. m.from = "here"
  BY <1>2 DEF Numbered
<1>7. Written' = Written
  BY <1>2, <1>3, <1>6 DEF Written
<1>8. \A i \in DOMAIN log' : \/ i \in DOMAIN log /\ log'[i] = log[i]
                             \/ i = Len(log) + 1 /\ log'[i] = m
  BY <1>1, <1>3
<1>9. /\ \A i \in DOMAIN log : log[i].n \in Int /\ log[i].n <= sent
      /\ \A i \in DOMAIN outbox : outbox[i].n \in Int /\ outbox[i].n <= sent
  BY Sequences DEF Numbered
<1>10. /\ m.n \in Int /\ m.n <= sent
       /\ \A i \in DOMAIN log : log[i].n # m.n /\ (log[i].from = "here" => log[i].n < m.n)
  BY <1>2, <1>9 DEF Numbered
<1>11. \A i \in DOMAIN outbox' : m.n < outbox'[i].n
  BY <1>2 DEF Numbered
<1>12. Numbered'
  <2>1. /\ \A i, j \in DOMAIN log' : log'[i].n = log'[j].n => i = j
        /\ \A i \in DOMAIN log' : log'[i].n <= sent'
    BY <1>4, <1>8, <1>9, <1>10 DEF Numbered
  <2>2. ASSUME NEW i \in DOMAIN log', NEW j \in DOMAIN outbox'
        PROVE  /\ log'[i].n # outbox'[j].n
               /\ log'[i].from = "here" => log'[i].n < outbox'[j].n
    <3>1. j + 1 \in DOMAIN outbox /\ outbox'[j] = outbox[j + 1] /\ outbox'[j].n \in Int
      BY <1>2, <1>9
    <3>2. CASE i \in DOMAIN log /\ log'[i] = log[i]
      BY <3>1, <3>2 DEF Numbered
    <3>3. CASE log'[i] = m
      BY <1>10, <1>11, <3>1, <3>3
    <3> QED
      BY <1>8, <3>2, <3>3
  <2>3. ASSUME NEW i \in DOMAIN log', NEW j \in DOMAIN log',
               log'[i].from = "here", log'[j].from = "here", i < j
        PROVE  log'[i].n < log'[j].n
    <3>1. i \in DOMAIN log /\ log'[i] = log[i]
      BY <1>1, <1>3, <2>3
    <3>2. CASE j \in DOMAIN log /\ log'[j] = log[j]
      BY <2>3, <3>1, <3>2 DEF Numbered
    <3>3. CASE log'[j] = m
      BY <1>10, <2>3, <3>1, <3>3
    <3> QED
      BY <1>8, <3>2, <3>3
  <2>4. \A i, j \in DOMAIN outbox' : i < j => outbox'[i].n < outbox'[j].n
    <3>1. \A i, j \in DOMAIN outbox' : i < j => i + 1 < j + 1
      BY <1>1, <1>2
    <3> QED
      BY <1>2, <3>1 DEF Numbered
  <2>5. \A i \in DOMAIN outbox' : outbox'[i].from = "here" /\ outbox'[i].n <= sent'
    BY <1>2, <1>4, <1>9 DEF Numbered
  <2> QED
    BY <1>0, <1>7, <2>1, <2>2, <2>3, <2>4, <2>5 DEF Numbered
<1>13. Carried
  <2>1. \A i \in DOMAIN log : i \in DOMAIN log' /\ log'[i] = log[i]
    BY <1>1, <1>3
  <2>2. Len(log) + 1 \in DOMAIN log'
    BY <1>1, <1>3
  <2> QED
    BY <1>0, <1>1, <1>2, <1>3, <1>4, <1>7, <2>1, <2>2 DEF Carried, Held
<1> QED
  BY <1>5, <1>12, <1>13

LEMMA BeingTold ==
    ASSUME CloudOK, Numbered, (\E m \in Message : Acknowledge(m)) \/ CatchUp
    PROVE  CloudOK' /\ Numbered' /\ Carried
<1>1. /\ UNCHANGED <<log, outbox, skew, told, starting, chat, screen>>
      /\ known \subseteq known' /\ known' \subseteq Range(log)
      /\ \A m, k \in Written : k.n < m.n /\ m \in known' => k \in known'
  <2>1. ASSUME NEW m \in Message, Acknowledge(m)
        PROVE  /\ UNCHANGED <<log, outbox, skew, told, starting, chat, screen>>
               /\ known \subseteq known' /\ known' \subseteq Range(log)
               /\ \A l, k \in Written : k.n < l.n /\ l \in known' => k \in known'
    BY <2>1 DEF Acknowledge, CloudOK, Numbered, Pending
  <2>2. ASSUME CatchUp
        PROVE  /\ UNCHANGED <<log, outbox, skew, told, starting, chat, screen>>
               /\ known \subseteq known' /\ known' \subseteq Range(log)
               /\ \A l, k \in Written : k.n < l.n /\ l \in known' => k \in known'
    BY <2>2, Numbers DEF CatchUp, CloudOK
  <2> QED
    BY <2>1, <2>2
<1>2. sent' = sent /\ Written' = Written
  BY <1>1 DEF sent, Written
<1>3. Len(log) \in Nat /\ sent \in Nat
  BY Sequences DEF CloudOK
<1>4. CloudOK'
  BY <1>1, <1>2 DEF CloudOK
<1>5. Numbered'
  BY <1>1, <1>2 DEF Numbered
<1>6. Carried
  BY <1>1, <1>2, <1>3 DEF Carried, Held
<1> QED
  BY <1>4, <1>5, <1>6

LEMMA CloudSteps ==
    ASSUME CloudOK, Numbered, open \in Order \cup {none},
           \/ SendHere \/ Commit \/ CatchUp
           \/ \E o \in Order : SendThere(o)
           \/ \E m \in Message : Acknowledge(m)
    PROVE  CloudOK' /\ Numbered' /\ Carried
BY SendingHere, SendingThere, Committing, BeingTold

\* A message that has the server's time keeps it.
LEMMA TimesStay ==
    ASSUME CloudOK, Numbered, Numbered', Carried
    PROVE  \A m \in Range(log) : m \in Range(log') /\ ServerTime(m)' = ServerTime(m)
<1> SUFFICES ASSUME NEW m \in Range(log)
             PROVE  m \in Range(log') /\ ServerTime(m)' = ServerTime(m)
  OBVIOUS
<1>1. PICK i \in 1 .. Len(log) : log[i] = m /\ ServerTime(m) = 2 * i
  BY Places
<1>2. i \in DOMAIN log' /\ log'[i] = m
  BY <1>1, Sequences DEF Carried
<1>3. m \in Range(log')
  BY <1>2 DEF Range
<1> DEFINE j == CHOOSE j \in DOMAIN log' : log'[j] = m
<1>4. j \in DOMAIN log' /\ log'[j] = m
  BY <1>2
<1>5. j = i
  BY <1>2, <1>4 DEF Numbered
<1>6. ServerTime(m)' = 2 * j
  BY DEF ServerTime
<1> QED
  BY <1>1, <1>3, <1>5, <1>6

\* The phone's own messages are acknowledged in the order they were written.
LEMMA Clocks ==
    ASSUME CloudOK, Numbered
    PROVE  /\ PhoneClock \in Int /\ (skew = 0 => PhoneClock = 2 * Len(log) + 1)
           /\ \A m \in Range(log) : /\ ServerTime(m) \in Int /\ ServerTime(m) < 2 * Len(log) + 1
                                    /\ ServerTime(m) > 0
           /\ \A m \in Held : Pending(m) => m \in Written
           /\ \A m \in Held : ~Pending(m) => m \in Range(log) /\ m \notin Range(outbox)
           /\ \A m \in Held : m.from = "here" => m \in Written
           /\ \A m, k \in Written : k.n < m.n /\ Pending(k) => Pending(m)
<1>1. skew \in Int /\ Len(log) \in Nat
  BY Sequences, ChatAssumption DEF CloudOK
<1>2. PhoneClock \in Int /\ (skew = 0 => PhoneClock = 2 * Len(log) + 1)
  BY <1>1 DEF PhoneClock
<1>3. ASSUME NEW m \in Range(log)
      PROVE  ServerTime(m) \in Int /\ ServerTime(m) < 2 * Len(log) + 1 /\ ServerTime(m) > 0
  <2>1. PICK i \in 1 .. Len(log) : log[i] = m /\ ServerTime(m) = 2 * i
    BY Places
  <2> QED
    BY <1>1, <2>1
<1>4. \A m \in Held : ~Pending(m) => m \in Range(log) /\ m \notin Range(outbox)
  BY Numbers DEF Pending, CloudOK
<1>5. \A m \in Held : m.from = "here" => m \in Written
  BY DEF Held, Written, CloudOK
<1>6. \A m, k \in Written : k.n < m.n /\ Pending(k) => Pending(m)
  BY DEF Numbered, Pending
<1>7. \A m \in Held : Pending(m) => m \in Written
  BY DEF Held, Pending
<1> QED
  BY <1>2, <1>3, <1>4, <1>5, <1>6, <1>7

-----------------------------------------------------------------------------
(* The listeners' additions.                                               *)

LEMMA HeldIsFinite ==
    ASSUME CloudOK, Numbered
    PROVE  IsFiniteSet(Held)
<1>1. ASSUME NEW S, NEW s \in Seq(S) PROVE IsFiniteSet(Range(s))
  <2>1. Len(s) \in Nat /\ s \in [1 .. Len(s) -> Range(s)]
    BY <1>1, LenProperties DEF Range
  <2>2. s \in Surjection(1 .. Len(s), Range(s))
    BY <2>1 DEF Surjection, Range
  <2>3. IsFiniteSet(1 .. Len(s))
    BY <2>1, FS_Interval
  <2> QED
    BY <2>2, <2>3, FS_Surjection
<1>2. IsFiniteSet(Range(log)) /\ IsFiniteSet(Range(outbox))
  BY <1>1 DEF CloudOK
<1>3. IsFiniteSet(Range(log) \cup Range(outbox))
  BY <1>2, FS_Union
<1>4. Held \in SUBSET (Range(log) \cup Range(outbox))
  BY Numbers
<1> QED
  BY <1>3, <1>4, FS_Subset

\* The query lists each message once.
LEMMA Queried ==
    ASSUME CloudOK, Numbered, NEW M \in SUBSET Held
    PROVE  /\ InQueryOrder(M) \in [1 .. Cardinality(M) -> M] /\ Cardinality(M) \in Nat
           /\ \A m \in M : \E i \in 1 .. Cardinality(M) : InQueryOrder(M)[i] = m
           /\ \A i, j \in 1 .. Cardinality(M) : InQueryOrder(M)[i] = InQueryOrder(M)[j] => i = j
<1> DEFINE above == [m \in M |-> {k \in M : k # m /\ Before(k, m)}]
<1>1. IsFiniteSet(M) /\ DOMAIN above = M
  BY HeldIsFinite, FS_Subset
<1>2. /\ \A m \in M : m.n \in Int
      /\ \A m, k \in M : m.n = k.n => m = k
  BY Numbers
<1>3. \A m \in M : ~Pending(m) => \E i \in 1 .. Len(log) : log[i] = m /\ ServerTime(m) = 2 * i
  BY Clocks, Places
<1>4. /\ \A m \in M : ~Pending(m) => ServerTime(m) \in Int
      /\ \A m, k \in M : ~Pending(m) /\ ~Pending(k) /\ ServerTime(m) = ServerTime(k) => m = k
  <2>1. Len(log) \in Nat
    BY Sequences
  <2>2. ASSUME NEW m \in M, NEW k \in M, ~Pending(m), ~Pending(k), ServerTime(m) = ServerTime(k)
        PROVE  m = k
    <3>1. PICK i \in 1 .. Len(log) : log[i] = m /\ ServerTime(m) = 2 * i
      BY <1>3, <2>2
    <3>2. PICK j \in 1 .. Len(log) : log[j] = k /\ ServerTime(k) = 2 * j
      BY <1>3, <2>2
    <3>3. 2 * i = 2 * j
      BY <2>2, <3>1, <3>2
    <3>4. i = j
      BY <2>1, <3>3
    <3> QED
      BY <3>1, <3>2, <3>4
  <2>3. \A m \in M : ~Pending(m) => ServerTime(m) \in Int
    BY Clocks
  <2> QED
    BY <2>2, <2>3
<1>5. \A m \in M : above[m] \subseteq M /\ m \notin above[m]
  OBVIOUS
<1>6. ASSUME NEW m \in M, NEW k \in above[m] PROVE above[k] \subseteq above[m]
  <2>1. k \in M /\ k # m /\ Before(k, m)
    OBVIOUS
  <2>2. ASSUME NEW l \in above[k] PROVE l \in above[m]
    <3>1. l \in M /\ l # k /\ Before(l, k)
      BY <2>1
    <3>2. Before(l, m) /\ l # m
      BY <1>2, <1>4, <2>1, <3>1 DEF Before
    <3> QED
      BY <3>1, <3>2
  <2> QED
    BY <2>2
<1>7. ASSUME NEW m \in M, NEW k \in M, m # k PROVE m \in above[k] \/ k \in above[m]
  <2>1. Before(m, k) \/ Before(k, m)
    BY <1>2, <1>4, <1>7 DEF Before
  <2> QED
    BY <1>7, <2>1
<1>8. InQueryOrder(M) = InOrder(above)
  BY DEF InQueryOrder
<1> HIDE DEF above
<1>9. /\ InOrder(above) \in [1 .. Cardinality(M) -> M] /\ Cardinality(M) \in Nat
      /\ \A m \in M : \E i \in DOMAIN InOrder(above) : InOrder(above)[i] = m
      /\ \A i, j \in DOMAIN InOrder(above) : InOrder(above)[i] = InOrder(above)[j] => i = j
  BY <1>1, <1>5, <1>6, <1>7, Sorting
<1>10. DOMAIN InOrder(above) = 1 .. Cardinality(M)
  BY <1>9
<1> QED
  BY <1>8, <1>9, <1>10

Entry == [msg : Message, timeSent : Int]

\* The messages of the array.
Shown == {chat[i].msg : i \in DOMAIN chat}

\* A listener's body leaves what is in the array and adds, at its end, what it
\* was told and is not there yet, each message once.
LEMMA Appending ==
    ASSUME CloudOK, Numbered, chat \in Seq(Entry),
           \A i, j \in DOMAIN chat : chat[i].msg = chat[j].msg => i = j,
           NEW added \in SUBSET Held, chat' = Appended(added)
    PROVE  /\ chat' \in Seq(Entry)
           /\ DOMAIN chat = 1 .. Len(chat) /\ Len(chat) \in Nat
           /\ \A i \in DOMAIN chat : i \in DOMAIN chat' /\ chat'[i] = chat[i]
           /\ \A i \in DOMAIN chat' : i \notin DOMAIN chat =>
                 /\ i \in Nat /\ i > Len(chat)
                 /\ chat'[i].msg \in added \ Shown
                 /\ chat'[i].timeSent = IF Pending(chat'[i].msg)
                                        THEN PhoneClock ELSE ServerTime(chat'[i].msg)
           /\ Shown' = Shown \cup added
           /\ \A i, j \in DOMAIN chat' : chat'[i].msg = chat'[j].msg => i = j
<1> DEFINE M == added \ {e.msg : e \in Range(chat)}
           q == InQueryOrder(M)
           n == Cardinality(M)
           E == Entries(q)
<1>1. M = added \ Shown
  BY DEF Shown, Range
<1>2. M \in SUBSET Held
  OBVIOUS
<1> HIDE DEF M
<1>3. /\ q \in [1 .. n -> M] /\ n \in Nat /\ DOMAIN q = 1 .. n
      /\ \A m \in M : \E i \in 1 .. n : q[i] = m
      /\ \A i, j \in 1 .. n : q[i] = q[j] => i = j
  BY <1>2, Queried
<1> HIDE DEF q
<1>4. /\ DOMAIN E = 1 .. n
      /\ \A i \in 1 .. n :
            /\ E[i] = [msg |-> q[i],
                       timeSent |-> IF Pending(q[i]) THEN PhoneClock ELSE ServerTime(q[i])]
            /\ E[i].msg = q[i]
            /\ E[i].timeSent = IF Pending(q[i]) THEN PhoneClock ELSE ServerTime(q[i])
  BY <1>3 DEF Entries
<1>5. \A i \in 1 .. n : q[i] \in Held
  BY <1>2, <1>3
<1>6. ASSUME NEW i \in 1 .. n PROVE E[i] \in Entry
  <2>1. q[i] \in Message
    BY <1>5, Numbers
  <2>2. (IF Pending(q[i]) THEN PhoneClock ELSE ServerTime(q[i])) \in Int
    BY <1>5, Clocks
  <2> QED
    BY <1>4, <2>1, <2>2 DEF Entry
<1>7. E \in [1 .. n -> Entry]
  <2>1. E = [i \in 1 .. n |-> E[i]]
    BY <1>3 DEF Entries
  <2> QED
    BY <1>6, <2>1
<1> HIDE DEF E
<1>8. E \in Seq(Entry) /\ Len(E) = n
  BY <1>3, <1>7, LenProperties, SeqDef
<1>9. chat' = chat \o E
  BY DEF Appended, M, q, E
<1>10. Len(chat) \in Nat /\ DOMAIN chat = 1 .. Len(chat)
  BY LenProperties
<1>11. /\ chat' \in Seq(Entry)
       /\ Len(chat') = Len(chat) + n
       /\ \A i \in 1 .. Len(chat) + n : chat'[i] = IF i <= Len(chat) THEN chat[i] ELSE E[i - Len(chat)]
  <2>1. /\ chat \o E \in Seq(Entry)
        /\ Len(chat \o E) = Len(chat) + n
        /\ \A i \in 1 .. Len(chat) + n :
              (chat \o E)[i] = IF i <= Len(chat) THEN chat[i] ELSE E[i - Len(chat)]
    <3>1. /\ chat \o E \in Seq(Entry)
          /\ Len(chat \o E) = Len(chat) + Len(E)
          /\ \A i \in 1 .. Len(chat) + Len(E) :
                (chat \o E)[i] = IF i <= Len(chat) THEN chat[i] ELSE E[i - Len(chat)]
      BY <1>8, ConcatProperties, Zenon
    <3> QED
      BY <1>8, <3>1
  <2> DEFINE c == chat \o E
  <2>2. chat' = c
    BY <1>9
  <2>3. /\ c \in Seq(Entry)
        /\ Len(c) = Len(chat) + n
        /\ \A i \in 1 .. Len(chat) + n :
              c[i] = IF i <= Len(chat) THEN chat[i] ELSE E[i - Len(chat)]
    BY <2>1
  <2> HIDE DEF c
  <2> QED
    BY <2>2, <2>3
<1>12. DOMAIN chat' = 1 .. Len(chat) + n
  BY <1>11, LenProperties
<1>13. \A i \in DOMAIN chat : i \in DOMAIN chat' /\ chat'[i] = chat[i]
  BY <1>3, <1>10, <1>11, <1>12
<1>14. \A i \in DOMAIN chat' : i \notin DOMAIN chat =>
          /\ i \in Nat /\ i > Len(chat) /\ i - Len(chat) \in 1 .. n
          /\ chat'[i] = E[i - Len(chat)]
  BY <1>3, <1>10, <1>11, <1>12
<1>15. \A i \in DOMAIN chat' : i \notin DOMAIN chat =>
          /\ chat'[i].msg = q[i - Len(chat)] /\ chat'[i].msg \in added \ Shown
          /\ chat'[i].timeSent = IF Pending(chat'[i].msg)
                                 THEN PhoneClock ELSE ServerTime(chat'[i].msg)
  <2> SUFFICES ASSUME NEW i \in DOMAIN chat', i \notin DOMAIN chat
               PROVE  /\ chat'[i].msg = q[i - Len(chat)] /\ chat'[i].msg \in added \ Shown
                      /\ chat'[i].timeSent = IF Pending(chat'[i].msg)
                                             THEN PhoneClock ELSE ServerTime(chat'[i].msg)
    OBVIOUS
  <2>1. i - Len(chat) \in 1 .. n /\ chat'[i] = E[i - Len(chat)]
    BY <1>14
  <2>2. /\ chat'[i].msg = q[i - Len(chat)] /\ q[i - Len(chat)] \in M
        /\ chat'[i].timeSent = IF Pending(q[i - Len(chat)])
                               THEN PhoneClock ELSE ServerTime(q[i - Len(chat)])
    BY <1>3, <1>4, <2>1
  <2>3. /\ chat'[i].msg = q[i - Len(chat)] /\ chat'[i].msg \in added \ Shown
    BY <1>1, <2>2
  <2> QED
    BY <2>2, <2>3
<1>16. ASSUME NEW i \in DOMAIN chat', NEW j \in DOMAIN chat', chat'[i].msg = chat'[j].msg
       PROVE  i = j
  <2>1. \A k \in DOMAIN chat : chat'[k].msg \in Shown
    BY <1>13 DEF Shown
  <2>2. CASE i \in DOMAIN chat /\ j \in DOMAIN chat
    BY <1>13, <1>16, <2>2
  <2>3. CASE i \notin DOMAIN chat /\ j \notin DOMAIN chat
    <3>1. q[i - Len(chat)] = q[j - Len(chat)]
      BY <1>15, <1>16, <2>3
    <3>2. i - Len(chat) = j - Len(chat)
      BY <1>3, <1>14, <2>3, <3>1
    <3> QED
      BY <1>10, <1>14, <2>3, <3>2
  <2>4. CASE i \in DOMAIN chat /\ j \notin DOMAIN chat
    BY <1>15, <1>16, <2>1, <2>4
  <2>5. CASE i \notin DOMAIN chat /\ j \in DOMAIN chat
    BY <1>15, <1>16, <2>1, <2>5
  <2> QED
    BY <2>2, <2>3, <2>4, <2>5
<1>17. ASSUME NEW x PROVE x \in Shown' <=> x \in Shown \cup added
  <2>1. ASSUME x \in Shown' PROVE x \in Shown \cup added
    <3>1. PICK i \in DOMAIN chat' : chat'[i].msg = x
      BY <2>1 DEF Shown
    <3> QED
      BY <1>13, <1>15, <3>1 DEF Shown
  <2>2. ASSUME x \in Shown PROVE x \in Shown'
    <3>1. PICK i \in DOMAIN chat : chat[i].msg = x
      BY <2>2 DEF Shown
    <3> QED
      BY <1>13, <3>1 DEF Shown
  <2>3. ASSUME x \in added \ Shown PROVE x \in Shown'
    <3>1. PICK k \in 1 .. n : q[k] = x
      BY <1>1, <1>3, <2>3
    <3>2. /\ k + Len(chat) \in DOMAIN chat' /\ k + Len(chat) \notin DOMAIN chat
          /\ (k + Len(chat)) - Len(chat) = k
      BY <1>3, <1>10, <1>12
    <3>3. chat'[k + Len(chat)].msg = x
      BY <1>15, <3>1, <3>2
    <3> QED
      BY <3>2, <3>3 DEF Shown
  <2> QED
    BY <2>1, <2>2, <2>3
<1>18. Shown' = Shown \cup added
  BY <1>17
<1> QED
  BY <1>10, <1>11, <1>13, <1>14, <1>15, <1>16, <1>18

\* The view shows each message of the array once, by the time it has there.
LEMMA Sorted ==
    ASSUME chat \in Seq(Entry)
    PROVE  /\ NewestFirst(chat) \in Seq(Message)
           /\ Range(NewestFirst(chat)) \subseteq Shown
           /\ \A i, j \in DOMAIN chat : Newer(chat, i, j) =>
                 \E k, l \in DOMAIN NewestFirst(chat) :
                    k < l /\ NewestFirst(chat)[k] = chat[i].msg /\ NewestFirst(chat)[l] = chat[j].msg
           /\ (\A i, j \in DOMAIN chat : chat[i].msg = chat[j].msg => i = j) =>
                 \A k, l \in DOMAIN NewestFirst(chat) :
                    NewestFirst(chat)[k] = NewestFirst(chat)[l] => k = l
<1> DEFINE D == DOMAIN chat
           above == [j \in D |-> {i \in D : Newer(chat, i, j)}]
           at == InOrder(above)
           n == Cardinality(D)
<1>1. /\ Len(chat) \in Nat /\ D = 1 .. Len(chat) /\ \A i \in D : i \in Int
      /\ \A i \in D : chat[i] \in Entry
  BY LenProperties
<1>2. \A i \in D : chat[i].msg \in Message /\ chat[i].timeSent \in Int
  BY <1>1 DEF Entry
<1>3. IsFiniteSet(D) /\ DOMAIN above = D
  BY <1>1, FS_Interval
<1>4. \A i \in D : above[i] \subseteq D /\ i \notin above[i]
  BY <1>1, <1>2 DEF Newer
<1>5. \A i \in D : \A j \in above[i] : above[j] \subseteq above[i]
  BY <1>1, <1>2 DEF Newer
<1>6. \A i, j \in D : i # j => i \in above[j] \/ j \in above[i]
  BY <1>1, <1>2 DEF Newer
<1>7. \A i, j \in D : i \in above[j] <=> Newer(chat, i, j)
  OBVIOUS
<1> HIDE DEF above
<1>8. /\ at \in [1 .. n -> D] /\ n \in Nat /\ DOMAIN at = 1 .. n
      /\ \A j \in D : \E k \in DOMAIN at : at[k] = j
      /\ \A k, l \in DOMAIN at : k < l => at[k] \in above[at[l]]
      /\ \A k, l \in DOMAIN at : at[k] = at[l] => k = l
  <2>1. /\ at \in [1 .. n -> D] /\ n \in Nat
        /\ \A j \in D : \E k \in DOMAIN at : at[k] = j
        /\ \A k, l \in DOMAIN at : k < l => at[k] \in above[at[l]]
        /\ \A k, l \in DOMAIN at : at[k] = at[l] => k = l
    BY <1>3, <1>4, <1>5, <1>6, Sorting
  <2> QED
    BY <2>1
<1>9. NewestFirst(chat) = [k \in DOMAIN at |-> chat[at[k]].msg]
  BY DEF NewestFirst, above
<1> HIDE DEF at
<1>10. /\ DOMAIN NewestFirst(chat) = 1 .. n
       /\ \A k \in 1 .. n : /\ NewestFirst(chat)[k] = chat[at[k]].msg /\ at[k] \in D
                            /\ NewestFirst(chat)[k] \in Message
  BY <1>2, <1>8, <1>9
<1>11. NewestFirst(chat) \in [1 .. n -> Message]
  BY <1>2, <1>8, <1>9
<1>12. NewestFirst(chat) \in Seq(Message)
  BY <1>8, <1>11, SeqDef
<1>13. Range(NewestFirst(chat)) \subseteq Shown
  BY <1>10 DEF Range, Shown
<1>14. ASSUME NEW i \in D, NEW j \in D, Newer(chat, i, j)
       PROVE  \E k, l \in DOMAIN NewestFirst(chat) :
                 k < l /\ NewestFirst(chat)[k] = chat[i].msg /\ NewestFirst(chat)[l] = chat[j].msg
  <2>1. PICK k \in 1 .. n : at[k] = i
    BY <1>8
  <2>2. PICK l \in 1 .. n : at[l] = j
    BY <1>8
  <2>3. i \in above[j] /\ j \notin above[i] /\ i # j
    BY <1>4, <1>5, <1>7, <1>14
  <2>4. k < l
    BY <1>8, <2>1, <2>2, <2>3
  <2> QED
    BY <1>10, <2>1, <2>2, <2>4
<1>15. ASSUME \A i, j \in D : chat[i].msg = chat[j].msg => i = j,
              NEW k \in 1 .. n, NEW l \in 1 .. n, NewestFirst(chat)[k] = NewestFirst(chat)[l]
       PROVE  k = l
  BY <1>8, <1>10, <1>15
<1> QED
  BY <1>10, <1>12, <1>13, <1>14, <1>15

-----------------------------------------------------------------------------
(* The invariant.                                                          *)

ScreenOK ==
    /\ DOMAIN told \subseteq Order /\ starting \subseteq Order
    /\ chat \in Seq(Entry)
    /\ open \in Order \cup {none} /\ refreshes \in Nat
    /\ msgs \in Seq(Message) /\ nomsgs \in BOOLEAN
    /\ heard \subseteq Message /\ waiting \subseteq Message /\ since \in 0 .. sent

\* What the listeners were told is in the query's answer, the array has each
\* message once and none the listeners were not told, and all that those of the
\* open chat were told unless the newest of them was told nothing yet.
Listening ==
    /\ \A o \in DOMAIN told : told[o] \subseteq Answer(o)
    /\ \A m \in Shown : m.order \in DOMAIN told /\ m \in told[m.order]
    /\ \A i, j \in DOMAIN chat : chat[i].msg = chat[j].msg => i = j
    /\ open # none /\ open \notin starting =>
          open \in DOMAIN told /\ told[open] \subseteq Shown

\* What was heard before the chat was opened, the listeners of other orders do
\* not tell again: only a new listener is told everything, and the only one that
\* can be attached is the open chat's.
Hearing ==
    /\ open = none => heard = {}
    /\ \A m \in heard : /\ m.order \in DOMAIN told /\ m \in told[m.order]
                        /\ m.order \in starting => m.order = open
                        /\ m \in Shown => m.order = open

Showing ==
    /\ open = none => msgs = <<>> /\ refreshes = 0
    /\ Range(msgs) \subseteq Shown
    /\ \A i, j \in DOMAIN msgs : msgs[i] = msgs[j] => i = j

\* Whatever did not leave this phone since the chat was opened is in the array
\* with the server's time.
Timing ==
    open # none =>
       /\ \A m \in Written : Pending(m) /\ m.n <= since => m \in waiting
       /\ \A i \in DOMAIN chat :
             LET m == chat[i].msg IN
             ~Hurried(m) => m \in known /\ chat[i].timeSent = ServerTime(m)

Own(m)       == m.from = "here" /\ m.order = open
Waited(m, k) == m \in waiting /\ k \in waiting

\* An entry of the array and a message that is not there yet: wherever that
\* one will be put, it will be on the right side of the entry.
Placed(e, k) ==
    \/ Waited(e.msg, k)
    \/ e.msg.n < k.n /\ (k \in Range(outbox) \/ ServerTime(k) > e.timeSent)
    \/ k.n < e.msg.n /\ k \in Range(log) /\ ServerTime(k) < e.timeSent

\* Before a message is written here, the array has all the earlier ones.  With a
\* right clock, the entries of the phone's own messages have the times that put
\* them in the order they were written, and leave room for those that miss.
OwnTimes ==
    open # none =>
       /\ \A m, k \in Written : Own(m) /\ Own(k) /\ k.n < m.n /\ since < m.n => k \in Shown
       /\ skew = 0 => \A i \in DOMAIN chat :
             /\ chat[i].timeSent <= PhoneClock
             /\ Own(chat[i].msg) =>
                   /\ \A j \in DOMAIN chat :
                         Own(chat[j].msg) /\ chat[j].msg.n < chat[i].msg.n =>
                            Waited(chat[i].msg, chat[j].msg) \/ Newer(chat, i, j)
                   /\ \A k \in Written \ Shown : Own(k) => Placed(chat[i], k)

ChatInv ==
    /\ CloudOK /\ Numbered /\ ScreenOK
    /\ Listening /\ Hearing /\ Showing /\ Timing /\ OwnTimes
    /\ OnlyOwnMisplaced /\ OwnInOrder

-----------------------------------------------------------------------------
(* Every step keeps it.                                                    *)

LEMMA ChatInit == Init => ChatInv
<1> SUFFICES ASSUME Init PROVE ChatInv
  OBVIOUS
<1>1. /\ log = <<>> /\ outbox = <<>> /\ known = {} /\ skew \in Skew
      /\ DOMAIN told = {} /\ starting = {} /\ chat = <<>> /\ open = none /\ refreshes = 0
      /\ msgs = <<>> /\ nomsgs = FALSE /\ heard = {} /\ waiting = {} /\ since = 0
  BY DEF Init
<1>2. /\ DOMAIN log = {} /\ DOMAIN outbox = {} /\ DOMAIN chat = {} /\ DOMAIN msgs = {}
      /\ Range(msgs) = {} /\ sent = 0
  BY <1>1 DEF Range, sent
<1>3. CloudOK
  BY <1>1, <1>2, ChatAssumption DEF CloudOK
<1>4. Numbered
  BY <1>1, <1>2 DEF Numbered
<1>5. ScreenOK
  <2>1. since \in 0 .. sent /\ refreshes \in Nat
    BY <1>1, <1>2
  <2>2. chat \in Seq(Entry) /\ msgs \in Seq(Message)
    BY <1>1
  <2> QED
    BY <1>1, <2>1, <2>2 DEF ScreenOK
<1>6. Shown = {}
  BY <1>2 DEF Shown
<1> QED
  BY <1>1, <1>2, <1>3, <1>4, <1>5, <1>6
  DEF ChatInv, Listening, Hearing, Showing, Timing, OwnTimes, OnlyOwnMisplaced, OwnInOrder

LEMMA CloudKeeps ==
    ASSUME ChatInv, Carried, CloudOK', Numbered'
    PROVE  ChatInv'
<1> USE DEF ChatInv
<1>0. /\ UNCHANGED <<skew, told, starting, chat, open, refreshes, msgs, nomsgs,
                    heard, waiting, since>>
      /\ Held \subseteq Held' /\ known \subseteq known' /\ Written \subseteq Written'
      /\ Len(log) <= Len(log') /\ sent <= sent'
  BY DEF Carried, screen
<1>1. /\ Len(log) \in Nat /\ Len(log') \in Nat /\ sent \in Nat /\ sent' \in Nat /\ since \in Nat
      /\ since <= sent
  <2>1. Len(log) \in Nat
    BY Sequences
  <2>2. Len(log') \in Nat
    BY LenProperties DEF CloudOK
  <2> QED
    BY <2>1, <2>2, ChatAssumption DEF CloudOK, ScreenOK
<1>2. Shown' = Shown
  BY <1>0 DEF Shown
<1>3. ScreenOK'
  BY <1>0, <1>1 DEF ScreenOK
<1>4. Listening'
  <2>1. \A o \in DOMAIN told' : told'[o] \subseteq Answer(o)'
    BY <1>0 DEF Listening, Answer
  <2> QED
    BY <1>0, <1>2, <2>1 DEF Listening
<1>5. Hearing' /\ Showing'
  BY <1>0, <1>2 DEF Hearing, Showing
<1>6. \A m \in Range(log) : m \in Range(log') /\ ServerTime(m)' = ServerTime(m)
  BY TimesStay
<1>7. \A m : Hurried(m)' = Hurried(m)
  BY <1>0 DEF Hurried
<1>8. /\ \A m \in Written : m.n \in Int /\ m.n <= sent
      /\ \A m \in Held : m.n \in Int /\ m.n <= sent
      /\ \A m, k \in Held : m.n = k.n => m = k
  BY Numbers DEF Held
<1>9. \A m \in Shown : m \in Held
  BY DEF Listening, Answer
<1>10. Timing'
  <2> SUFFICES ASSUME open # none
               PROVE  /\ \A m \in Written' : Pending(m)' /\ m.n <= since => m \in waiting
                      /\ \A i \in DOMAIN chat :
                            ~Hurried(chat[i].msg) =>
                               /\ chat[i].msg \in known'
                               /\ chat[i].timeSent = ServerTime(chat[i].msg)'
    BY <1>0, <1>7 DEF Timing
  <2>1. ASSUME NEW m \in Written', Pending(m)', m.n <= since PROVE m \in waiting
    <3>1. m \in Written
      BY <1>1, <2>1 DEF Carried
    <3>2. Pending(m)
      BY <1>0, <2>1 DEF Pending
    <3> QED
      BY <2>1, <3>1, <3>2 DEF Timing
  <2>2. ASSUME NEW i \in DOMAIN chat, ~Hurried(chat[i].msg)
        PROVE  chat[i].msg \in known' /\ chat[i].timeSent = ServerTime(chat[i].msg)'
    <3>1. chat[i].msg \in known /\ chat[i].timeSent = ServerTime(chat[i].msg)
      BY <2>2 DEF Timing
    <3>2. chat[i].msg \in Range(log)
      BY <3>1 DEF CloudOK
    <3> QED
      BY <1>0, <1>6, <3>1, <3>2
  <2> QED
    BY <2>1, <2>2
<1>11. OwnTimes'
  <2>0. \A m, k : (Own(m)' <=> Own(m)) /\ (Waited(m, k)' <=> Waited(m, k))
    BY <1>0 DEF Own, Waited
  <2>1. ASSUME open # none, NEW m \in Written', NEW k \in Written',
               Own(m), Own(k), k.n < m.n, since < m.n
        PROVE  k \in Shown
    <3>1. ASSUME k \notin Written PROVE FALSE
      <4>1. k.n = sent + 1
        BY <3>1 DEF Carried
      <4>2. m.n <= sent + 1 /\ m.n \in Int
        BY <1>1, <1>8 DEF Carried
      <4> QED
        BY <1>1, <2>1, <4>1, <4>2
    <3>2. CASE m \in Written
      BY <2>1, <3>1, <3>2 DEF OwnTimes
    <3>3. CASE m \notin Written
      <4>1. AllReported /\ (open \in starting => Answer(open) = {})
        BY <3>3 DEF Carried
      <4>2. k \in Answer(open)
        BY <2>1, <3>1 DEF Answer, Held, Own
      <4>3. open \in DOMAIN told /\ told[open] \subseteq Shown
        BY <2>1, <4>1, <4>2 DEF Listening
      <4>4. told[open] = Answer(open)
        BY <4>1, <4>3 DEF AllReported, Due
      <4> QED
        BY <4>2, <4>3, <4>4
    <3> QED
      BY <3>2, <3>3
  <2>2. skew = 0 => PhoneClock = 2 * Len(log) + 1 /\ PhoneClock' = 2 * Len(log') + 1
    BY <1>0, <1>1 DEF PhoneClock
  <2>3. \A i \in DOMAIN chat : chat[i].timeSent \in Int /\ chat[i].msg \in Held
    <3>1. \A i \in DOMAIN chat : chat[i] \in Entry
      BY LenProperties DEF ScreenOK
    <3> QED
      BY <1>9, <3>1 DEF Entry, Shown
  <2>4. ASSUME open # none, skew = 0, NEW i \in DOMAIN chat, Own(chat[i].msg),
               NEW k \in Written' \ Shown, Own(k)
        PROVE  Placed(chat[i], k)'
    <3>0. chat[i].timeSent <= 2 * Len(log) + 1 /\ chat[i].timeSent \in Int
      BY <2>2, <2>3, <2>4 DEF OwnTimes
    <3>1. CASE k \notin Written
      <4>1. k.n = sent + 1 /\ k \in Range(outbox')
        BY <3>1 DEF Carried
      <4>2. chat[i].msg.n < k.n
        BY <1>1, <1>8, <2>3, <4>1
      <4> QED
        BY <1>0, <4>1, <4>2 DEF Placed
    <3>2. CASE k \in Written
      <4>1. Placed(chat[i], k)
        BY <2>4, <3>2 DEF OwnTimes
      <4>2. CASE Waited(chat[i].msg, k)
        BY <1>0, <2>0, <4>2 DEF Placed
      <4>3. CASE chat[i].msg.n < k.n /\ k \in Range(outbox)
        <5>1. CASE k \in Range(outbox')
          BY <1>0, <4>3, <5>1 DEF Placed
        <5>2. CASE Len(log) + 1 \in DOMAIN log' /\ log'[Len(log) + 1] = k
          <6>1. \A l \in DOMAIN log' : log'[l] = k => l = Len(log) + 1
            BY <5>2 DEF Numbered
          <6>2. ServerTime(k)' = 2 * (Len(log) + 1)
            BY <5>2, <6>1 DEF ServerTime
          <6>3. ServerTime(k)' > chat[i].timeSent
            BY <1>1, <3>0, <6>2
          <6> QED
            BY <1>0, <4>3, <6>3 DEF Placed
        <5> QED
          BY <4>3, <5>1, <5>2 DEF Carried
      <4>4. CASE chat[i].msg.n < k.n /\ k \notin Range(outbox) /\ ServerTime(k) > chat[i].timeSent
        <5>1. k \in Range(log)
          BY <3>2, <4>4, Numbers
        <5> QED
          BY <1>0, <1>6, <4>4, <5>1 DEF Placed
      <4>5. CASE k.n < chat[i].msg.n /\ k \in Range(log) /\ ServerTime(k) < chat[i].timeSent
        BY <1>0, <1>6, <4>5 DEF Placed
      <4> QED
        BY <4>1, <4>2, <4>3, <4>4, <4>5 DEF Placed
    <3> QED
      BY <3>1, <3>2
  <2>5. ASSUME open # none, skew = 0, NEW i \in DOMAIN chat PROVE chat[i].timeSent <= PhoneClock'
    BY <1>0, <1>1, <2>2, <2>3, <2>5 DEF OwnTimes
  <2>6. ASSUME open # none, skew = 0, NEW i \in DOMAIN chat, NEW j \in DOMAIN chat,
               Own(chat[i].msg), Own(chat[j].msg), chat[j].msg.n < chat[i].msg.n
        PROVE  Waited(chat[i].msg, chat[j].msg) \/ Newer(chat, i, j)
    BY <2>6 DEF OwnTimes
  <2>7. \A i, j : Newer(chat, i, j)' <=> Newer(chat, i, j)
    BY <1>0 DEF Newer
  <2> QED
    BY <1>0, <1>2, <2>0, <2>1, <2>4, <2>5, <2>6, <2>7 DEF OwnTimes
<1>12. OnlyOwnMisplaced'
  <2> SUFFICES ASSUME NEW m \in Range(msgs), NEW k \in Range(msgs), Later(m, k)',
                      ~Hurried(m), ~Hurried(k)
               PROVE  Above(m, k)'
    BY <1>0, <1>7 DEF OnlyOwnMisplaced
  <2>0. open # none
    BY DEF Showing, Range
  <2>1. m \in Range(log) /\ k \in Range(log)
    BY <2>0 DEF Showing, Shown, Timing, CloudOK
  <2>2. PICK i, j \in DOMAIN log' : i > j /\ log'[i] = m /\ log'[j] = k
    BY DEF Later
  <2>3. PICK p \in DOMAIN log : log[p] = m
    BY <2>1 DEF Range
  <2>4. PICK q \in DOMAIN log : log[q] = k
    BY <2>1 DEF Range
  <2>5. p = i /\ q = j
    BY <2>2, <2>3, <2>4 DEF Carried, Numbered
  <2>6. Above(m, k)
    BY <2>2, <2>3, <2>4, <2>5 DEF OnlyOwnMisplaced, Later
  <2> QED
    BY <1>0, <2>6 DEF Above
<1>13. OwnInOrder'
  BY <1>0 DEF OwnInOrder, Above
<1> QED
  BY <1>3, <1>4, <1>5, <1>10, <1>11, <1>12, <1>13

\* What a step that leaves the messages where they are leaves as it was.
LEMMA SameCloud ==
    ASSUME UNCHANGED cloud
    PROVE  /\ (CloudOK' <=> CloudOK) /\ (Numbered' <=> Numbered)
           /\ sent' = sent /\ Held' = Held /\ Written' = Written /\ PhoneClock' = PhoneClock
           /\ \A m : Pending(m)' = Pending(m) /\ ServerTime(m)' = ServerTime(m)
           /\ \A o : Answer(o)' = Answer(o)
<1>1. log' = log /\ outbox' = outbox /\ known' = known /\ skew' = skew
  BY DEF cloud
<1>2. sent' = sent /\ Held' = Held /\ Written' = Written /\ PhoneClock' = PhoneClock
  BY <1>1 DEF sent, Held, Written, PhoneClock
<1>3. \A m : Pending(m)' = Pending(m) /\ ServerTime(m)' = ServerTime(m)
  BY <1>1 DEF Pending, ServerTime
<1>4. \A o : Answer(o)' = Answer(o)
  BY <1>2 DEF Answer
<1>5. (CloudOK' <=> CloudOK) /\ (Numbered' <=> Numbered)
  BY <1>1, <1>2 DEF CloudOK, Numbered
<1> QED
  BY <1>2, <1>3, <1>4, <1>5

LEMMA ClosingKeeps ==
    ASSUME ChatInv, Close
    PROVE  ChatInv'
<1> USE DEF ChatInv
<1>1. /\ open' = none /\ refreshes' = 0 /\ msgs' = <<>> /\ nomsgs' = FALSE
      /\ heard' = {} /\ waiting' = {} /\ since' = 0
      /\ UNCHANGED <<cloud, told, starting, chat>>
  BY DEF Close, Closed
<1>2. Range(msgs') = {} /\ DOMAIN msgs' = {} /\ Shown' = Shown /\ 0 \in 0 .. sent
  BY <1>1, ChatAssumption DEF Range, Shown, CloudOK
<1>3. ScreenOK'
  <2>1. since' \in 0 .. sent /\ refreshes' \in Nat /\ msgs' \in Seq(Message) /\ sent' = sent
    BY <1>1, <1>2, SameCloud
  <2> QED
    BY <1>1, <2>1 DEF ScreenOK
<1>4. CloudOK' /\ Numbered'
  BY <1>1, SameCloud
<1>5. Listening'
  BY <1>1, <1>2, SameCloud DEF Listening
<1>6. /\ Hearing' /\ Showing' /\ Timing' /\ OwnTimes' /\ OnlyOwnMisplaced' /\ OwnInOrder'
  BY <1>1, <1>2 DEF Hearing, Showing, Timing, OwnTimes, OnlyOwnMisplaced, OwnInOrder
<1> QED
  BY <1>3, <1>4, <1>5, <1>6

LEMMA RestartingKeeps ==
    ASSUME ChatInv, Restart
    PROVE  ChatInv'
<1> USE DEF ChatInv
<1>1. /\ open' = none /\ refreshes' = 0 /\ msgs' = <<>> /\ nomsgs' = FALSE
      /\ heard' = {} /\ waiting' = {} /\ since' = 0 /\ chat' = <<>>
      /\ DOMAIN told' = {} /\ starting' = {}
      /\ UNCHANGED cloud
  BY DEF Restart, Closed
<1>2. /\ Range(msgs') = {} /\ DOMAIN msgs' = {} /\ DOMAIN chat' = {} /\ Shown' = {}
      /\ 0 \in 0 .. sent
  BY <1>1, ChatAssumption DEF Range, Shown, CloudOK
<1>3. ScreenOK'
  <2>1. since' \in 0 .. sent /\ refreshes' \in Nat /\ sent' = sent
    BY <1>1, <1>2, SameCloud
  <2>2. chat' \in Seq(Entry) /\ msgs' \in Seq(Message)
    BY <1>1
  <2> QED
    BY <1>1, <2>1, <2>2 DEF ScreenOK
<1>4. CloudOK' /\ Numbered'
  BY <1>1, SameCloud
<1>5. /\ Listening' /\ Hearing' /\ Showing' /\ Timing' /\ OwnTimes'
      /\ OnlyOwnMisplaced' /\ OwnInOrder'
  BY <1>1, <1>2
  DEF Listening, Hearing, Showing, Timing, OwnTimes, OnlyOwnMisplaced, OwnInOrder
<1> QED
  BY <1>3, <1>4, <1>5

LEMMA OpeningKeeps ==
    ASSUME ChatInv, NEW o \in Order, Open(o)
    PROVE  ChatInv'
<1> USE DEF ChatInv
<1>1. /\ open = none /\ open' = o /\ chat' = <<>> /\ starting' = starting \cup {o}
      /\ heard' = UNION {told[k] : k \in DOMAIN told \ starting}
      /\ waiting' = {m \in Written : Pending(m)} /\ since' = sent
      /\ UNCHANGED <<cloud, told, refreshes, msgs, nomsgs>>
  BY DEF Open
<1>2. /\ open' # none /\ DOMAIN chat' = {} /\ Shown' = {}
      /\ msgs' = <<>> /\ DOMAIN msgs' = {} /\ Range(msgs') = {} /\ refreshes' = 0
  BY <1>1, ChatAssumption DEF Shown, Showing, Range
<1>3. ASSUME NEW m \in heard'
      PROVE  m.order \in DOMAIN told /\ m \in told[m.order] /\ m.order \notin starting /\ m \in Held
  <2>1. PICK k \in DOMAIN told \ starting : m \in told[k]
    BY <1>1, <1>3
  <2>2. m \in Answer(k)
    BY <2>1 DEF Listening
  <2> QED
    BY <2>1, <2>2 DEF Answer
<1>4. ScreenOK'
  <2>1. since' \in 0 .. sent /\ sent' = sent
    BY <1>1, SameCloud, ChatAssumption DEF CloudOK
  <2>2. heard' \subseteq Message /\ waiting' \subseteq Message
    BY <1>1, <1>3, Numbers
  <2>3. chat' \in Seq(Entry)
    BY <1>1
  <2> QED
    BY <1>1, <2>1, <2>2, <2>3 DEF ScreenOK
<1>5. CloudOK' /\ Numbered'
  BY <1>1, SameCloud
<1>6. Listening'
  <2>1. \A k \in DOMAIN told' : told'[k] \subseteq Answer(k)'
    BY <1>1, SameCloud DEF Listening
  <2> QED
    BY <1>1, <1>2, <2>1 DEF Listening
<1>7. Hearing'
  BY <1>1, <1>2, <1>3 DEF Hearing
<1>8. Showing'
  BY <1>2 DEF Showing
<1>9. Timing'
  BY <1>1, <1>2, SameCloud DEF Timing
<1>10. OwnTimes'
  <2>1. \A m \in Written : ~(since' < m.n)
    <3>1. \A m \in Written : m.n \in Int /\ m.n <= sent
      BY Numbers DEF Held
    <3> QED
      BY <1>1, <3>1, ChatAssumption DEF CloudOK
  <2> QED
    BY <1>1, <1>2, <2>1, SameCloud DEF OwnTimes
<1>11. OnlyOwnMisplaced' /\ OwnInOrder'
  BY <1>2 DEF OnlyOwnMisplaced, OwnInOrder
<1> QED
  BY <1>4, <1>5, <1>6, <1>7, <1>8, <1>9, <1>10, <1>11

LEMMA RefreshingKeeps ==
    ASSUME ChatInv, Refresh
    PROVE  ChatInv'
<1> USE DEF ChatInv
<1> DEFINE shows == IF chat = <<>> THEN msgs ELSE NewestFirst(chat)
<1>1. /\ refreshes > 0 /\ refreshes' = refreshes - 1 /\ nomsgs' = (chat = <<>>)
      /\ msgs' = shows
      /\ UNCHANGED <<cloud, told, starting, chat, open, heard, waiting, since>>
  BY DEF Refresh
<1>2. open # none /\ Shown' = Shown
  BY <1>1 DEF Showing, Shown
<1>3. chat \in Seq(Entry) /\ msgs \in Seq(Message) /\ refreshes \in Nat
  BY DEF ScreenOK
<1>4. /\ \A i \in DOMAIN chat : chat[i] \in Entry /\ i \in Int
      /\ \A i \in DOMAIN chat : chat[i].timeSent \in Int /\ chat[i].msg \in Message
  <2>1. Len(chat) \in Nat /\ DOMAIN chat = 1 .. Len(chat)
    BY <1>3, LenProperties
  <2>2. \A i \in DOMAIN chat : chat[i] \in Entry
    BY <1>3, <2>1, LenProperties
  <2> QED
    BY <2>1, <2>2 DEF Entry
<1>5. /\ shows \in Seq(Message) /\ Range(shows) \subseteq Shown
      /\ \A k, l \in DOMAIN shows : shows[k] = shows[l] => k = l
  <2>1. CASE chat = <<>>
    BY <1>3, <2>1 DEF Showing
  <2>2. CASE chat # <<>>
    BY <1>3, <2>2, Sorted DEF Listening
  <2> QED
    BY <2>1, <2>2
<1>6. \A i, j \in DOMAIN chat : Newer(chat, i, j) =>
         \E k, l \in DOMAIN shows :
            k < l /\ shows[k] = chat[i].msg /\ shows[l] = chat[j].msg
  <2>1. CASE chat = <<>>
    BY <2>1
  <2>2. CASE chat # <<>>
    BY <1>3, <2>2, Sorted
  <2> QED
    BY <2>1, <2>2
<1> HIDE DEF shows
<1>7. ASSUME NEW m \in Range(shows) PROVE \E i \in DOMAIN chat : chat[i].msg = m
  BY <1>5 DEF Shown
<1>8. \A k \in DOMAIN shows : k \in Int
  BY <1>5, LenProperties
<1>9. ScreenOK'
  <2>1. refreshes' \in Nat /\ nomsgs' \in BOOLEAN /\ sent' = sent
    BY <1>1, <1>3, SameCloud
  <2> QED
    BY <1>1, <1>5, <2>1 DEF ScreenOK
<1>10. CloudOK' /\ Numbered'
  BY <1>1, SameCloud
<1>11. Listening'
  BY <1>1, <1>2, SameCloud DEF Listening
<1>12. Hearing'
  BY <1>1, <1>2 DEF Hearing
<1>13. Showing'
  BY <1>1, <1>2, <1>5 DEF Showing
<1>14. /\ \A m : (Hurried(m)' <=> Hurried(m)) /\ (Own(m)' <=> Own(m))
       /\ \A m, k : Waited(m, k)' <=> Waited(m, k)
       /\ \A i, j : Newer(chat, i, j)' <=> Newer(chat, i, j)
  <2>1. chat' = chat /\ open' = open /\ waiting' = waiting /\ since' = since
    BY <1>1
  <2>2. \A m : (Hurried(m)' <=> Hurried(m)) /\ (Own(m)' <=> Own(m))
    BY <2>1 DEF Hurried, Own
  <2>3. \A m, k : Waited(m, k)' <=> Waited(m, k)
    BY <2>1 DEF Waited
  <2>4. \A i, j : Newer(chat, i, j)' <=> Newer(chat, i, j)
    BY <2>1 DEF Newer
  <2> QED
    BY <2>2, <2>3, <2>4
<1>15. Timing'
  <2>1. known' = known
    BY <1>1 DEF cloud
  <2> QED
    BY <1>1, <1>14, <2>1, SameCloud DEF Timing
<1>16. OwnTimes'
  <2>1. log' = log /\ outbox' = outbox /\ skew' = skew
    BY <1>1 DEF cloud
  <2>2. \A e, k : Placed(e, k)' <=> Placed(e, k)
    BY <1>1, <1>14, <2>1, SameCloud DEF Placed
  <2> QED
    BY <1>1, <1>2, <1>14, <2>1, <2>2, SameCloud DEF OwnTimes
<1>17. OnlyOwnMisplaced'
  <2> SUFFICES ASSUME NEW m \in Range(shows), NEW k \in Range(shows), Later(m, k),
                      ~Hurried(m), ~Hurried(k)
               PROVE  Above(m, k)'
    BY <1>1, <1>14 DEF OnlyOwnMisplaced, Later, cloud
  <2>1. PICK i \in DOMAIN chat : chat[i].msg = m
    BY <1>7
  <2>2. PICK j \in DOMAIN chat : chat[j].msg = k
    BY <1>7
  <2>3. chat[i].timeSent = ServerTime(m) /\ chat[j].timeSent = ServerTime(k)
    BY <1>2, <2>1, <2>2 DEF Timing
  <2>4. PICK p, q \in DOMAIN log : p > q /\ log[p] = m /\ log[q] = k
    BY DEF Later
  <2>5. ServerTime(m) = 2 * p /\ ServerTime(k) = 2 * q /\ p \in Int /\ q \in Int
    BY <2>4, Places, Sequences
  <2>6. chat[i].timeSent > chat[j].timeSent
    BY <2>3, <2>4, <2>5
  <2>7. Newer(chat, i, j)
    BY <2>6 DEF Newer
  <2>8. \E x, y \in DOMAIN shows : x < y /\ shows[x] = m /\ shows[y] = k
    BY <1>6, <2>1, <2>2, <2>7
  <2> QED
    BY <1>1, <2>8 DEF Above
<1>18. OwnInOrder'
  <2> SUFFICES ASSUME NEW m \in Range(shows), NEW k \in Range(shows),
                      Own(m), Own(k), m.n > k.n, skew = 0, Above(k, m)'
               PROVE  Waited(m, k)
    BY <1>1 DEF OwnInOrder, Own, Waited, cloud
  <2>1. PICK i \in DOMAIN chat : chat[i].msg = m
    BY <1>7
  <2>2. PICK j \in DOMAIN chat : chat[j].msg = k
    BY <1>7
  <2>3. m.n \in Int /\ k.n \in Int
    BY <1>4, <2>1, <2>2, ChatAssumption DEF Message
  <2>4. Waited(m, k) \/ Newer(chat, i, j)
    BY <1>2, <2>1, <2>2, <2>3 DEF OwnTimes
  <2>5. ASSUME Newer(chat, i, j) PROVE FALSE
    <3>1. PICK x, y \in DOMAIN shows : x < y /\ shows[x] = m /\ shows[y] = k
      BY <1>6, <2>1, <2>2, <2>5
    <3>2. PICK z, w \in DOMAIN shows : z < w /\ shows[z] = k /\ shows[w] = m
      BY <1>1 DEF Above
    <3>3. x = w /\ y = z
      BY <1>5, <3>1, <3>2
    <3> QED
      BY <1>8, <3>1, <3>2, <3>3
  <2> QED
    BY <2>4, <2>5
<1> QED
  BY <1>9, <1>10, <1>11, <1>12, <1>13, <1>15, <1>16, <1>17, <1>18

\* A snapshot adds the messages that miss to the array.
LEMMA Reporting ==
    ASSUME ChatInv, NEW o \in Order, Report(o)
    PROVE  LET added == Answer(o) \ IF Due(o) THEN told[o] ELSE {} IN
           /\ DOMAIN told' = DOMAIN told \cup {o} /\ told'[o] = Answer(o)
           /\ \A k \in DOMAIN told : k # o => told'[k] = told[k]
           /\ Due(o) => o \in DOMAIN told /\ starting' = starting
           /\ ~Due(o) => o \in starting /\ starting' = starting \ {o}
           /\ refreshes' \in Nat /\ (o # open => refreshes' = refreshes)
           /\ added \in SUBSET Held /\ (\A m \in added : m.order = o)
           /\ chat' \in Seq(Entry)
           /\ DOMAIN chat = 1 .. Len(chat) /\ Len(chat) \in Nat
           /\ \A i \in DOMAIN chat : i \in DOMAIN chat' /\ chat'[i] = chat[i]
           /\ \A i \in DOMAIN chat' : i \notin DOMAIN chat =>
                 /\ i \in Nat /\ i > Len(chat)
                 /\ chat'[i].msg \in added \ Shown
                 /\ chat'[i].timeSent = IF Pending(chat'[i].msg)
                                        THEN PhoneClock ELSE ServerTime(chat'[i].msg)
           /\ Shown' = Shown \cup added
           /\ \A i, j \in DOMAIN chat' : chat'[i].msg = chat'[j].msg => i = j
           /\ UNCHANGED <<cloud, open, msgs, nomsgs, heard, waiting, since>>
<1> USE DEF ChatInv
<1> DEFINE added == Answer(o) \ IF Due(o) THEN told[o] ELSE {}
<1>1. /\ Due(o) \/ o \in starting
      /\ told' = [k \in DOMAIN told \cup {o} |-> IF k = o THEN Answer(o) ELSE told[k]]
      /\ starting' = IF Due(o) THEN starting ELSE starting \ {o}
      /\ chat' = Appended(added)
      /\ refreshes' = IF o = open /\ (Due(o) => o \notin starting)
                      THEN refreshes + 1 ELSE refreshes
      /\ UNCHANGED <<cloud, open, msgs, nomsgs, heard, waiting, since>>
  BY DEF Report
<1>2. added \in SUBSET Held /\ \A m \in added : m.order = o
  BY DEF Answer
<1> HIDE DEF added
<1>3. /\ chat' \in Seq(Entry)
      /\ DOMAIN chat = 1 .. Len(chat) /\ Len(chat) \in Nat
      /\ \A i \in DOMAIN chat : i \in DOMAIN chat' /\ chat'[i] = chat[i]
      /\ \A i \in DOMAIN chat' : i \notin DOMAIN chat =>
            /\ i \in Nat /\ i > Len(chat)
            /\ chat'[i].msg \in added \ Shown
            /\ chat'[i].timeSent = IF Pending(chat'[i].msg)
                                   THEN PhoneClock ELSE ServerTime(chat'[i].msg)
      /\ Shown' = Shown \cup added
      /\ \A i, j \in DOMAIN chat' : chat'[i].msg = chat'[j].msg => i = j
  <2>1. chat \in Seq(Entry) /\ \A i, j \in DOMAIN chat : chat[i].msg = chat[j].msg => i = j
    BY DEF ScreenOK, Listening
  <2> QED
    BY <1>1, <1>2, <2>1, Appending
<1>4. refreshes' \in Nat /\ (o # open => refreshes' = refreshes)
  BY <1>1 DEF ScreenOK
<1>5. /\ DOMAIN told' = DOMAIN told \cup {o} /\ told'[o] = Answer(o)
      /\ \A k \in DOMAIN told : k # o => told'[k] = told[k]
  BY <1>1
<1>6. /\ Due(o) => o \in DOMAIN told /\ starting' = starting
      /\ ~Due(o) => o \in starting /\ starting' = starting \ {o}
  BY <1>1 DEF Due
<1> QED
  BY <1>1, <1>2, <1>3, <1>4, <1>5, <1>6 DEF added

\* What a snapshot adds to the open chat goes where the times of the array leave
\* room for it.
LEMMA ReportingTimes ==
    ASSUME ChatInv, NEW o \in Order, Report(o)
    PROVE  OwnTimes'
<1> USE DEF ChatInv
<1> DEFINE added == Answer(o) \ IF Due(o) THEN told[o] ELSE {}
<1>1. /\ added \in SUBSET Held
      /\ chat' \in Seq(Entry)
      /\ DOMAIN chat = 1 .. Len(chat) /\ Len(chat) \in Nat
      /\ \A i \in DOMAIN chat : i \in DOMAIN chat' /\ chat'[i] = chat[i]
      /\ \A i \in DOMAIN chat' : i \notin DOMAIN chat =>
            /\ i \in Nat /\ i > Len(chat)
            /\ chat'[i].msg \in added \ Shown
            /\ chat'[i].timeSent = IF Pending(chat'[i].msg)
                                   THEN PhoneClock ELSE ServerTime(chat'[i].msg)
      /\ Shown' = Shown \cup added
      /\ UNCHANGED <<cloud, open, msgs, nomsgs, heard, waiting, since>>
  BY Reporting
<1> HIDE DEF added
<1>2. log' = log /\ outbox' = outbox /\ skew' = skew
  BY <1>1 DEF cloud
<1>3. /\ \A m : Own(m)' <=> Own(m)
      /\ \A m, k : Waited(m, k)' <=> Waited(m, k)
      /\ \A i, j : Newer(chat, i, j)' <=> Newer(chat', i, j)
      /\ \A e, k : Placed(e, k)' <=> Placed(e, k)
  <2>1. /\ \A m : Own(m)' <=> Own(m)
        /\ \A m, k : Waited(m, k)' <=> Waited(m, k)
    BY <1>1 DEF Own, Waited
  <2>2. \A i, j : Newer(chat, i, j)' <=> Newer(chat', i, j)
    BY DEF Newer
  <2>3. \A e, k : Placed(e, k)' <=> Placed(e, k)
    BY <1>1, <1>2, <2>1, SameCloud DEF Placed
  <2> QED
    BY <2>1, <2>2, <2>3
<1>4. CASE open = none
  BY <1>1, <1>4 DEF OwnTimes
<1>5. CASE open # none
  <2>1. /\ \A m \in Held : m.n \in Int
        /\ \A m, k \in Held : m.n = k.n => m = k
        /\ Written \subseteq Held /\ since \in Int /\ Len(log) \in Nat
    BY Numbers, Sequences DEF Held, ScreenOK
  <2>2. \A i \in DOMAIN chat' : chat'[i].msg \in Shown'
    BY DEF Shown
  <2>3. Shown' \subseteq Held
    BY <1>1 DEF Listening, Answer
  \* A message of this phone that misses in the array, and a later one.
  <2>4. ASSUME NEW a \in Written, NEW b \in Written, Own(a), Own(b), a.n < b.n, a \notin Shown
        PROVE  /\ Pending(a) => Waited(a, b) /\ Waited(b, a)
               /\ b \in Range(log) => a \in Range(log) /\ ServerTime(a) < ServerTime(b)
    <3>1. ~(since < b.n)
      BY <1>5, <2>4 DEF OwnTimes
    <3>2. a.n <= since /\ b.n <= since
      BY <2>1, <2>4, <3>1
    <3>3. Pending(a) => Pending(b)
      BY <2>4, Clocks
    <3>4. Pending(a) => a \in waiting /\ b \in waiting
      BY <1>5, <2>4, <3>2, <3>3 DEF Timing
    <3>5. b \in Range(log) => a \in Range(log) /\ ServerTime(a) < ServerTime(b)
      BY <2>4, Numbers
    <3> QED
      BY <3>4, <3>5 DEF Waited
  <2>5. ASSUME NEW m \in Written', NEW k \in Written', Own(m), Own(k), k.n < m.n, since < m.n
        PROVE  k \in Shown'
    BY <1>1, <1>5, <2>5, SameCloud DEF OwnTimes
  <2>6. ASSUME skew = 0
        PROVE  \A i \in DOMAIN chat' :
             /\ chat'[i].timeSent <= PhoneClock
             /\ Own(chat'[i].msg) =>
                   /\ \A j \in DOMAIN chat' :
                         Own(chat'[j].msg) /\ chat'[j].msg.n < chat'[i].msg.n =>
                            Waited(chat'[i].msg, chat'[j].msg) \/ Newer(chat', i, j)
                   /\ \A k \in Written \ Shown' : Own(k) => Placed(chat'[i], k)
    <3>1. /\ PhoneClock = 2 * Len(log) + 1 /\ PhoneClock \in Int
          /\ \A m \in Range(log) : ServerTime(m) \in Int /\ ServerTime(m) < PhoneClock
      BY <2>6, Clocks
    <3>2. /\ \A m \in Held : ~Pending(m) => m \in Range(log) /\ m \notin Range(outbox)
          /\ \A m \in Held : Own(m) => m \in Written
          /\ \A m \in Written : m \in Range(log) \/ m \in Range(outbox)
      BY Clocks, Numbers DEF Own
    <3>3. \A i \in DOMAIN chat : chat[i] \in Entry /\ chat[i].timeSent \in Int
      <4>1. \A i \in DOMAIN chat : chat[i] \in Entry
        BY <1>1, LenProperties DEF ScreenOK
      <4> QED
        BY <4>1 DEF Entry
    <3>4. \A i \in DOMAIN chat : chat[i].timeSent <= PhoneClock
      BY <1>5, <2>6 DEF OwnTimes
    <3>5. \A i \in DOMAIN chat' : chat'[i].timeSent <= PhoneClock /\ chat'[i].timeSent \in Int
      <4> SUFFICES ASSUME NEW i \in DOMAIN chat'
                   PROVE  chat'[i].timeSent <= PhoneClock /\ chat'[i].timeSent \in Int
        OBVIOUS
      <4>1. CASE i \in DOMAIN chat
        BY <1>1, <3>3, <3>4, <4>1
      <4>2. CASE i \notin DOMAIN chat
        BY <1>1, <3>1, <3>2, <4>2
      <4> QED
        BY <4>1, <4>2
    <3>6. ASSUME NEW i \in DOMAIN chat', NEW j \in DOMAIN chat',
                 Own(chat'[i].msg), Own(chat'[j].msg), chat'[j].msg.n < chat'[i].msg.n
          PROVE  Waited(chat'[i].msg, chat'[j].msg) \/ Newer(chat', i, j)
      <4> DEFINE a == chat'[j].msg
                 b == chat'[i].msg
      <4>1. a \in Written /\ b \in Written /\ a \in Held /\ b \in Held
        BY <2>2, <2>3, <3>2, <3>6
      <4>2. CASE i \in DOMAIN chat /\ j \in DOMAIN chat
        <5>1. chat'[i] = chat[i] /\ chat'[j] = chat[j]
          BY <1>1, <4>2
        <5>2. Waited(chat[i].msg, chat[j].msg) \/ Newer(chat, i, j)
          BY <1>5, <2>6, <3>6, <4>2, <5>1 DEF OwnTimes
        <5> QED
          BY <5>1, <5>2 DEF Newer
      <4>3. CASE i \in DOMAIN chat /\ j \notin DOMAIN chat
        <5>1. chat'[i] = chat[i] /\ a \notin Shown
          BY <1>1, <4>3
        <5>2. CASE Pending(a)
          BY <2>4, <3>6, <4>1, <5>1, <5>2
        <5>3. CASE ~Pending(a)
          <6>1. Placed(chat[i], a)
            BY <1>5, <2>6, <3>6, <4>1, <4>3, <5>1 DEF OwnTimes
          <6>2. Waited(b, a) \/ ServerTime(a) < chat[i].timeSent
            BY <2>1, <3>6, <4>1, <5>1, <6>1 DEF Placed
          <6>3. /\ chat'[j].timeSent = ServerTime(a)
                /\ ServerTime(a) \in Int /\ chat[i].timeSent \in Int
            BY <1>1, <3>1, <3>2, <3>3, <4>1, <4>3, <5>3
          <6> QED
            BY <5>1, <6>2, <6>3 DEF Newer
        <5> QED
          BY <5>2, <5>3
      <4>4. CASE i \notin DOMAIN chat /\ j \in DOMAIN chat
        <5>1. chat'[j] = chat[j] /\ b \notin Shown /\ i > j
          BY <1>1, <4>4
        <5>2. Placed(chat[j], b)
          BY <1>5, <2>6, <3>6, <4>1, <4>4, <5>1 DEF OwnTimes
        <5>3. Waited(b, a) \/ b \in Range(outbox) \/ ServerTime(b) > chat[j].timeSent
          BY <2>1, <3>6, <4>1, <5>1, <5>2 DEF Placed, Waited
        <5>4. CASE Pending(b)
          <6>1. chat'[i].timeSent = PhoneClock /\ chat[j].timeSent <= PhoneClock
            BY <1>1, <3>4, <4>4, <5>4
          <6> QED
            BY <3>1, <3>3, <4>4, <5>1, <6>1 DEF Newer
        <5>5. CASE ~Pending(b)
          <6>1. /\ chat'[i].timeSent = ServerTime(b)
                /\ ServerTime(b) \in Int /\ chat[j].timeSent \in Int
            BY <1>1, <3>1, <3>2, <3>3, <4>1, <4>4, <5>5
          <6>2. b \notin Range(outbox)
            BY <3>2, <4>1, <5>5
          <6> QED
            BY <5>1, <5>3, <6>1, <6>2 DEF Newer
        <5> QED
          BY <5>4, <5>5
      <4>5. CASE i \notin DOMAIN chat /\ j \notin DOMAIN chat
        <5>1. a \notin Shown
          BY <1>1, <4>5
        <5>2. CASE Pending(a)
          BY <2>4, <3>6, <4>1, <5>1, <5>2
        <5>3. CASE ~Pending(a)
          <6>1. a \in Range(log) /\ chat'[j].timeSent = ServerTime(a)
            BY <1>1, <3>2, <4>1, <4>5, <5>3
          <6>2. CASE Pending(b)
            BY <1>1, <3>1, <4>5, <6>1, <6>2 DEF Newer
          <6>3. CASE ~Pending(b)
            <7>1. b \in Range(log) /\ chat'[i].timeSent = ServerTime(b)
              BY <1>1, <3>2, <4>1, <4>5, <6>3
            <7>2. ServerTime(a) < ServerTime(b)
              BY <2>4, <3>6, <4>1, <5>1, <7>1
            <7> QED
              BY <3>1, <6>1, <7>1, <7>2 DEF Newer
          <6> QED
            BY <6>2, <6>3
        <5> QED
          BY <5>2, <5>3
      <4> QED
        BY <4>2, <4>3, <4>4, <4>5
    <3>7. ASSUME NEW i \in DOMAIN chat', Own(chat'[i].msg), NEW k \in Written \ Shown', Own(k)
          PROVE  Placed(chat'[i], k)
      <4> DEFINE x == chat'[i].msg
      <4>1. x \in Written /\ x \in Held /\ k \in Held /\ k \notin Shown /\ x # k
        BY <1>1, <2>1, <2>2, <2>3, <3>2, <3>7
      <4>2. x.n < k.n \/ k.n < x.n
        BY <2>1, <4>1
      <4>3. CASE i \in DOMAIN chat
        BY <1>1, <1>5, <2>6, <3>7, <4>1, <4>3 DEF OwnTimes
      <4>4. CASE i \notin DOMAIN chat /\ x.n < k.n
        <5>1. x \notin Shown
          BY <1>1, <4>4
        <5>2. CASE Pending(x)
          BY <2>4, <3>7, <4>1, <4>4, <5>1, <5>2 DEF Placed
        <5>3. CASE ~Pending(x) /\ k \in Range(log)
          <6>1. chat'[i].timeSent = ServerTime(x) /\ x \in Range(log)
            BY <1>1, <3>2, <4>1, <4>4, <5>3
          <6>2. ServerTime(x) < ServerTime(k)
            BY <2>4, <3>7, <4>1, <4>4, <5>1, <5>3
          <6>3. ServerTime(k) > chat'[i].timeSent
            BY <3>1, <5>3, <6>1, <6>2
          <6> QED
            BY <4>4, <6>3 DEF Placed
        <5>4. CASE k \in Range(outbox)
          BY <4>4, <5>4 DEF Placed
        <5> QED
          BY <3>2, <5>2, <5>3, <5>4
      <4>5. CASE i \notin DOMAIN chat /\ k.n < x.n
        <5>1. CASE Pending(k)
          BY <2>4, <3>7, <4>1, <4>5, <5>1 DEF Placed
        <5>2. CASE ~Pending(k)
          <6>1. k \in Range(log)
            BY <3>2, <4>1, <5>2
          <6>2. ServerTime(k) < chat'[i].timeSent
            <7>1. CASE Pending(x)
              BY <1>1, <3>1, <4>5, <6>1, <7>1
            <7>2. CASE ~Pending(x)
              <8>1. x \in Range(log) /\ chat'[i].timeSent = ServerTime(x)
                BY <1>1, <3>2, <4>1, <4>5, <7>2
              <8>2. ServerTime(k) < ServerTime(x)
                BY <2>4, <3>7, <4>1, <4>5, <8>1
              <8> QED
                BY <8>1, <8>2
            <7> QED
              BY <7>1, <7>2
          <6> QED
            BY <4>5, <6>1, <6>2 DEF Placed
        <5> QED
          BY <5>1, <5>2
      <4> QED
        BY <4>2, <4>3, <4>4, <4>5
    <3> QED
      BY <3>5, <3>6, <3>7
  <2> QED
    BY <1>1, <1>2, <1>3, <2>5, <2>6, SameCloud DEF OwnTimes
<1> QED
  BY <1>4, <1>5

LEMMA ReportingKeeps ==
    ASSUME ChatInv, NEW o \in Order, Report(o)
    PROVE  ChatInv'
<1> USE DEF ChatInv
<1> DEFINE added == Answer(o) \ IF Due(o) THEN told[o] ELSE {}
<1>1. /\ DOMAIN told' = DOMAIN told \cup {o} /\ told'[o] = Answer(o)
      /\ \A k \in DOMAIN told : k # o => told'[k] = told[k]
      /\ Due(o) => o \in DOMAIN told /\ starting' = starting
      /\ ~Due(o) => o \in starting /\ starting' = starting \ {o}
      /\ refreshes' \in Nat /\ (o # open => refreshes' = refreshes)
      /\ added \in SUBSET Held /\ (\A m \in added : m.order = o)
      /\ chat' \in Seq(Entry)
      /\ \A i \in DOMAIN chat : i \in DOMAIN chat' /\ chat'[i] = chat[i]
      /\ \A i \in DOMAIN chat' : i \notin DOMAIN chat =>
            /\ chat'[i].msg \in added \ Shown
            /\ chat'[i].timeSent = IF Pending(chat'[i].msg)
                                   THEN PhoneClock ELSE ServerTime(chat'[i].msg)
      /\ Shown' = Shown \cup added
      /\ \A i, j \in DOMAIN chat' : chat'[i].msg = chat'[j].msg => i = j
      /\ UNCHANGED <<cloud, open, msgs, nomsgs, heard, waiting, since>>
  BY Reporting
<1>2. /\ \A m : m \in added <=> m \in Answer(o) /\ ~(Due(o) /\ m \in told[o])
      /\ Due(o) => Answer(o) \subseteq told[o] \cup added
      /\ ~Due(o) => Answer(o) \subseteq added
      /\ o # none
  BY ChatAssumption
<1> HIDE DEF added
<1>3. ScreenOK'
  <2>1. starting' \subseteq Order
    BY <1>1 DEF ScreenOK
  <2>2. sent' = sent
    BY <1>1, SameCloud
  <2> QED
    BY <1>1, <2>1, <2>2 DEF ScreenOK
<1>4. CloudOK' /\ Numbered'
  BY <1>1, SameCloud
<1>5. ASSUME NEW k \in DOMAIN told PROVE k \in DOMAIN told' /\ told[k] \subseteq told'[k]
  BY <1>1 DEF Listening
<1>6. Listening'
  <2>1. ASSUME NEW k \in DOMAIN told' PROVE told'[k] \subseteq Answer(k)'
    <3>1. CASE k = o
      BY <1>1, <3>1, SameCloud
    <3>2. CASE k # o
      BY <1>1, <3>2, SameCloud DEF Listening
    <3> QED
      BY <3>1, <3>2
  <2>2. ASSUME NEW m \in Shown' PROVE m.order \in DOMAIN told' /\ m \in told'[m.order]
    <3>1. CASE m \in Shown
      BY <1>5, <3>1 DEF Listening
    <3>2. CASE m \in added
      BY <1>1, <1>2, <3>2
    <3> QED
      BY <1>1, <3>1, <3>2
  <2>3. ASSUME open # none, open \notin starting'
        PROVE  open \in DOMAIN told' /\ told'[open] \subseteq Shown'
    <3>1. CASE open = o
      BY <1>1, <1>2, <2>3, <3>1 DEF Listening
    <3>2. CASE open # o
      BY <1>1, <2>3, <3>2 DEF Listening
    <3> QED
      BY <3>1, <3>2
  <2> QED
    BY <1>1, <2>1, <2>2, <2>3 DEF Listening
<1>7. Hearing'
  <2>1. ASSUME NEW m \in heard, m \in added PROVE m.order = open
    <3>1. m.order = o /\ o \in DOMAIN told /\ m \in told[o]
      BY <1>1, <2>1 DEF Hearing
    <3>2. o \in starting
      BY <1>1, <1>2, <2>1, <3>1
    <3> QED
      BY <3>1, <3>2 DEF Hearing
  <2>2. starting' \subseteq starting
    BY <1>1
  <2> QED
    BY <1>1, <1>5, <2>1, <2>2 DEF Hearing
<1>8. Showing'
  BY <1>1, <1>2 DEF Showing
<1>9. /\ \A m : Hurried(m)' <=> Hurried(m)
      /\ known' = known /\ log' = log /\ skew' = skew
  BY <1>1 DEF Hurried, cloud
<1>10. Timing'
  <2> SUFFICES ASSUME open # none
               PROVE  /\ \A m \in Written : Pending(m) /\ m.n <= since => m \in waiting
                      /\ \A i \in DOMAIN chat' :
                            ~Hurried(chat'[i].msg) =>
                               /\ chat'[i].msg \in known
                               /\ chat'[i].timeSent = ServerTime(chat'[i].msg)
    BY <1>1, <1>9, SameCloud DEF Timing
  <2>1. ASSUME NEW i \in DOMAIN chat', ~Hurried(chat'[i].msg)
        PROVE  chat'[i].msg \in known /\ chat'[i].timeSent = ServerTime(chat'[i].msg)
    <3>1. CASE i \in DOMAIN chat
      BY <1>1, <2>1, <3>1 DEF Timing
    <3>2. CASE i \notin DOMAIN chat
      <4>1. chat'[i].msg \in Held
        BY <1>1, <3>2
      <4>2. ASSUME Pending(chat'[i].msg) PROVE FALSE
        <5>1. chat'[i].msg \in Written /\ chat'[i].msg.from = "here" /\ chat'[i].msg.n \in Int
          BY <4>1, <4>2, Clocks, Numbers
        <5>2. ~(since < chat'[i].msg.n)
          BY <2>1, <5>1 DEF Hurried
        <5>3. chat'[i].msg \in waiting
          BY <4>2, <5>1, <5>2 DEF Timing, ScreenOK
        <5> QED
          BY <2>1, <5>3 DEF Hurried
      <4> QED
        BY <1>1, <3>2, <4>2 DEF Pending
    <3> QED
      BY <3>1, <3>2
  <2> QED
    BY <2>1 DEF Timing
<1>11. OwnTimes'
  BY ReportingTimes
<1>12. OnlyOwnMisplaced'
  BY <1>1, <1>9 DEF OnlyOwnMisplaced, Above, Later
<1>13. OwnInOrder'
  BY <1>1, <1>9 DEF OwnInOrder, Above
<1> QED
  BY <1>3, <1>4, <1>6, <1>7, <1>8, <1>10, <1>11, <1>12, <1>13

LEMMA ChatStep == ChatInv /\ [Next]_vars => ChatInv'
<1> SUFFICES ASSUME ChatInv, [Next]_vars PROVE ChatInv'
  OBVIOUS
<1>1. CASE Close
  BY <1>1, ClosingKeeps
<1>2. CASE Restart
  BY <1>2, RestartingKeeps
<1>3. CASE Refresh
  BY <1>3, RefreshingKeeps
<1>4. CASE \E o \in Order : Open(o)
  BY <1>4, OpeningKeeps
<1>5. CASE \E o \in Order : Report(o)
  BY <1>5, ReportingKeeps
<1>6. CASE \/ SendHere \/ Commit \/ CatchUp
           \/ \E o \in Order : SendThere(o)
           \/ \E m \in Message : Acknowledge(m)
  <2>1. CloudOK' /\ Numbered' /\ Carried
    BY <1>6, CloudSteps DEF ChatInv, ScreenOK
  <2> QED
    BY <2>1, CloudKeeps
<1>7. CASE UNCHANGED vars
  <2>1. UNCHANGED <<cloud, told, starting, chat, screen>>
    BY <1>7 DEF vars
  <2>2. /\ log' = log /\ outbox' = outbox /\ known' = known /\ skew' = skew
        /\ told' = told /\ starting' = starting /\ chat' = chat /\ open' = open
        /\ refreshes' = refreshes /\ msgs' = msgs /\ nomsgs' = nomsgs
        /\ heard' = heard /\ waiting' = waiting /\ since' = since
    BY <2>1 DEF cloud, screen
  <2>3. Carried
    <3>1. Len(log) \in Nat /\ sent \in Nat
      BY Sequences DEF ChatInv, CloudOK
    <3>2. sent' = sent /\ Held' = Held /\ Written' = Written
      BY <2>1, SameCloud
    <3> QED
      BY <2>1, <2>2, <3>1, <3>2 DEF Carried
  <2>4. CloudOK' /\ Numbered'
    BY <2>1, SameCloud DEF ChatInv
  <2> QED
    BY <2>3, <2>4, CloudKeeps
<1> QED
  BY <1>1, <1>2, <1>3, <1>4, <1>5, <1>6, <1>7 DEF Next

-----------------------------------------------------------------------------
(* What the runs check on two orders and two messages.                     *)

LEMMA ChatInductive == Spec => []ChatInv
BY ChatInit, ChatStep, PTL DEF Spec

\* The module's type invariant.
THEOREM ChatsAreTyped == Spec => []TypeOK
<1>1. ChatInv => TypeOK
  <2> SUFFICES ASSUME ChatInv PROVE TypeOK
    OBVIOUS
  <2>1. \A o \in DOMAIN told : told[o] \subseteq Message
    BY Numbers DEF ChatInv, Listening, Answer
  <2>2. since \in 0 .. MaxMessages
    BY ChatAssumption DEF ChatInv, ScreenOK, CloudOK
  <2> QED
    BY <2>1, <2>2 DEF ChatInv, ScreenOK, CloudOK, TypeOK, Entry
<1> QED
  BY <1>1, ChatInductive, PTL

\* However many listeners add to the array of the phone's chats, it never has a
\* message twice, and neither has the view that sorts it.
THEOREM MessagesShowOnce == Spec => []NoMessageTwice
<1>1. ChatInv => NoMessageTwice
  BY DEF ChatInv, Listening, Showing, NoMessageTwice
<1> QED
  BY <1>1, ChatInductive, PTL

\* A message of another order gets on the screen only by a listener an earlier
\* view left behind, and only if it came after the present view was opened.
THEOREM StrangersComeLate == Spec => []StrangersAreLate
<1>1. ChatInv => StrangersAreLate
  BY DEF ChatInv, Listening, Hearing, Showing, StrangersAreLate
<1> QED
  BY <1>1, ChatInductive, PTL

\* Two messages that stand in the wrong order on the screen have one that left
\* this phone while the chat was open or was on its way when it was opened.
THEOREM OthersStandRight == Spec => []OnlyOwnMisplaced
BY ChatInductive, PTL DEF ChatInv

\* On a phone with the right clock its own messages stand in the order they
\* were written, except among those that waited when the chat was opened.
THEOREM OwnStandInOrder == Spec => []OwnInOrder
BY ChatInductive, PTL DEF ChatInv
=============================================================================
