-------------------------- MODULE StatementsProofs --------------------------
(***************************************************************************)
(* Proofs about Statements, for any handlers and whatever errands they     *)
(* are given.                                                              *)
(***************************************************************************)
EXTENDS Statements, SequenceTheorems, FiniteSetTheorems,
        WellFoundedInduction, TLAPS

Statement(p) == [do : Verbs, at : {p[i].at : i \in DOMAIN p}, n : Int, more : BOOLEAN]
InAgenda == UNION {Range(agenda[h]) : h \in Handlers}

\* What is left of an errand is its end.
Rest(h, k) == SubSeq(agenda[h], k + 1, Len(agenda[h]))
Ends == \A h \in Handlers : \E k \in 0 .. Len(agenda[h]) : left[h] = Rest(h, k)

Shape ==
    /\ agenda \in Agendas
    /\ start \in [Touched(agenda) -> Nat]
    /\ cell \in [Touched(agenda) -> Nat]
    /\ left \in [Handlers -> Seq(InAgenda)]
    /\ hand \in [Handlers -> Nat]
    /\ inside \in Handlers \cup {Nobody}
    /\ held \in [Handlers -> SUBSET Mutexes]
    /\ got \in [Handlers -> SUBSET Touched(agenda)]

OneHolder == \A g, h \in Handlers : g # h => held[g] \cap held[h] = {}

IInv == Shape /\ Ends /\ OneHolder

-----------------------------------------------------------------------------
(* Sequences.                                                               *)

LEMMA EndIsSuffix ==
    ASSUME NEW S, NEW t \in Seq(S), NEW k \in 0 .. Len(t)
    PROVE  IsSuffix(SubSeq(t, k + 1, Len(t)), t)
  <1> DEFINE n == Len(t)
             s == SubSeq(t, k + 1, n)
             r == Reverse(s)
             q == Reverse(t)
  <1>1. n \in Nat /\ k \in Nat /\ k <= n /\ \A i \in 1 .. n : t[i] \in S
    BY LenProperties, ElementOfSeq
  <1>2. /\ s \in Seq(S) /\ Len(s) = n - k
        /\ \A i \in 1 .. n - k : s[i] = t[k + i]
    <2>1. k + 1 \in Int /\ n \in Int /\ \A i \in k + 1 .. n : t[i] \in S
      BY <1>1
    <2>2. /\ s \in Seq(S)
          /\ Len(s) = IF k + 1 <= n THEN n - (k + 1) + 1 ELSE 0
          /\ \A i \in 1 .. n - (k + 1) + 1 : s[i] = t[k + 1 + i - 1]
      BY <2>1, SubSeqProperties
    <2>3. Len(s) = n - k
      BY <2>2, <1>1
    <2>4. ASSUME NEW i \in 1 .. n - k PROVE s[i] = t[k + i]
      <3>1. i \in 1 .. n - (k + 1) + 1 /\ k + 1 + i - 1 = k + i
        BY <1>1
      <3> QED BY <3>1, <2>2
    <2> QED BY <2>2, <2>3, <2>4
  <1>3. /\ r = [i \in 1 .. n - k |-> s[n - k - i + 1]]
        /\ q = [i \in 1 .. n |-> t[n - i + 1]]
    BY <1>2 DEF Reverse
  <1>4. r \in Seq(S) /\ q \in Seq(S) /\ Len(r) = n - k /\ Len(q) = n
    <2>1. ASSUME NEW i \in 1 .. n - k PROVE s[n - k - i + 1] \in S
      <3> HIDE DEF n, s, r, q
      <3>1. n - k - i + 1 \in 1 .. n - k /\ k + (n - k - i + 1) \in 1 .. n
        BY <1>1
      <3>2. s[n - k - i + 1] = t[k + (n - k - i + 1)]
        BY <1>2, <3>1
      <3> QED BY <1>1, <3>1, <3>2
    <2>2. ASSUME NEW i \in 1 .. n PROVE t[n - i + 1] \in S
      <3> HIDE DEF n, s, r, q
      <3>1. n - i + 1 \in 1 .. n
        BY <1>1
      <3> QED BY <1>1, <3>1
    <2> DEFINE x == [i \in 1 .. n - k |-> s[n - k - i + 1]]
               y == [i \in 1 .. n |-> t[n - i + 1]]
    <2> HIDE DEF s
    <2>3. x \in [1 .. n - k -> S] /\ y \in [1 .. n -> S] /\ n - k \in Nat
      BY <1>1, <2>1, <2>2
    <2> HIDE DEF x, y, n
    <2>4. x \in Seq(S) /\ y \in Seq(S) /\ Len(x) = n - k /\ Len(y) = n
      BY <1>1, <2>3
    <2> QED BY <1>3, <2>4 DEF x, y, n, s
  <1>5. \A i \in 1 .. n - k : r[i] = q[i]
    <2> SUFFICES ASSUME NEW i \in 1 .. n - k PROVE r[i] = q[i]
      OBVIOUS
    <2>0. i \in 1 .. n
      BY <1>1
    <2> DEFINE x == [j \in 1 .. n - k |-> s[n - k - j + 1]]
               y == [j \in 1 .. n |-> t[n - j + 1]]
    <2>1. r[i] = s[n - k - i + 1] /\ q[i] = t[n - i + 1]
      <3>1. x[i] = s[n - k - i + 1] /\ y[i] = t[n - i + 1]
        BY <2>0
      <3> HIDE DEF r, q, s, n
      <3> QED BY <1>3, <3>1
    <2>2. n - k - i + 1 \in 1 .. n - k /\ k + (n - k - i + 1) = n - i + 1
      BY <1>1
    <2> QED BY <1>2, <2>1, <2>2
  <1>6. SubSeq(r, 1, Len(r)) = SubSeq(q, 1, Len(r))
    <2>1. /\ \A i \in 1 .. n - k : r[i] \in S
          /\ \A i \in 1 .. n - k : q[i] \in S
          /\ 1 \in Int /\ n - k \in Int
      BY <1>1, <1>4, <1>5, ElementOfSeq
    <2>2. /\ SubSeq(r, 1, n - k) \in Seq(S)
          /\ Len(SubSeq(r, 1, n - k)) = IF 1 <= n - k THEN n - k - 1 + 1 ELSE 0
          /\ \A i \in 1 .. n - k - 1 + 1 : SubSeq(r, 1, n - k)[i] = r[1 + i - 1]
      BY <2>1, SubSeqProperties
    <2>3. /\ SubSeq(q, 1, n - k) \in Seq(S)
          /\ Len(SubSeq(q, 1, n - k)) = IF 1 <= n - k THEN n - k - 1 + 1 ELSE 0
          /\ \A i \in 1 .. n - k - 1 + 1 : SubSeq(q, 1, n - k)[i] = q[1 + i - 1]
      BY <2>1, SubSeqProperties
    <2> DEFINE a == SubSeq(r, 1, n - k)
               b == SubSeq(q, 1, n - k)
    <2>4. Len(a) = n - k /\ Len(b) = n - k
      BY <1>1, <2>2, <2>3
    <2>5. ASSUME NEW i \in 1 .. n - k PROVE a[i] = b[i]
      <3>1. i \in 1 .. n - k - 1 + 1 /\ 1 + i - 1 = i
        BY <1>1
      <3> QED BY <1>5, <2>2, <2>3, <3>1
    <2> HIDE DEF a, b
    <2>6. a \in Seq(S) /\ b \in Seq(S)
      BY <2>2, <2>3 DEF a, b
    <2>7. a = b
      BY <2>4, <2>5, <2>6, SeqEqual
    <2> QED BY <2>7, <1>4 DEF a, b
  <1> HIDE DEF r, q
  <1>7. Len(r) <= Len(q)
    BY <1>1, <1>4
  <1> QED BY <1>6, <1>7 DEF IsSuffix, IsPrefix, r, q

LEMMA RestFacts ==
    ASSUME NEW S, NEW t \in Seq(S), NEW k \in 0 .. Len(t),
           SubSeq(t, k + 1, Len(t)) # << >>
    PROVE  LET s == SubSeq(t, k + 1, Len(t)) IN
           /\ k + 1 \in 1 .. Len(t)
           /\ Head(s) = t[k + 1]
           /\ Tail(s) = SubSeq(t, k + 2, Len(t))
  <1>1. Len(t) \in Nat
    BY LenProperties
  <1>2. k < Len(t)
    <2> SUFFICES ASSUME k = Len(t) PROVE FALSE
      BY <1>1
    <2> QED BY <1>1, SubSeqEmpty
  <1>3. k + 1 \in 1 .. Len(t) /\ Len(t) \in k + 1 .. Len(t) /\ k + 1 + 1 = k + 2
    BY <1>1, <1>2
  <1> QED BY <1>3, HeadTailOfSubSeq

-----------------------------------------------------------------------------
(* Errands and their statements.                                            *)

LEMMA AgendaFacts ==
    ASSUME agenda \in Agendas
    PROVE  /\ agenda \in [Handlers -> {agenda[h] : h \in Handlers}]
           /\ \A h \in Handlers :
                 /\ agenda[h] \in Seq(Statement(agenda[h]))
                 /\ agenda[h] \in Seq(InAgenda)
                 /\ \A i \in 1 .. Len(agenda[h]) :
                       LET s == agenda[h][i] IN
                       /\ s \in Statement(agenda[h])
                       /\ s.do \in {"put", "write", "fill"} => s.n \in Nat
                       /\ s.at \in Touched(agenda)
                       /\ s \in InAgenda
  <1>1. /\ agenda \in [Handlers -> {agenda[h] : h \in Handlers}]
        /\ \A h \in Handlers : Errand(agenda[h])
    BY AgendasAssumption
  <1>2. ASSUME NEW h \in Handlers
        PROVE  /\ agenda[h] \in Seq(Statement(agenda[h]))
               /\ agenda[h] \in Seq(InAgenda)
               /\ \A i \in 1 .. Len(agenda[h]) :
                     LET s == agenda[h][i] IN
                     /\ s \in Statement(agenda[h])
                     /\ s.do \in {"put", "write", "fill"} => s.n \in Nat
                     /\ s.at \in Touched(agenda)
                     /\ s \in InAgenda
    <2> DEFINE p == agenda[h]
    <2>1. p \in Seq(Statement(p))
      BY <1>1 DEF Errand, Statement
    <2>2. DOMAIN p = 1 .. Len(p) /\ \A i \in 1 .. Len(p) : p[i] \in Statement(p)
      BY <2>1, LenProperties, ElementOfSeq
    <2>3. \A i \in 1 .. Len(p) : p[i].do \in {"put", "write", "fill"} => p[i].n \in Nat
      BY <1>1, <2>2 DEF Errand
    <2>4. \A i \in 1 .. Len(p) : p[i].at \in Touched(agenda)
      BY <2>2 DEF Touched
    <2>5. \A i \in 1 .. Len(p) : p[i] \in Range(p)
      BY <2>2 DEF Range
    <2>6. p \in Seq(Range(p)) /\ Range(p) \subseteq InAgenda
      BY <2>1, SeqOfRange DEF InAgenda
    <2>7. p \in Seq(InAgenda)
      BY <2>6, SeqMonotonic
    <2> QED BY <2>1, <2>2, <2>3, <2>4, <2>5, <2>6, <2>7
  <1> QED BY <1>1, <1>2

\* A statement leaves a count that is not negative, and remembers one.
LEMMA CountsStayNat ==
    ASSUME NEW s, s.do \in Verbs, s.n \in Int,
           s.do \in {"put", "write", "fill"} => s.n \in Nat,
           NEW v \in Nat, NEW k \in Nat
    PROVE  Written(s, v, k) \in Nat /\ Remembered(s, v, k) \in Nat
  BY DEF Written, Remembered, Verbs

-----------------------------------------------------------------------------
(* The invariant.                                                           *)

LEMMA Initially == Init => IInv
  <1> SUFFICES ASSUME Init PROVE IInv
    OBVIOUS
  <1>1. agenda \in Agendas /\ start \in [Touched(agenda) -> Nat]
    BY StartsAssumption DEF Init
  <1>2. \A h \in Handlers : agenda[h] \in Seq(InAgenda)
    BY <1>1, AgendaFacts
  <1>3. left \in [Handlers -> Seq(InAgenda)]
    BY <1>1, <1>2, AgendaFacts DEF Init
  <1>4. Ends
    <2> SUFFICES ASSUME NEW h \in Handlers
                 PROVE  \E k \in 0 .. Len(agenda[h]) : left[h] = Rest(h, k)
      BY DEF Ends
    <2>1. Len(agenda[h]) \in Nat /\ SubSeq(agenda[h], 1, Len(agenda[h])) = agenda[h]
      BY <1>2, LenProperties, SubSeqFull
    <2>2. 0 \in 0 .. Len(agenda[h]) /\ left[h] = Rest(h, 0)
      BY <2>1 DEF Init, Rest
    <2> QED BY <2>2
  <1>5. OneHolder
    BY DEF Init, OneHolder
  <1> QED BY <1>1, <1>3, <1>4, <1>5 DEF IInv, Shape, Init

\* The statement a handler is at, and what is left when it goes on.
LEMMA AtStatement ==
    ASSUME IInv, NEW h \in Handlers, left[h] # << >>
    PROVE  LET s == Head(left[h]) IN
           /\ \E i \in 1 .. Len(agenda[h]) :
                 s = agenda[h][i] /\ i \in 0 .. Len(agenda[h]) /\ Tail(left[h]) = Rest(h, i)
           /\ s.do \in Verbs /\ s.n \in Int /\ s.at \in Touched(agenda)
           /\ s.do \in {"put", "write", "fill"} => s.n \in Nat
           /\ Tail(left[h]) \in Seq(InAgenda)
  <1> DEFINE p == agenda[h]
             s == Head(left[h])
  <1>1. p \in Seq(InAgenda) /\ Len(p) \in Nat
    BY AgendaFacts, LenProperties DEF IInv, Shape
  <1>2. PICK k \in 0 .. Len(p) : left[h] = Rest(h, k)
    BY DEF IInv, Ends
  <1>3. k + 1 \in 1 .. Len(p) /\ s = p[k + 1] /\ Tail(left[h]) = SubSeq(p, k + 2, Len(p))
    BY <1>1, <1>2, RestFacts DEF Rest
  <1>4. k + 1 \in 0 .. Len(p) /\ Tail(left[h]) = Rest(h, k + 1)
    <2>1. k + 1 + 1 = k + 2 /\ k + 1 \in 0 .. Len(p)
      BY <1>1, <1>3
    <2> QED BY <1>3, <2>1 DEF Rest
  <1>5. /\ s \in Statement(p) /\ s.at \in Touched(agenda)
        /\ s.do \in {"put", "write", "fill"} => s.n \in Nat
    BY <1>3, AgendaFacts DEF IInv, Shape
  <1>6. s.do \in Verbs /\ s.n \in Int
    BY <1>5 DEF Statement
  <1>7. Tail(left[h]) \in Seq(InAgenda)
    BY HeadTailProperties DEF IInv, Shape
  <1> QED BY <1>3, <1>4, <1>5, <1>6, <1>7

\* An errand that gives up has nothing left: the end of it.
LEMMA NothingLeft ==
    ASSUME IInv, NEW h \in Handlers
    PROVE  << >> \in Seq(InAgenda) /\ \E k \in 0 .. Len(agenda[h]) : << >> = Rest(h, k)
  <1>1. Len(agenda[h]) \in Nat
    BY AgendaFacts, LenProperties DEF IInv, Shape
  <1>2. SubSeq(agenda[h], Len(agenda[h]) + 1, Len(agenda[h])) = << >>
    BY <1>1, SubSeqEmpty
  <1> QED BY <1>1, <1>2, EmptySeq DEF Rest

LEMMA ActKeeps ==
    ASSUME IInv, NEW h \in Handlers, Act(h)
    PROVE  IInv'
  <1> DEFINE s == Head(left[h])
             v == cell[s.at]
             on == Passes(s, v, hand[h])
  <1>1. left[h] # << >> /\ agenda' = agenda /\ start' = start
    BY DEF Act
  <1>2. PICK i \in 0 .. Len(agenda[h]) : Tail(left[h]) = Rest(h, i)
    BY <1>1, AtStatement
  <1>3. /\ s.do \in Verbs /\ s.n \in Int /\ s.at \in Touched(agenda)
        /\ s.do \in {"put", "write", "fill"} => s.n \in Nat
        /\ Tail(left[h]) \in Seq(InAgenda)
    BY <1>1, AtStatement
  <1>4. v \in Nat /\ hand[h] \in Nat
    BY <1>3 DEF IInv, Shape
  <1>5. Written(s, v, hand[h]) \in Nat /\ Remembered(s, v, hand[h]) \in Nat
    BY <1>3, <1>4, CountsStayNat
  <1>6. /\ cell' = [cell EXCEPT ![s.at] = Written(s, v, hand[h])]
        /\ hand' = [hand EXCEPT ![h] = Remembered(s, v, hand[h])]
    BY DEF Act
  <1>7. left' = [left EXCEPT ![h] = IF on THEN Tail(left[h]) ELSE << >>]
    BY DEF Act
  <1>8. held' = [held EXCEPT ![h] = IF left'[h] = << >> THEN {} ELSE held[h]]
    BY DEF Act
  <1>9. /\ inside' \in Handlers \cup {Nobody}
        /\ got' \in [Handlers -> SUBSET Touched(agenda)]
    <2>1. inside' = IF on /\ s.more THEN h ELSE Nobody
      BY DEF Act
    <2>2. got' = IF on /\ Takes(s) THEN [got EXCEPT ![h] = got[h] \cup {s.at}] ELSE got
      BY DEF Act
    <2>3. got' = got \/ got' = [got EXCEPT ![h] = got[h] \cup {s.at}]
      BY <2>2
    <2> HIDE DEF on, s
    <2>4. inside' \in Handlers \cup {Nobody}
      BY <2>1
    <2>5. got' \in [Handlers -> SUBSET Touched(agenda)]
      <3> DEFINE T == Touched(agenda)
      <3>1. got \in [Handlers -> SUBSET T] /\ s.at \in T
        BY <1>3 DEF IInv, Shape
      <3> HIDE DEF T
      <3>2. got[h] \cup {s.at} \in SUBSET T
        BY <3>1
      <3> QED BY <2>3, <3>1, <3>2 DEF T
    <2> QED BY <2>4, <2>5
  <1> HIDE DEF on, s, v
  <1>10. left' \in [Handlers -> Seq(InAgenda)] /\ InAgenda' = InAgenda
    BY <1>1, <1>3, <1>7, NothingLeft DEF IInv, Shape, InAgenda
  <1>11. cell' \in [Touched(agenda) -> Nat] /\ hand' \in [Handlers -> Nat]
    BY <1>5, <1>6, <1>3 DEF IInv, Shape
  <1>12. held' \in [Handlers -> SUBSET Mutexes] /\ \A g \in Handlers : held'[g] \subseteq held[g]
    <2>1. held' = [held EXCEPT ![h] = {}] \/ held' = held
      BY <1>8 DEF IInv, Shape
    <2> QED BY <2>1 DEF IInv, Shape
  <1>13. Shape'
    BY <1>1, <1>9, <1>10, <1>11, <1>12 DEF IInv, Shape
  <1>14. Ends'
    <2> SUFFICES ASSUME NEW g \in Handlers
                 PROVE  \E k \in 0 .. Len(agenda[g]) : left'[g] = Rest(g, k)
      BY <1>1 DEF Ends, Rest
    <2>1. CASE g # h
      <3>1. left'[g] = left[g]
        BY <1>7, <2>1 DEF IInv, Shape
      <3> QED BY <3>1 DEF IInv, Ends
    <2>2. CASE g = h
      <3>1. left'[h] = Tail(left[h]) \/ left'[h] = << >>
        BY <1>7 DEF IInv, Shape
      <3> QED BY <2>2, <3>1, <1>2, NothingLeft
    <2> QED BY <2>1, <2>2
  <1>15. OneHolder'
    BY <1>12 DEF IInv, OneHolder
  <1> QED BY <1>13, <1>14, <1>15 DEF IInv

LEMMA GuardKeeps ==
    ASSUME IInv, NEW h \in Handlers, Guard(h)
    PROVE  IInv'
  <1> DEFINE s == Head(left[h])
  <1>1. /\ left[h] # << >> /\ s.at \in Mutexes
        /\ UNCHANGED <<cell, hand, inside, start, agenda, got>>
    BY DEF Guard
  <1>2. PICK i \in 0 .. Len(agenda[h]) : Tail(left[h]) = Rest(h, i)
    BY <1>1, AtStatement
  <1>3. Tail(left[h]) \in Seq(InAgenda)
    BY <1>1, AtStatement
  <1>4. left' = [left EXCEPT ![h] = Tail(left[h])]
    BY DEF Guard
  <1>5. s.do = "lock" => \A g \in Handlers : s.at \notin held[g]
    BY DEF Guard
  <1>6. held' = [g \in Handlers |->
                     IF g = h /\ Tail(left[h]) = << >> THEN {}
                     ELSE IF s.do # "lock" THEN held[g] \ {s.at}
                     ELSE IF g = h THEN held[g] \cup {s.at} ELSE held[g]]
    BY DEF Guard
  <1> HIDE DEF s
  <1>7. \A g \in Handlers :
            \/ held'[g] \subseteq held[g]
            \/ g = h /\ s.do = "lock" /\ held'[g] = held[g] \cup {s.at}
    BY <1>6
  <1>8. held' \in [Handlers -> SUBSET Mutexes]
    <2>1. held \in [Handlers -> SUBSET Mutexes]
      BY DEF IInv, Shape
    <2>2. \A g \in Handlers : held'[g] \in SUBSET Mutexes
      BY <1>1, <1>7, <2>1
    <2>3. held' = [g \in Handlers |-> held'[g]]
      BY <1>6
    <2> QED BY <2>2, <2>3
  <1>9. OneHolder'
    <2> SUFFICES ASSUME NEW g \in Handlers, NEW f \in Handlers, g # f
                 PROVE  held'[g] \cap held'[f] = {}
      BY DEF OneHolder
    <2>1. held[g] \cap held[f] = {}
      BY DEF IInv, OneHolder
    <2> QED BY <1>5, <1>7, <2>1
  <1>10. left' \in [Handlers -> Seq(InAgenda)] /\ InAgenda' = InAgenda
    BY <1>1, <1>3, <1>4 DEF IInv, Shape, InAgenda
  <1>11. Ends'
    <2> SUFFICES ASSUME NEW g \in Handlers
                 PROVE  \E k \in 0 .. Len(agenda[g]) : left'[g] = Rest(g, k)
      BY <1>1 DEF Ends, Rest
    <2>1. CASE g # h
      <3>1. left'[g] = left[g]
        BY <1>4, <2>1 DEF IInv, Shape
      <3> QED BY <3>1 DEF IInv, Ends
    <2>2. CASE g = h
      <3>1. left'[h] = Tail(left[h])
        BY <1>4 DEF IInv, Shape
      <3> QED BY <2>2, <3>1, <1>2
    <2> QED BY <2>1, <2>2
  <1>12. Shape'
    BY <1>1, <1>8, <1>10 DEF IInv, Shape
  <1> QED BY <1>9, <1>11, <1>12 DEF IInv

LEMMA StepKeeps == IInv /\ [Next]_vars => IInv'
  <1> SUFFICES ASSUME IInv, [Next]_vars PROVE IInv'
    OBVIOUS
  <1>1. ASSUME NEW h \in Handlers, Act(h) PROVE IInv'
    BY <1>1, ActKeeps
  <1>2. ASSUME NEW h \in Handlers, Guard(h) PROVE IInv'
    BY <1>2, GuardKeeps
  <1>3. CASE UNCHANGED vars
    <2>1. UNCHANGED <<cell, left, hand, inside, held, start, agenda, got>>
      BY <1>3 DEF vars
    <2>2. InAgenda' = InAgenda /\ \A h, k : Rest(h, k)' = Rest(h, k)
      BY <2>1 DEF InAgenda, Rest
    <2>3. Shape'
      BY <2>1, <2>2 DEF IInv, Shape
    <2>4. Ends'
      BY <2>1, <2>2 DEF IInv, Ends
    <2>5. OneHolder'
      BY <2>1 DEF IInv, OneHolder
    <2> QED BY <2>3, <2>4, <2>5 DEF IInv
  <1> QED BY <1>1, <1>2, <1>3 DEF Next

LEMMA InvType == IInv => TypeOK
  <1> SUFFICES ASSUME IInv PROVE TypeOK
    OBVIOUS
  <1>1. \A h \in Handlers : agenda[h] \in Seq(InAgenda)
    BY AgendaFacts DEF IInv, Shape
  <1>2. \A h \in Handlers : IsSuffix(left[h], agenda[h])
    BY <1>1, EndIsSuffix DEF IInv, Ends, Rest
  <1> QED BY <1>2 DEF IInv, Shape, OneHolder, TypeOK, InAgenda

\* Whatever errands meet, counts stay natural numbers, a mutex has one holder and
\* a handler has the end of its errand left.
THEOREM TypeCorrect == Spec => []TypeOK
  <1>1. Spec => []IInv
    BY Initially, StepKeeps, PTL DEF Spec
  <1> QED BY <1>1, InvType, PTL

-----------------------------------------------------------------------------
(* Claims.                                                                  *)

\* There is one at most to be got in c, and errands get at it by statements that
\* look at the row and report what they did: a conditional UPDATE, whose result is
\* looked at.
OnlyClaimed(c) ==
    /\ start[c] <= 1
    /\ \A h \in Handlers : \A i \in DOMAIN agenda[h] :
          agenda[h][i].at = c =>
              \/ agenda[h][i].do \in {"need", "trust", "below", "same", "read", "empty"}
              \/ agenda[h][i].do = "must" /\ agenda[h][i].n <= 0

\* Once it is got it is gone, and one handler has it.
ClaimOf(c) ==
    OnlyClaimed(c) =>
        /\ cell[c] <= 1
        /\ (\E h \in Handlers : c \in got[h]) => cell[c] = 0
        /\ \A g, h \in Handlers : g # h => c \notin got[g] \cap got[h]

Claimed == \A c \in Touched(agenda) : ClaimOf(c)

LEMMA ClaimsInitially == Init => Claimed
  BY StartsAssumption DEF Init, Claimed, ClaimOf, OnlyClaimed

LEMMA ActClaims ==
    ASSUME IInv, Claimed, NEW h \in Handlers, Act(h), NEW c \in Touched(agenda),
           OnlyClaimed(c)
    PROVE  /\ cell'[c] <= 1
           /\ (\E g \in Handlers : c \in got'[g]) => cell'[c] = 0
           /\ \A f, g \in Handlers : f # g => c \notin got'[f] \cap got'[g]
  <1> DEFINE s == Head(left[h])
             v == cell[s.at]
             on == Passes(s, v, hand[h])
  <1>1. left[h] # << >>
    BY DEF Act
  <1>2. PICK i \in 1 .. Len(agenda[h]) : s = agenda[h][i]
    BY <1>1, AtStatement
  <1>3. s.do \in Verbs /\ s.n \in Int /\ s.at \in Touched(agenda)
    BY <1>1, AtStatement
  <1>4. v \in Nat /\ cell[c] \in Nat
    BY <1>3 DEF IInv, Shape
  <1>5. /\ cell' = [cell EXCEPT ![s.at] = Written(s, v, hand[h])]
        /\ got' = IF on /\ Takes(s) THEN [got EXCEPT ![h] = got[h] \cup {s.at}] ELSE got
    BY DEF Act
  <1>6. /\ cell[c] <= 1
        /\ (\E g \in Handlers : c \in got[g]) => cell[c] = 0
        /\ \A f, g \in Handlers : f # g => c \notin got[f] \cap got[g]
    BY DEF Claimed, ClaimOf
  <1>7. i \in DOMAIN agenda[h]
    BY LenProperties, AgendaFacts DEF IInv, Shape
  <1>8. s.at = c => \/ s.do \in {"need", "trust", "below", "same", "read", "empty"}
                    \/ s.do = "must" /\ s.n <= 0
    BY <1>2, <1>7 DEF OnlyClaimed
  <1>9. s.at = c => /\ Written(s, v, hand[h]) <= v
                    /\ Written(s, v, hand[h]) \in Nat
                    /\ on /\ Takes(s) => v > 0 /\ Written(s, v, hand[h]) < v
    <2> SUFFICES ASSUME s.at = c
                 PROVE  /\ Written(s, v, hand[h]) <= v
                        /\ Written(s, v, hand[h]) \in Nat
                        /\ on /\ Takes(s) => v > 0 /\ Written(s, v, hand[h]) < v
      OBVIOUS
    <2> HIDE DEF s, v
    <2>1. CASE s.do \in {"need", "trust", "below", "same", "read"}
      <3>1. Written(s, v, hand[h]) = v
        BY <2>1 DEF Written
      <3>2. ~Takes(s)
        BY <2>1 DEF Takes
      <3> QED BY <1>4, <3>1, <3>2
    <2>2. CASE s.do = "empty"
      <3>1. Written(s, v, hand[h]) = 0
        BY <2>2 DEF Written
      <3>2. on => v > 0
        BY <2>2 DEF Passes
      <3> QED BY <1>4, <3>1, <3>2
    <2>3. CASE s.do = "must" /\ s.n <= 0
      <3>1. Written(s, v, hand[h]) = IF v + s.n >= 0 THEN v + s.n ELSE v
        BY <2>3 DEF Written
      <3>2. /\ on => v + s.n >= 0
            /\ Takes(s) => s.n < 0
        BY <2>3 DEF Passes, Takes
      <3> HIDE DEF on
      <3> QED BY <1>3, <1>4, <2>3, <3>1, <3>2
    <2> QED BY <1>8, <2>1, <2>2, <2>3
  <1>10. cell \in [Touched(agenda) -> Nat] /\ got \in [Handlers -> SUBSET Touched(agenda)]
    BY DEF IInv, Shape
  <1> HIDE DEF s, v, on
  <1>11. CASE s.at = c /\ on /\ Takes(s)
    <2>1. cell[c] = 1 /\ v = 1
      BY <1>4, <1>6, <1>9, <1>11 DEF v
    <2>2. cell'[c] = 0
      BY <1>3, <1>5, <1>9, <1>10, <1>11, <2>1
    <2>3. \A g \in Handlers : c \notin got[g]
      BY <1>6, <2>1
    <2>4. \A g \in Handlers : g # h => got'[g] = got[g]
      BY <1>5, <1>10
    <2> QED BY <2>2, <2>3, <2>4
  <1>12. CASE s.at = c /\ ~(on /\ Takes(s))
    <2>1. got' = got
      BY <1>5, <1>12
    <2>2. cell'[c] <= cell[c] /\ cell'[c] \in Nat
      BY <1>3, <1>5, <1>9, <1>10, <1>12 DEF v
    <2> QED BY <1>4, <1>6, <2>1, <2>2
  <1>13. CASE s.at # c
    <2>1. cell'[c] = cell[c]
      BY <1>5, <1>10, <1>13
    <2>2. \A g \in Handlers : c \in got'[g] => c \in got[g]
      <3>1. got' = got \/ got' = [got EXCEPT ![h] = got[h] \cup {s.at}]
        BY <1>5
      <3> QED BY <3>1, <1>10, <1>13
    <2> QED BY <1>6, <2>1, <2>2
  <1> QED BY <1>11, <1>12, <1>13

LEMMA StepClaims == IInv /\ Claimed /\ [Next]_vars => Claimed'
  <1> SUFFICES ASSUME IInv, Claimed, [Next]_vars PROVE Claimed'
    OBVIOUS
  <1>1. ASSUME NEW h \in Handlers, Act(h) PROVE Claimed'
    <2>1. agenda' = agenda /\ start' = start
      BY <1>1 DEF Act
    <2>2. \A c \in Touched(agenda) : OnlyClaimed(c) => ClaimOf(c)'
      BY <1>1, ActClaims DEF ClaimOf
    <2>3. \A c : OnlyClaimed(c)' = OnlyClaimed(c)
      BY <2>1 DEF OnlyClaimed
    <2> QED BY <2>1, <2>2, <2>3 DEF Claimed, ClaimOf
  <1>2. ASSUME NEW h \in Handlers, Guard(h) PROVE Claimed'
    BY <1>2 DEF Guard, Claimed, ClaimOf, OnlyClaimed
  <1>3. CASE UNCHANGED vars
    BY <1>3 DEF vars, Claimed, ClaimOf, OnlyClaimed
  <1> QED BY <1>1, <1>2, <1>3 DEF Next

\* Where the things that are there once are only got by conditional UPDATEs that
\* are looked at, one handler gets each, however many handlers there are.
THEOREM ClaimsAreExclusive ==
    Spec => []((\A c \in Touched(agenda) : Single(c) /\ start[c] <= 1 => OnlyClaimed(c))
                   => ClaimsExclusive)
  <1>1. IInv /\ Claimed =>
            ((\A c \in Touched(agenda) : Single(c) /\ start[c] <= 1 => OnlyClaimed(c))
                => ClaimsExclusive)
    <2> SUFFICES ASSUME IInv, Claimed,
                        \A c \in Touched(agenda) : Single(c) /\ start[c] <= 1
                                                       => OnlyClaimed(c)
                 PROVE  ClaimsExclusive
      OBVIOUS
    <2> SUFFICES ASSUME NEW g \in Handlers, NEW h \in Handlers, g # h,
                        NEW c \in got[g] \cap got[h], Single(c)
                 PROVE  start[c] > 1
      BY DEF ClaimsExclusive
    <2>1. c \in Touched(agenda) /\ start[c] \in Nat
      BY DEF IInv, Shape
    <2>2. ~OnlyClaimed(c)
      BY <2>1 DEF Claimed, ClaimOf
    <2> QED BY <2>1, <2>2
  <1>2. Spec => [](IInv /\ Claimed)
    BY Initially, StepKeeps, ClaimsInitially, StepClaims, PTL DEF Spec
  <1> QED BY <1>1, <1>2, PTL

-----------------------------------------------------------------------------
(* Mutexes.                                                                 *)

\* How many statements a handler has executed.
At(h) == Len(agenda[h]) - Len(left[h])

\* Every unlock gives back a mutex the errand has locked.
Disciplined ==
    \A h \in Handlers : \A i \in 1 .. Len(agenda[h]) :
        agenda[h][i].do = "unlock" => agenda[h][i].at \in MutexesAt(agenda[h], i)

\* Every errand reaches c under m only.
GuardedBy(c, m) ==
    \A h \in Handlers : \A i \in 1 .. Len(agenda[h]) :
        agenda[h][i].at = c => m \in MutexesAt(agenda[h], i)

\* A handler that has done its first k statements has m since before the i-th, and
\* has only looked at c in between.
HeldSince(p, i, k, m) ==
    m \in MutexesAt(p, i) /\ \A j \in i .. k : p[j].do = "unlock" => p[j].at # m
OnlyLooked(p, i, k, c) ==
    \A j \in i + 1 .. k : p[j].at = c => p[j].do \in {"need", "trust", "below", "same", "read"}

\* What a handler has checked under the mutex of a cell is still so.
ChecksStand ==
    \A h \in Handlers, c \in Touched(agenda), m \in Mutexes :
        left[h] # << >> /\ GuardedBy(c, m) =>
            \A i \in 1 .. At(h) :
                LET s == agenda[h][i]
                IN  /\ s.at = c /\ s.do \in {"need", "trust", "below"}
                    /\ HeldSince(agenda[h], i, At(h), m)
                    /\ OnlyLooked(agenda[h], i, At(h), c)
                    => Passes(s, cell[c], hand[h])

\* The mutexes an errand has locked by now are its handler's.
Locked ==
    \A h \in Handlers : left[h] # << >> => MutexesAt(agenda[h], At(h) + 1) \subseteq held[h]

LEMMA AtFacts ==
    ASSUME IInv, NEW h \in Handlers, left[h] # << >>
    PROVE  /\ At(h) \in Nat /\ At(h) + 1 \in 1 .. Len(agenda[h])
           /\ Head(left[h]) = agenda[h][At(h) + 1]
           /\ Len(agenda[h]) - Len(Tail(left[h])) = At(h) + 1
  <1> DEFINE p == agenda[h]
  <1>1. p \in Seq(InAgenda) /\ Len(p) \in Nat
    BY AgendaFacts, LenProperties DEF IInv, Shape
  <1>2. PICK k \in 0 .. Len(p) : left[h] = SubSeq(p, k + 1, Len(p))
    BY DEF IInv, Ends, Rest
  <1>3. k + 1 \in 1 .. Len(p) /\ Head(left[h]) = p[k + 1]
    BY <1>1, <1>2, RestFacts
  <1>4. left[h] \in Seq(InAgenda)
    BY DEF IInv, Shape
  <1>5. Len(left[h]) = Len(p) - k
    <2>1. Len(left[h]) = IF k + 1 <= Len(p) THEN Len(p) - (k + 1) + 1 ELSE 0
      <3>1. k + 1 \in Int /\ Len(p) \in Int /\ \A i \in k + 1 .. Len(p) : p[i] \in InAgenda
        BY <1>1, <1>2, ElementOfSeq
      <3> QED BY <1>2, <3>1, SubSeqProperties
    <2> QED BY <1>1, <1>2, <1>3, <2>1
  <1>6. Len(Tail(left[h])) = Len(left[h]) - 1
    BY <1>4, HeadTailProperties
  <1>7. At(h) = k
    BY <1>1, <1>2, <1>5 DEF At
  <1>8. k \in Nat /\ Len(p) - Len(Tail(left[h])) = k + 1
    <2> DEFINE n == Len(p)
               l == Len(left[h])
               r == Len(Tail(left[h]))
    <2>1. n \in Nat /\ k \in 0 .. n /\ l = n - k /\ r = l - 1
      BY <1>1, <1>5, <1>6
    <2> HIDE DEF n, l, r
    <2>2. k \in Nat /\ n - r = k + 1
      BY <2>1
    <2> QED BY <2>2 DEF n, r
  <1> QED BY <1>3, <1>7, <1>8, Zenon

\* A statement that is not a lock adds no mutex; an unlock takes its own away.
LEMMA MutexesNext ==
    ASSUME NEW p, NEW i \in Nat, NEW m \in MutexesAt(p, i + 1)
    PROVE  /\ m \in MutexesAt(p, i) \/ (p[i].do = "lock" /\ p[i].at = m)
           /\ p[i].do = "unlock" => p[i].at # m
  <1>1. i + 1 - 1 = i
    OBVIOUS
  <1>2. /\ m \in Mutexes
        /\ \E j \in 1 .. i : /\ p[j].do = "lock" /\ p[j].at = m
                             /\ \A k \in j .. i : p[k].do = "unlock" => p[k].at # m
    BY <1>1 DEF MutexesAt
  <1>3. PICK j \in 1 .. i : /\ p[j].do = "lock" /\ p[j].at = m
                            /\ \A k \in j .. i : p[k].do = "unlock" => p[k].at # m
    BY <1>2
  <1>4. i \in j .. i
    OBVIOUS
  <1>5. CASE j = i
    BY <1>3, <1>4, <1>5
  <1>6. CASE j # i
    <2>1. j \in 1 .. i - 1 /\ \A k \in j .. i - 1 : k \in j .. i
      BY <1>6
    <2> QED BY <1>2, <1>3, <1>4, <2>1 DEF MutexesAt
  <1> QED BY <1>5, <1>6

LEMMA HeldIsAt ==
    ASSUME NEW p, NEW k \in Nat, NEW i \in 1 .. k, NEW m \in Mutexes, HeldSince(p, i, k, m)
    PROVE  m \in MutexesAt(p, k + 1)
  <1>1. PICK j \in 1 .. i - 1 : /\ p[j].do = "lock" /\ p[j].at = m
                                /\ \A l \in j .. i - 1 : p[l].do = "unlock" => p[l].at # m
    BY DEF HeldSince, MutexesAt
  <1>2. \A l \in j .. k : p[l].do = "unlock" => p[l].at # m
    <2> SUFFICES ASSUME NEW l \in j .. k PROVE p[l].do = "unlock" => p[l].at # m
      OBVIOUS
    <2>1. l \in j .. i - 1 \/ l \in i .. k
      OBVIOUS
    <2> QED BY <1>1, <2>1 DEF HeldSince
  <1>3. j \in 1 .. k + 1 - 1 /\ k + 1 - 1 = k
    OBVIOUS
  <1> QED BY <1>1, <1>2, <1>3 DEF MutexesAt

\* Only locks and unlocks are about mutexes.
LEMMA MutexStatements ==
    ASSUME IInv, NEW h \in Handlers, NEW i \in 1 .. Len(agenda[h])
    PROVE  agenda[h][i].do \in {"lock", "unlock"} <=> agenda[h][i].at \in Mutexes
  <1>1. agenda \in Agendas
    BY DEF IInv, Shape
  <1>2. Errand(agenda[h])
    BY <1>1, AgendasAssumption
  <1>3. agenda[h] \in Seq(InAgenda)
    BY <1>1, AgendaFacts
  <1>4. i \in DOMAIN agenda[h]
    BY <1>3, LenProperties
  <1> QED BY <1>2, <1>4 DEF Errand

LockInv == Locked /\ ChecksStand

LEMMA LocksInitially == Init => LockInv
  <1> SUFFICES ASSUME Init PROVE LockInv
    OBVIOUS
  <1>1. IInv /\ left = agenda
    BY Initially DEF Init
  <1>2. \A h \in Handlers : At(h) = 0
    <2> SUFFICES ASSUME NEW h \in Handlers PROVE At(h) = 0
      OBVIOUS
    <2>1. Len(agenda[h]) \in Nat
      BY <1>1, AgendaFacts, LenProperties DEF IInv, Shape
    <2> QED BY <1>1, <2>1 DEF At
  <1>3. \A h \in Handlers : MutexesAt(agenda[h], At(h) + 1) = {}
    BY <1>2 DEF MutexesAt
  <1>4. Locked
    BY <1>3 DEF Locked
  <1>5. ChecksStand
    BY <1>2 DEF ChecksStand
  <1> QED BY <1>4, <1>5 DEF LockInv

\* The handlers' positions and the constants of an agenda, after a step of h.
LEMMA Positions ==
    ASSUME IInv, NEW h \in Handlers, Act(h) \/ Guard(h)
    PROVE  /\ left[h] # << >> /\ agenda' = agenda
           /\ \A g \in Handlers \ {h} : left'[g] = left[g] /\ At(g)' = At(g)
           /\ left'[h] # << >> => At(h)' = At(h) + 1 /\ left'[h] = Tail(left[h])
           /\ \A c, m : GuardedBy(c, m)' = GuardedBy(c, m)
  <1>1. left[h] # << >> /\ agenda' = agenda
    BY DEF Act, Guard
  <1>2. left' = [left EXCEPT ![h] = Tail(left[h])] \/ left' = [left EXCEPT ![h] = << >>]
    BY DEF Act, Guard
  <1>3. /\ \A g \in Handlers \ {h} : left'[g] = left[g]
        /\ left'[h] # << >> => left'[h] = Tail(left[h])
    BY <1>2 DEF IInv, Shape
  <1>4. \A g \in Handlers \ {h} : At(g)' = At(g)
    BY <1>1, <1>3 DEF At
  <1>5. left'[h] # << >> => At(h)' = At(h) + 1
    BY <1>1, <1>3, AtFacts DEF At
  <1>6. \A c, m : GuardedBy(c, m)' = GuardedBy(c, m)
    BY <1>1 DEF GuardedBy
  <1> QED BY <1>1, <1>3, <1>4, <1>5, <1>6

LEMMA ActLocked ==
    ASSUME IInv, Locked, NEW h \in Handlers, Act(h)
    PROVE  Locked'
  <1>1. /\ left[h] # << >> /\ agenda' = agenda
        /\ \A g \in Handlers \ {h} : left'[g] = left[g] /\ At(g)' = At(g)
        /\ left'[h] # << >> => At(h)' = At(h) + 1
    BY Positions
  <1>2. held' = [held EXCEPT ![h] = IF left'[h] = << >> THEN {} ELSE held[h]]
    BY DEF Act
  <1>3. /\ \A g \in Handlers \ {h} : held'[g] = held[g]
        /\ left'[h] # << >> => held'[h] = held[h]
    BY <1>2 DEF IInv, Shape
  <1>4. ASSUME NEW g \in Handlers, g # h, left'[g] # << >>
        PROVE  MutexesAt(agenda[g], At(g)' + 1) \subseteq held'[g]
    BY <1>1, <1>3, <1>4 DEF Locked
  <1>5. ASSUME left'[h] # << >>, NEW m \in MutexesAt(agenda[h], At(h)' + 1)
        PROVE  m \in held'[h]
    <2> DEFINE i == At(h) + 1
    <2>1. i \in Nat /\ i \in 1 .. Len(agenda[h]) /\ m \in MutexesAt(agenda[h], i + 1)
      <3>1. At(h) \in Nat /\ i \in 1 .. Len(agenda[h])
        BY <1>1, AtFacts
      <3>2. At(h)' = i
        BY <1>1, <1>5
      <3> QED BY <1>5, <3>1, <3>2
    <2>2. agenda[h][i].do # "lock"
      <3>1. agenda[h][i].at \notin Mutexes
        BY <1>1, AtFacts DEF Act
      <3> QED BY <2>1, <3>1, MutexStatements
    <2>3. m \in MutexesAt(agenda[h], i)
      <3> HIDE DEF i
      <3> QED BY <2>1, <2>2, MutexesNext
    <2> QED BY <1>1, <1>3, <1>5, <2>3 DEF Locked
  <1> QED BY <1>1, <1>4, <1>5 DEF Locked

LEMMA GuardLocked ==
    ASSUME IInv, Locked, Disciplined, NEW h \in Handlers, Guard(h)
    PROVE  Locked'
  <1> DEFINE i == At(h) + 1
             s == agenda[h][i]
  <1>1. /\ left[h] # << >> /\ agenda' = agenda
        /\ \A g \in Handlers \ {h} : left'[g] = left[g] /\ At(g)' = At(g)
        /\ left'[h] # << >> => At(h)' = i /\ left'[h] = Tail(left[h])
    BY Positions
  <1>2. i \in Nat /\ i \in 1 .. Len(agenda[h]) /\ s = Head(left[h])
    <2>1. At(h) \in Nat /\ i \in 1 .. Len(agenda[h]) /\ s = Head(left[h])
      BY <1>1, AtFacts
    <2> QED BY <2>1
  <1>3. s.do \in {"lock", "unlock"}
    BY <1>2, MutexStatements DEF Guard
  <1>4. held' = [g \in Handlers |->
                     IF g = h /\ Tail(left[h]) = << >> THEN {}
                     ELSE IF s.do # "lock" THEN held[g] \ {s.at}
                     ELSE IF g = h THEN held[g] \cup {s.at} ELSE held[g]]
    BY <1>2 DEF Guard
  <1>5. MutexesAt(agenda[h], i) \subseteq held[h]
    BY <1>1 DEF Locked
  <1>6. s.do = "unlock" => s.at \in held[h]
    BY <1>2, <1>5 DEF Disciplined
  <1> HIDE DEF i, s
  <1>7. ASSUME NEW g \in Handlers, g # h PROVE held'[g] = held[g]
    <2>1. s.do = "unlock" => s.at \notin held[g]
      BY <1>6, <1>7 DEF IInv, OneHolder
    <2> QED BY <1>3, <1>4, <1>7, <2>1
  <1>8. ASSUME NEW g \in Handlers, g # h, left'[g] # << >>
        PROVE  MutexesAt(agenda[g], At(g)' + 1) \subseteq held'[g]
    <2>1. held'[g] = held[g]
      BY <1>7, <1>8
    <2> QED BY <1>1, <1>8, <2>1 DEF Locked
  <1>9. ASSUME left'[h] # << >>, NEW m \in MutexesAt(agenda[h], At(h)' + 1)
        PROVE  m \in held'[h]
    <2>1. m \in MutexesAt(agenda[h], i + 1)
      BY <1>1, <1>9
    <2>2. /\ m \in MutexesAt(agenda[h], i) \/ (s.do = "lock" /\ s.at = m)
          /\ s.do = "unlock" => s.at # m
      BY <1>2, <2>1, MutexesNext DEF s
    <2>3. Tail(left[h]) # << >>
      BY <1>1, <1>9
    <2> QED BY <1>3, <1>4, <1>5, <2>2, <2>3
  <1> QED BY <1>1, <1>8, <1>9 DEF Locked

\* What i says still holds for h when a statement does not change the cell.
Stands(h, c, m, i) ==
    LET s == agenda[h][i]
    IN  /\ s.at = c /\ s.do \in {"need", "trust", "below"}
        /\ HeldSince(agenda[h], i, At(h), m)
        /\ OnlyLooked(agenda[h], i, At(h), c)
        => Passes(s, cell[c], hand[h])

LEMMA ChecksStandByParts ==
    ChecksStand <=>
        \A h \in Handlers, c \in Touched(agenda), m \in Mutexes :
            left[h] # << >> /\ GuardedBy(c, m) => \A i \in 1 .. At(h) : Stands(h, c, m, i)
  BY DEF ChecksStand, Stands

\* These checks ask the cell only, not what the handler remembers.
LEMMA CheckAsksCell ==
    ASSUME NEW s, s.do \in {"need", "trust", "below"}, NEW v, NEW k, NEW l
    PROVE  /\ Passes(s, v, k) <=> Passes(s, v, l)
           /\ Written(s, v, k) = v
  BY DEF Passes, Written

\* A check that stood before h' step stands after it where the cell is the same.
LEMMA StandsOn ==
    ASSUME IInv, NEW h \in Handlers, Act(h) \/ Guard(h), NEW f \in Handlers,
           NEW c \in Touched(agenda), NEW m \in Mutexes, NEW i \in 1 .. At(f),
           left'[f] # << >>, left[f] # << >>, Stands(f, c, m, i),
           HeldSince(agenda[f], i, At(f), m) /\ OnlyLooked(agenda[f], i, At(f), c)
               /\ agenda[f][i].at = c => cell'[c] = cell[c]
    PROVE  Stands(f, c, m, i)'
  <1>1. agenda' = agenda /\ (At(f)' = At(f) \/ At(f)' = At(f) + 1) /\ At(f) \in Nat
    BY Positions, AtFacts
  <1> DEFINE k == At(f)
             n == At(f)'
             p == agenda[f]
  <1> SUFFICES ASSUME p[i].at = c, p[i].do \in {"need", "trust", "below"},
                      HeldSince(p, i, n, m), OnlyLooked(p, i, n, c)
               PROVE  Passes(p[i], cell'[c], hand'[f])
    BY <1>1 DEF Stands
  <1>2. \A j \in i .. k : j \in i .. n
    BY <1>1
  <1>3. \A j \in i + 1 .. k : j \in i + 1 .. n
    BY <1>1
  <1>4. HeldSince(p, i, k, m) /\ OnlyLooked(p, i, k, c)
    BY <1>2, <1>3 DEF HeldSince, OnlyLooked
  <1>5. Passes(p[i], cell[c], hand[f])
    BY <1>4 DEF Stands
  <1>6. cell'[c] = cell[c]
    BY <1>4
  <1> QED BY <1>5, <1>6, CheckAsksCell

LEMMA ActStands ==
    ASSUME IInv, LockInv, NEW h \in Handlers, Act(h), NEW f \in Handlers,
           NEW c \in Touched(agenda), NEW m \in Mutexes, left'[f] # << >>, GuardedBy(c, m),
           NEW i \in 1 .. At(f)'
    PROVE  Stands(f, c, m, i)'
  <1> DEFINE p == agenda[f]
             s == Head(left[h])
             v == cell[s.at]
  <1>1. /\ left[h] # << >> /\ agenda' = agenda
        /\ \A g \in Handlers \ {h} : left'[g] = left[g] /\ At(g)' = At(g)
        /\ At(h)' = At(h) + 1 \/ left'[h] = << >>
    BY Positions
  <1>2. left[f] # << >>
    BY <1>1
  <1>3. /\ At(f) \in Nat /\ At(h) + 1 \in 1 .. Len(agenda[h])
        /\ s = agenda[h][At(h) + 1]
    BY <1>1, <1>2, AtFacts
  <1>4. /\ cell' = [cell EXCEPT ![s.at] = Written(s, v, hand[h])]
        /\ left' = [left EXCEPT ![h] = IF Passes(s, v, hand[h]) THEN Tail(left[h]) ELSE << >>]
    BY DEF Act
  <1>5. cell'[c] = IF c = s.at THEN Written(s, v, hand[h]) ELSE cell[c]
    BY <1>4 DEF IInv, Shape
  <1>6. \A j \in 1 .. At(f) : Stands(f, c, m, j)
    BY <1>2, ChecksStandByParts DEF LockInv
  <1>7. CASE f # h
    <2>1. i \in 1 .. At(f)
      BY <1>1, <1>7
    <2>2. ASSUME HeldSince(p, i, At(f), m) PROVE s.at # c
      <3>1. m \in held[f]
        <4>1. m \in MutexesAt(p, At(f) + 1)
          BY <1>3, <2>1, <2>2, HeldIsAt
        <4> QED BY <1>2, <4>1 DEF LockInv, Locked
      <3>2. ASSUME s.at = c PROVE m \in held[h]
        <4>1. m \in MutexesAt(agenda[h], At(h) + 1)
          BY <1>3, <3>2 DEF GuardedBy
        <4> QED BY <1>1, <4>1 DEF LockInv, Locked
      <3> QED BY <1>7, <3>1, <3>2 DEF IInv, OneHolder
    <2>3. HeldSince(p, i, At(f), m) => cell'[c] = cell[c]
      BY <1>5, <2>2
    <2> QED BY <1>2, <1>6, <2>1, <2>3, StandsOn
  <1>8. CASE f = h /\ i \in 1 .. At(f)
    <2> DEFINE n == At(h) + 1
    <2>1. At(f)' = n
      BY <1>1, <1>8
    <2>2. CASE s.at = c /\ s.do \notin {"need", "trust", "below", "same", "read"}
      <3>1. n \in i + 1 .. n
        BY <1>3, <1>8
      <3>2. ~OnlyLooked(p, i, n, c)
        BY <1>3, <1>8, <2>2, <3>1 DEF OnlyLooked
      <3> QED BY <1>1, <2>1, <3>2 DEF Stands
    <2>3. CASE s.at # c \/ s.do \in {"need", "trust", "below", "same", "read"}
      <3>1. s.at = c => Written(s, v, hand[h]) = cell[c]
        BY <2>3 DEF Written
      <3>2. cell'[c] = cell[c]
        BY <1>5, <3>1
      <3> QED BY <1>2, <1>6, <1>8, <3>2, StandsOn
    <2> QED BY <2>2, <2>3
  <1>9. CASE f = h /\ i \notin 1 .. At(f)
    <2>1. i = At(h) + 1
      <3>1. At(f)' = At(f) + 1
        BY <1>1, <1>9
      <3> QED BY <1>3, <1>9, <3>1
    <2>2. p[i] = s
      BY <1>3, <1>9, <2>1
    <2>3. Passes(s, v, hand[h])
      BY <1>4, <1>9 DEF IInv, Shape
    <2> SUFFICES ASSUME s.at = c, s.do \in {"need", "trust", "below"}
                 PROVE  Passes(s, cell'[c], hand'[f])
      BY <1>1, <2>2 DEF Stands
    <2>4. cell'[c] = v
      BY <1>5, CheckAsksCell
    <2> QED BY <2>3, <2>4, CheckAsksCell
  <1> QED BY <1>7, <1>8, <1>9

LEMMA GuardStands ==
    ASSUME IInv, LockInv, NEW h \in Handlers, Guard(h), NEW f \in Handlers,
           NEW c \in Touched(agenda), NEW m \in Mutexes, left'[f] # << >>, GuardedBy(c, m),
           NEW i \in 1 .. At(f)'
    PROVE  Stands(f, c, m, i)'
  <1>1. /\ left[h] # << >> /\ agenda' = agenda /\ cell' = cell
        /\ \A g \in Handlers \ {h} : left'[g] = left[g] /\ At(g)' = At(g)
        /\ At(h)' = At(h) + 1 \/ left'[h] = << >>
    BY Positions DEF Guard
  <1>2. left[f] # << >>
    BY <1>1
  <1>3. /\ At(f) \in Nat /\ At(h) + 1 \in 1 .. Len(agenda[h])
        /\ Head(left[h]) = agenda[h][At(h) + 1]
    BY <1>1, <1>2, AtFacts
  <1>4. CASE i \in 1 .. At(f)
    <2>1. Stands(f, c, m, i)
      BY <1>2, <1>4, ChecksStandByParts DEF LockInv
    <2> QED BY <1>1, <1>2, <1>4, <2>1, StandsOn
  <1>5. CASE i \notin 1 .. At(f)
    <2>1. f = h /\ i = At(h) + 1
      <3>1. f = h
        BY <1>1, <1>5
      <3>2. At(f)' = At(f) + 1
        BY <1>1, <3>1
      <3> QED BY <1>3, <1>5, <3>1, <3>2
    <2>2. agenda[h][At(h) + 1].do \in {"lock", "unlock"}
      BY <1>3, MutexStatements DEF Guard
    <2> QED BY <1>1, <2>1, <2>2 DEF Stands
  <1> QED BY <1>4, <1>5

LEMMA StepStands == IInv /\ LockInv /\ Disciplined /\ [Next]_vars => LockInv'
  <1> SUFFICES ASSUME IInv, LockInv, Disciplined, [Next]_vars PROVE LockInv'
    OBVIOUS
  <1>1. ASSUME NEW h \in Handlers, Act(h) \/ Guard(h) PROVE LockInv'
    <2>1. Locked'
      BY <1>1, ActLocked, GuardLocked DEF LockInv
    <2>2. /\ agenda' = agenda /\ Touched(agenda)' = Touched(agenda)
          /\ \A c, m : GuardedBy(c, m)' = GuardedBy(c, m)
      BY <1>1, Positions
    <2>3. ASSUME NEW f \in Handlers, NEW c \in Touched(agenda), NEW m \in Mutexes,
                 left'[f] # << >>, GuardedBy(c, m), NEW i \in 1 .. At(f)'
          PROVE  Stands(f, c, m, i)'
      BY <1>1, <2>3, ActStands, GuardStands
    <2>4. \A f \in Handlers, c \in Touched(agenda)', m \in Mutexes :
              left'[f] # << >> /\ GuardedBy(c, m)' => \A i \in 1 .. At(f)' : Stands(f, c, m, i)'
      BY <2>2, <2>3
    <2>5. ChecksStand'
      BY <2>4 DEF ChecksStand, Stands
    <2> QED BY <2>1, <2>5 DEF LockInv
  <1>2. CASE UNCHANGED vars
    <2>1. UNCHANGED <<cell, left, hand, held, agenda>>
      BY <1>2 DEF vars
    <2>2. Locked'
      BY <2>1 DEF LockInv, Locked, At
    <2>3. ChecksStand'
      BY <2>1 DEF LockInv, ChecksStand, At, GuardedBy
    <2> QED BY <2>2, <2>3 DEF LockInv
  <1> QED BY <1>1, <1>2 DEF Next

\* Where every errand reaches a cell under one mutex and gives back only what it
\* has locked, a check made under that mutex (a game is there, a seat is free) stays
\* true for as long as the handler keeps the mutex, however many handlers there are.
\* It is why the pattern Spoils asks for no more than a common mutex.
THEOREM MutexKeepsChecks == Spec => [](Disciplined => ChecksStand)
  <1>1. Init => LockInv
    BY LocksInitially
  <1>2. ~Disciplined /\ [Next]_vars => ~Disciplined'
    BY DEF Disciplined, Next, Act, Guard, vars
  <1>3. LockInv => ChecksStand
    BY DEF LockInv
  <1>4. Spec => []IInv
    BY Initially, StepKeeps, PTL DEF Spec
  <1>5. IInv /\ (Disciplined => LockInv) /\ [Next]_vars => (Disciplined => LockInv)'
    BY <1>2, StepStands
  <1> QED BY <1>1, <1>3, <1>4, <1>5, PTL DEF Spec

-----------------------------------------------------------------------------
(* Sums.  Total counts the units of a function one by one, so what a sum     *)
(* does when one summand changes follows from facts about finite sets.       *)

\* The units at one point are as many as its value says.
LEMMA UnitsAt ==
    ASSUME NEW x, NEW n \in Nat
    PROVE  IsFiniteSet({x} \X (1 .. n)) /\ Cardinality({x} \X (1 .. n)) = n
<1>1. IsFiniteSet({x}) /\ Cardinality({x}) = 1
  BY FS_Singleton
<1>2. IsFiniteSet(1 .. n) /\ Cardinality(1 .. n) = n
  BY FS_Interval
<1>3. IsFiniteSet({x} \X (1 .. n)) /\ Cardinality({x} \X (1 .. n)) = Cardinality({x}) * Cardinality(1 .. n)
  BY <1>1, <1>2, FS_Product, Zenon
<1>4. Cardinality({x}) * Cardinality(1 .. n) = 1 * n
  BY <1>1, <1>2, Zenon
<1>5. 1 * n = n
  OBVIOUS
<1> QED BY <1>3, <1>4, <1>5

\* A function on a finite set has finitely many units: Total is a number.
LEMMA TotalIsNat ==
    ASSUME NEW S, IsFiniteSet(S), NEW f \in [S -> Nat]
    PROVE  IsFiniteSet(Units(f)) /\ Total(f) \in Nat
<1> DEFINE columns == {{x} \X (1 .. f[x]) : x \in DOMAIN f}
           column == [x \in S |-> {x} \X (1 .. f[x])]
<1>1. column \in Surjection(S, columns)
  BY DEF Surjection
<1>2. IsFiniteSet(columns)
  BY <1>1, FS_Surjection
<1>3. ASSUME NEW C \in columns PROVE IsFiniteSet(C)
  <2>1. PICK x \in S : C = {x} \X (1 .. f[x])
    OBVIOUS
  <2> QED BY <2>1, f[x] \in Nat, UnitsAt
<1>4. IsFiniteSet(UNION columns)
  BY <1>2, <1>3, FS_UNION
<1>5. IsFiniteSet(Units(f))
  BY <1>4 DEF Units
<1> QED BY <1>5, FS_CardinalityType DEF Total

\* Units are pairs of a point and a number up to the value there.
LEMMA UnitIn ==
    ASSUME NEW S, NEW f \in [S -> Nat], NEW e
    PROVE  e \in Units(f) <=> \E x \in S : \E k \in 1 .. f[x] : e = <<x, k>>
BY DEF Units

\* What is left when the units at x are taken away does not depend on the value
\* at x, nor on whether x is a point at all.
LEMMA TotalSplit ==
    ASSUME NEW S, IsFiniteSet(S), NEW x, NEW f \in [S \cup {x} -> Nat], x \notin S
    PROVE  Total(f) = Total([y \in S |-> f[y]]) + f[x]
<1> DEFINE rest == [y \in S |-> f[y]]
           here == {x} \X (1 .. f[x])
<1>1. rest \in [S -> Nat] /\ f[x] \in Nat
  OBVIOUS
<1>2. IsFiniteSet(Units(rest)) /\ IsFiniteSet(here) /\ Cardinality(here) = f[x]
  BY <1>1, TotalIsNat, UnitsAt
<1>3. Units(f) = Units(rest) \cup here
  BY DEF Units
<1>4. Units(rest) \cap here = {}
  BY DEF Units
<1>5. Total(rest) \in Nat
  BY <1>1, TotalIsNat
<1> HIDE DEF rest, here
<1>6. Cardinality(Units(rest) \cup here) = Cardinality(Units(rest)) + Cardinality(here)
  BY <1>2, <1>4, <1>5, <1>1, FS_Union, FS_EmptySet DEF Total
<1> QED BY <1>2, <1>3, <1>6 DEF Total, rest

\* One summand changes: the sum changes by as much.
LEMMA TotalUpdate ==
    ASSUME NEW S, IsFiniteSet(S), NEW f \in [S -> Nat], NEW g \in [S -> Nat],
           NEW x \in S, \A y \in S \ {x} : g[y] = f[y]
    PROVE  Total(g) = Total(f) + g[x] - f[x]
<1> DEFINE R == S \ {x}
<1>1. IsFiniteSet(R) /\ x \notin R /\ S = R \cup {x}
  BY FS_Difference
<1>2. [y \in R |-> f[y]] = [y \in R |-> g[y]]
  OBVIOUS
<1>3. [y \in R |-> f[y]] \in [R -> Nat] /\ f[x] \in Nat /\ g[x] \in Nat
  OBVIOUS
<1>4. Total([y \in R |-> f[y]]) \in Nat
  BY <1>1, <1>3, TotalIsNat
<1>5. f \in [R \cup {x} -> Nat] /\ g \in [R \cup {x} -> Nat]
  BY <1>1
<1> HIDE DEF R
<1>6. Total(f) = Total([y \in R |-> f[y]]) + f[x]
  BY <1>1, <1>5, TotalSplit
<1>7. Total(g) = Total([y \in R |-> g[y]]) + g[x]
  BY <1>1, <1>5, TotalSplit
<1> QED BY <1>2, <1>3, <1>4, <1>6, <1>7

\* A sum of zeros is zero.
LEMMA TotalZero ==
    ASSUME NEW S, NEW f \in [S -> Nat], \A x \in S : f[x] = 0
    PROVE  Total(f) = 0
<1>1. Units(f) = {}
  BY DEF Units
<1> QED BY <1>1, FS_EmptySet DEF Total

\* Summands that are no larger have no larger sum.
LEMMA TotalMonotone ==
    ASSUME NEW S, IsFiniteSet(S), NEW f \in [S -> Nat], NEW g \in [S -> Nat],
           \A x \in S : f[x] <= g[x]
    PROVE  Total(f) <= Total(g)
<1>1. Units(f) \subseteq Units(g)
  <2> SUFFICES ASSUME NEW x \in S, NEW k \in 1 .. f[x] PROVE <<x, k>> \in Units(g)
    BY UnitIn DEF Units
  <2>1. k \in 1 .. g[x]
    OBVIOUS
  <2> QED BY <2>1, UnitIn
<1> QED BY <1>1, TotalIsNat, FS_Subset DEF Total


-----------------------------------------------------------------------------
(* Steps.                                                                   *)

\* Whether the next statement of h is its last one.
LEMMA LastStatement ==
    ASSUME IInv, NEW h \in Handlers, left[h] # << >>
    PROVE  Tail(left[h]) = << >> <=> At(h) + 1 = Len(agenda[h])
  <1>1. Tail(left[h]) \in Seq(InAgenda)
    BY AtStatement
  <1>2. Tail(left[h]) = << >> <=> Len(Tail(left[h])) = 0
    BY <1>1, EmptySeq, LenProperties
  <1>3. Len(agenda[h]) - Len(Tail(left[h])) = At(h) + 1
    BY AtFacts
  <1>4. Len(agenda[h]) \in Nat /\ Len(Tail(left[h])) \in Nat
    BY <1>1, AgendaFacts, LenProperties DEF IInv, Shape
  <1> DEFINE n == Len(agenda[h])
             r == Len(Tail(left[h]))
             k == At(h)
  <1>5. k \in Nat /\ n \in Nat /\ r \in Nat /\ n - r = k + 1
    BY <1>3, <1>4, AtFacts
  <1> HIDE DEF n, r, k
  <1>6. r = 0 <=> k + 1 = n
    BY <1>5
  <1> QED BY <1>2, <1>6 DEF n, r, k

\* What h is at, and what a step of it does to its position.
LEMMA ActSteps ==
    ASSUME IInv, NEW h \in Handlers, Act(h)
    PROVE  LET i == At(h) + 1
               s == agenda[h][i]
           IN  /\ left[h] # << >> /\ i \in 1 .. Len(agenda[h]) /\ At(h) \in Nat
               /\ s.at \in Touched(agenda) \ Mutexes /\ s.do \in Verbs /\ s.n \in Int
               /\ s.do \in {"put", "write", "fill"} => s.n \in Nat
               /\ cell' = [cell EXCEPT ![s.at] = Written(s, cell[s.at], hand[h])]
               /\ hand' = [hand EXCEPT ![h] = Remembered(s, cell[s.at], hand[h])]
               /\ Passes(s, cell[s.at], hand[h]) =>
                      IF i = Len(agenda[h]) THEN left'[h] = << >>
                      ELSE left'[h] # << >> /\ At(h)' = i
               /\ ~Passes(s, cell[s.at], hand[h]) => left'[h] = << >>
               /\ \A g \in Handlers \ {h} : left'[g] = left[g] /\ At(g)' = At(g)
               /\ agenda' = agenda /\ start' = start
  <1> DEFINE i == At(h) + 1
             s == agenda[h][i]
  <1>1. left[h] # << >> /\ agenda' = agenda /\ start' = start
    BY DEF Act
  <1>2. At(h) \in Nat /\ i \in 1 .. Len(agenda[h]) /\ Head(left[h]) = s
    BY <1>1, AtFacts
  <1>3. /\ s.do \in Verbs /\ s.n \in Int /\ s.at \in Touched(agenda)
        /\ s.do \in {"put", "write", "fill"} => s.n \in Nat
    BY <1>1, <1>2, AtStatement, Zenon
  <1>4. /\ s.at \notin Mutexes
        /\ cell' = [cell EXCEPT ![s.at] = Written(s, cell[s.at], hand[h])]
        /\ hand' = [hand EXCEPT ![h] = Remembered(s, cell[s.at], hand[h])]
        /\ left' = [left EXCEPT ![h] = IF Passes(s, cell[s.at], hand[h])
                                       THEN Tail(left[h]) ELSE << >>]
    BY <1>2 DEF Act
  <1>5. /\ \A g \in Handlers \ {h} : left'[g] = left[g] /\ At(g)' = At(g)
        /\ left'[h] # << >> => At(h)' = i
    BY <1>1, Positions
  <1>6. Tail(left[h]) = << >> <=> i = Len(agenda[h])
    BY <1>1, LastStatement
  <1>7. left'[h] = IF Passes(s, cell[s.at], hand[h]) THEN Tail(left[h]) ELSE << >>
    BY <1>4 DEF IInv, Shape
  <1> HIDE DEF i, s
  <1>8. /\ Passes(s, cell[s.at], hand[h]) =>
               IF i = Len(agenda[h]) THEN left'[h] = << >>
               ELSE left'[h] # << >> /\ At(h)' = i
        /\ ~Passes(s, cell[s.at], hand[h]) => left'[h] = << >>
    BY <1>5, <1>6, <1>7, Zenon
  <1>9. s.at \in Touched(agenda) \ Mutexes
    BY <1>3, <1>4
  <1> QED BY <1>1, <1>2, <1>3, <1>4, <1>5, <1>8, <1>9, Zenon DEF i, s

LEMMA GuardSteps ==
    ASSUME IInv, NEW h \in Handlers, Guard(h)
    PROVE  LET i == At(h) + 1
           IN  /\ left[h] # << >> /\ i \in 1 .. Len(agenda[h]) /\ At(h) \in Nat
               /\ agenda[h][i].at \in Mutexes
               /\ IF i = Len(agenda[h]) THEN left'[h] = << >>
                  ELSE left'[h] # << >> /\ At(h)' = i
               /\ \A g \in Handlers \ {h} : left'[g] = left[g] /\ At(g)' = At(g)
               /\ UNCHANGED <<cell, hand, start, agenda>>
  <1> DEFINE i == At(h) + 1
  <1>1. left[h] # << >> /\ UNCHANGED <<cell, hand, start, agenda>>
    BY DEF Guard
  <1>2. At(h) \in Nat /\ i \in 1 .. Len(agenda[h]) /\ Head(left[h]) = agenda[h][i]
    BY <1>1, AtFacts
  <1>3. /\ \A g \in Handlers \ {h} : left'[g] = left[g] /\ At(g)' = At(g)
        /\ left'[h] # << >> => At(h)' = i
    BY <1>1, Positions
  <1>4. Tail(left[h]) = << >> <=> i = Len(agenda[h])
    BY <1>1, LastStatement
  <1>5. left'[h] = Tail(left[h])
    BY DEF Guard, IInv, Shape
  <1>6. agenda[h][i].at \in Mutexes
    BY <1>2 DEF Guard
  <1> HIDE DEF i
  <1> QED BY <1>1, <1>2, <1>3, <1>4, <1>5, <1>6 DEF i

-----------------------------------------------------------------------------
(* Refunds.                                                                 *)

\* What a statement leaves in any cell that holds v.
Left(s, c, v, k) == IF c = s.at THEN Written(s, v, k) ELSE v

\* An account of what an errand owes each cell after its first statements: nothing
\* at first and nothing at the end, and where it gives up there it owed nothing.
Owing(p, owed) ==
    /\ owed \in [0 .. Len(p) -> [Touched(agenda) -> Nat]]
    /\ \A c \in Touched(agenda) : owed[0][c] = 0 /\ owed[Len(p)][c] = 0
    /\ \A i \in 1 .. Len(p), c \in Touched(agenda) :
          /\ p[i].at \in Mutexes => owed[i][c] = owed[i - 1][c]
          /\ p[i].at \notin Mutexes =>
                \A v, k \in Nat :
                    Left(p[i], c, v, k) + (IF Passes(p[i], v, k) THEN owed[i][c] ELSE 0)
                        = v + owed[i - 1][c]

GivesBack(p) == \E owed : Owing(p, owed)

\* What handlers owe a cell by now, when the accounts are kept in books.
Debt(books, h, c) == IF left[h] = << >> THEN 0 ELSE books[h][At(h)][c]
Debts(books, c) == [h \in Handlers |-> Debt(books, h, c)]

AllOwed ==
    \A books, c :
        (\A h \in Handlers : Owing(agenda[h], books[h])) /\ c \in Touched(agenda) =>
            cell[c] + Total(Debts(books, c)) = start[c]

LEMMA DebtsAreNat ==
    ASSUME IInv, NEW books, \A h \in Handlers : Owing(agenda[h], books[h]),
           NEW c \in Touched(agenda)
    PROVE  Debts(books, c) \in [Handlers -> Nat]
  <1>1. ASSUME NEW h \in Handlers PROVE Debt(books, h, c) \in Nat
    <2>1. CASE left[h] = << >>
      BY <2>1 DEF Debt
    <2>2. CASE left[h] # << >>
      <3>1. At(h) \in Nat /\ At(h) + 1 \in 1 .. Len(agenda[h])
        BY <2>2, AtFacts
      <3>2. At(h) \in 0 .. Len(agenda[h])
        BY <3>1
      <3> QED BY <2>2, <3>2 DEF Debt, Owing
    <2> QED BY <2>1, <2>2
  <1> QED BY <1>1 DEF Debts

LEMMA OwedInitially == Init => AllOwed
  <1> SUFFICES ASSUME Init, NEW books, \A h \in Handlers : Owing(agenda[h], books[h]),
                      NEW c \in Touched(agenda)
               PROVE  cell[c] + Total(Debts(books, c)) = start[c]
    BY DEF AllOwed
  <1>1. IInv /\ left = agenda /\ cell = start
    BY Initially DEF Init
  <1>2. Debts(books, c) \in [Handlers -> Nat]
    BY <1>1, DebtsAreNat
  <1>3. ASSUME NEW h \in Handlers PROVE Debts(books, c)[h] = 0
    <2>1. Len(agenda[h]) \in Nat
      BY <1>1, AgendaFacts, LenProperties DEF IInv, Shape
    <2>2. At(h) = 0
      BY <1>1, <2>1 DEF At
    <2> QED BY <2>2 DEF Debts, Debt, Owing
  <1>4. Total(Debts(books, c)) = 0
    BY <1>2, <1>3, TotalZero
  <1>5. cell[c] \in Nat
    BY <1>1 DEF IInv, Shape
  <1> QED BY <1>1, <1>4, <1>5

LEMMA ActOwes ==
    ASSUME IInv, AllOwed, NEW h \in Handlers, Act(h) \/ Guard(h), IInv',
           NEW books, \A g \in Handlers : Owing(agenda[g], books[g]),
           NEW c \in Touched(agenda)
    PROVE  cell'[c] + Total(Debts(books, c)') = start[c]
  <1> DEFINE i == At(h) + 1
             p == agenda[h]
             s == p[i]
             owed == books[h]
             f == Debts(books, c)
             g == Debts(books, c)'
  <1>1. f \in [Handlers -> Nat]
    BY DebtsAreNat
  <1>2. /\ left[h] # << >> /\ i \in 1 .. Len(p) /\ At(h) \in Nat
        /\ \A e \in Handlers \ {h} : left'[e] = left[e] /\ At(e)' = At(e)
        /\ agenda' = agenda
    BY ActSteps, GuardSteps
  <1>3. \A j \in 0 .. Len(p) : owed[j][c] \in Nat
    BY DEF Owing
  <1>4. \A e \in Handlers \ {h} : g[e] = f[e]
    BY <1>2 DEF Debts, Debt
  <1>6. cell[c] + Total(f) = start[c] /\ start[c] \in Nat /\ cell[c] \in Nat
    BY DEF AllOwed, IInv, Shape
  <1>7. f[h] = owed[i - 1][c]
    <2>1. i - 1 = At(h)
      BY <1>2
    <2> QED BY <1>2, <2>1 DEF Debts, Debt
  <1>8. cell'[c] + g[h] = cell[c] + f[h] /\ g[h] \in Nat
    <2>0. owed[i][c] \in Nat
      BY <1>2, <1>3
    <2>1. CASE Act(h)
      <3>1. /\ s.at \in Touched(agenda) \ Mutexes
            /\ cell' = [cell EXCEPT ![s.at] = Written(s, cell[s.at], hand[h])]
            /\ Passes(s, cell[s.at], hand[h]) =>
                   IF i = Len(p) THEN left'[h] = << >>
                   ELSE left'[h] # << >> /\ At(h)' = i
            /\ ~Passes(s, cell[s.at], hand[h]) => left'[h] = << >>
        BY <2>1, ActSteps
      <3>2. cell[s.at] \in Nat /\ hand[h] \in Nat
        BY <3>1 DEF IInv, Shape
      <3> DEFINE v == IF c = s.at THEN cell[s.at] ELSE cell[c]
                 on == Passes(s, cell[s.at], hand[h])
      <3>3. g[h] = IF on THEN owed[i][c] ELSE 0
        <4>1. CASE on /\ i = Len(p)
          <5>1. g[h] = 0
            BY <3>1, <4>1 DEF Debts, Debt
          <5>2. owed[Len(p)][c] = 0
            BY DEF Owing
          <5>3. owed[i][c] = 0
            BY <4>1, <5>2
          <5> QED BY <4>1, <5>1, <5>3
        <4>2. CASE on /\ i # Len(p)
          BY <3>1, <4>2 DEF Debts, Debt
        <4>3. CASE ~on
          BY <3>1, <4>3 DEF Debts, Debt
        <4> QED BY <4>1, <4>2, <4>3
      <3>4. \A x, k \in Nat :
                Left(s, c, x, k) + (IF Passes(s, x, k) THEN owed[i][c] ELSE 0)
                    = x + owed[i - 1][c]
        BY <1>2, <3>1 DEF Owing
      <3>5. CASE c = s.at
        <4>1. Left(s, c, cell[c], hand[h]) + (IF on THEN owed[i][c] ELSE 0)
                  = cell[c] + owed[i - 1][c]
          BY <3>2, <3>4, <3>5
        <4>2. cell'[c] = Left(s, c, cell[c], hand[h])
          BY <3>1, <3>5 DEF Left, IInv, Shape
        <4>3. g[h] \in Nat
          BY <2>0, <3>3
        <4> HIDE DEF on, owed, i, p, g, f
        <4> QED BY <1>7, <3>3, <4>1, <4>2, <4>3, Zenon
      <3>6. CASE c # s.at
        <4>1. Left(s, c, cell[s.at], hand[h]) + (IF on THEN owed[i][c] ELSE 0)
                  = cell[s.at] + owed[i - 1][c]
          BY <3>2, <3>4
        <4>2. cell'[c] = cell[c] /\ Left(s, c, cell[s.at], hand[h]) = cell[s.at]
          BY <3>1, <3>6 DEF Left, IInv, Shape
        <4>3. g[h] \in Nat /\ f[h] \in Nat
          BY <1>1, <2>0, <3>3
        <4>4. cell[s.at] + g[h] = cell[s.at] + f[h]
          BY <1>7, <3>3, <4>1, <4>2, Zenon
        <4> DEFINE a == cell[s.at]
                   b == g[h]
                   d == f[h]
        <4>5. a \in Nat /\ b \in Nat /\ d \in Nat /\ a + b = a + d
          BY <3>2, <4>3, <4>4
        <4> HIDE DEF a, b, d
        <4>6. b = d
          BY <4>5
        <4> QED BY <4>2, <4>3, <4>6 DEF b, d
      <3> QED BY <3>5, <3>6
    <2>2. CASE Guard(h)
      <3>1. /\ s.at \in Mutexes /\ cell' = cell
            /\ IF i = Len(p) THEN left'[h] = << >> ELSE left'[h] # << >> /\ At(h)' = i
        BY <2>2, GuardSteps
      <3>2. owed[i][c] = owed[i - 1][c]
        BY <1>2, <3>1 DEF Owing
      <3>3. g[h] = owed[i][c]
        <4>1. CASE i = Len(p)
          <5>1. g[h] = 0
            BY <3>1, <4>1 DEF Debts, Debt
          <5>2. owed[Len(p)][c] = 0
            BY DEF Owing
          <5>3. owed[i][c] = 0
            BY <4>1, <5>2
          <5> QED BY <5>1, <5>3
        <4>2. CASE i # Len(p)
          BY <3>1, <4>2 DEF Debts, Debt
        <4> QED BY <4>1, <4>2
      <3> QED BY <1>7, <2>0, <3>1, <3>2, <3>3, Zenon
    <2> QED BY <2>1, <2>2
  <1>9. Total(f) \in Nat /\ f[h] \in Nat /\ g[h] \in Nat /\ cell'[c] \in Nat
    <2>1. Total(f) \in Nat
      BY <1>1, HandlersAssumption, TotalIsNat
    <2>2. cell'[c] \in Nat
      BY <1>2 DEF IInv, Shape
    <2> QED BY <1>1, <1>8, <2>1, <2>2
  <1>10. Total(g) = Total(f) + g[h] - f[h]
    <2>1. g \in [Handlers -> Nat]
      <3>1. \A e \in Handlers : g[e] \in Nat
        BY <1>1, <1>4, <1>8
      <3>2. g = [e \in Handlers |-> g[e]]
        BY DEF Debts
      <3> HIDE DEF g
      <3> QED BY <3>1, <3>2
    <2> QED BY <1>1, <1>4, <2>1, HandlersAssumption, TotalUpdate
  <1> HIDE DEF f, g, i, s, p, owed
  <1> QED BY <1>6, <1>8, <1>9, <1>10 DEF g

LEMMA StepOwes == IInv /\ IInv' /\ AllOwed /\ [Next]_vars => AllOwed'
  <1> SUFFICES ASSUME IInv, IInv', AllOwed, [Next]_vars PROVE AllOwed'
    OBVIOUS
  <1>1. ASSUME NEW h \in Handlers, Act(h) \/ Guard(h) PROVE AllOwed'
    <2>1. agenda' = agenda /\ start' = start
      BY <1>1 DEF Act, Guard
    <2>2. ASSUME NEW books, \A g \in Handlers : Owing(agenda[g], books[g]),
                 NEW c \in Touched(agenda)
          PROVE  cell'[c] + Total(Debts(books, c)') = start[c]
      BY <1>1, <2>2, ActOwes
    <2>3. \A p, owed : Owing(p, owed)' = Owing(p, owed)
      BY <2>1 DEF Owing
    <2>4. Touched(agenda)' = Touched(agenda)
      BY <2>1
    <2>5. \A books, c : Total(Debts(books, c))' = Total(Debts(books, c)')
      OBVIOUS
    <2> QED BY <2>1, <2>2, <2>3, <2>4, <2>5 DEF AllOwed
  <1>2. CASE UNCHANGED vars
    <2>1. UNCHANGED <<cell, left, start, agenda>>
      BY <1>2 DEF vars
    <2>2. \A books, c : Debts(books, c)' = Debts(books, c)
      BY <2>1 DEF Debts, Debt, At
    <2>3. \A books, c : Total(Debts(books, c))' = Total(Debts(books, c)')
      OBVIOUS
    <2>4. \A p, owed : Owing(p, owed)' = Owing(p, owed)
      BY <2>1 DEF Owing
    <2> QED BY <2>1, <2>2, <2>3, <2>4 DEF AllOwed
  <1> QED BY <1>1, <1>2 DEF Next

\* Errands that owe nothing when they end, whether they go through or give up half
\* way, leave every cell as it was, whatever order any number of handlers run in.
THEOREM FailuresAreUndone ==
    Spec => []((\A h \in Handlers : Undone(agenda[h]) => GivesBack(agenda[h]))
                   => FailuresUndone)
  <1>1. IInv /\ AllOwed =>
            ((\A h \in Handlers : Undone(agenda[h]) => GivesBack(agenda[h]))
                => FailuresUndone)
    <2> SUFFICES ASSUME IInv, AllOwed, Done,
                        \A h \in Handlers : GivesBack(agenda[h])
                 PROVE  cell = start
      BY DEF FailuresUndone
    <2> DEFINE books == [h \in Handlers |-> CHOOSE owed : Owing(agenda[h], owed)]
    <2>1. \A h \in Handlers : Owing(agenda[h], books[h])
      BY DEF GivesBack
    <2> HIDE DEF books
    <2>2. ASSUME NEW c \in Touched(agenda) PROVE cell[c] = start[c]
      <3>1. Debts(books, c) \in [Handlers -> Nat]
        BY <2>1, DebtsAreNat
      <3>2. \A h \in Handlers : Debts(books, c)[h] = 0
        BY DEF Done, Debts, Debt
      <3>3. Total(Debts(books, c)) = 0
        BY <3>1, <3>2, TotalZero
      <3>4. cell[c] \in Nat /\ cell[c] + Total(Debts(books, c)) = start[c]
        BY <2>1 DEF AllOwed, IInv, Shape
      <3> QED BY <3>3, <3>4
    <2> QED BY <2>2 DEF IInv, Shape
  <1>2. Spec => []IInv
    BY Initially, StepKeeps, PTL DEF Spec
  <1>3. Spec => []AllOwed
    BY <1>2, OwedInitially, StepOwes, PTL DEF Spec
  <1> QED BY <1>1, <1>2, <1>3, PTL

-----------------------------------------------------------------------------
(* Wealth.                                                                  *)

\* v is no less than the checks before the i-th statement of p have found in its
\* cell, if the errand itself has not lowered it since.
Trusted(p, i, v) ==
    \A j \in 1 .. i - 1 :
        /\ p[j].do = "trust" /\ p[j].at = p[i].at
        /\ \A l \in j + 1 .. i - 1 : p[l].at = p[j].at => ~Lowers(p[l])
        => v >= p[j].n

\* An account of the coins a handler may still give: a credit at first and at the
\* end; in between what the cells have lost to it, which may depend on what it
\* remembers.  Every statement gives no more than the account has.
Account(p, credit, money) ==
    /\ credit \in Nat
    /\ money \in [0 .. Len(p) -> [Nat -> Nat]]
    /\ money[0][0] = credit
    /\ \A k \in Nat : money[Len(p)][k] = credit
    /\ \A i \in 1 .. Len(p) :
          /\ p[i].at \in Mutexes => \A k \in Nat : money[i][k] <= money[i - 1][k]
          /\ p[i].at \notin Mutexes =>
                \A v, k \in Nat :
                    Trusted(p, i, v) =>
                        Written(p[i], v, k) * Worth(p[i].at)
                            + (IF Passes(p[i], v, k)
                               THEN money[i][Remembered(p[i], v, k)] ELSE credit)
                        <= v * Worth(p[i].at) + money[i - 1][k]

\* An errand that takes before it gives, and one that gives no more than it takes
\* in the end.
PaysFirst(p) == \E money : Account(p, 0, money)
PaysInFull(p) == \E credit, money : Account(p, credit, money)

\* What a handler has checked and relies on later is still so.
TrustStands ==
    \A h \in Handlers : left[h] # << >> =>
        \A i \in 1 .. At(h) :
            LET p == agenda[h]
            IN  /\ p[i].do = "trust"
                /\ \A l \in i + 1 .. At(h) : p[l].at = p[i].at => ~Lowers(p[l])
                => cell[p[i].at] >= p[i].n

TrustInv == Unspoiled => TrustStands

\* What a statement that does not lower its cell leaves there is no less.
LEMMA OthersKeep ==
    ASSUME NEW s, s.do \in Verbs, s.n \in Int,
           s.do \in {"put", "write", "fill"} => s.n \in Nat,
           NEW v \in Nat, NEW k \in Nat, ~Lowers(s)
    PROVE  Written(s, v, k) >= v
  BY DEF Written, Lowers, Verbs

\* A check another errand may spoil is kept by a mutex that errand has not got.
LEMMA Kept ==
    ASSUME IInv, Locked, Unspoiled, NEW g \in Handlers, NEW h \in Handlers, g # h,
           left[g] # << >>, left[h] # << >>,
           NEW i \in 1 .. At(h), agenda[h][i].do = "trust",
           agenda[g][At(g) + 1].at = agenda[h][i].at
    PROVE  ~Lowers(agenda[g][At(g) + 1])
  <1> DEFINE p == agenda[h]
             q == agenda[g]
             j == At(g) + 1
  <1> SUFFICES ASSUME Lowers(q[j]) PROVE FALSE
    OBVIOUS
  <1>1. /\ At(h) \in Nat /\ At(h) + 1 \in 1 .. Len(p)
        /\ At(g) \in Nat /\ j \in 1 .. Len(q)
    BY AtFacts
  <1>2. p \in Seq(InAgenda) /\ q \in Seq(InAgenda)
    BY AgendaFacts DEF IInv, Shape
  <1>3. i \in 1 .. Len(p) /\ i \in DOMAIN p /\ j \in DOMAIN q /\ Len(p) \in Nat
    BY <1>1, <1>2, LenProperties
  <1>4. Falsifies(q[j], p[i])
    BY DEF Falsifies
  <1>5. ~Spoils(q, p)
    BY DEF Unspoiled
  <1>6. MutexesAt(q, j) \cap KeptFrom(p, i) # {}
    BY <1>3, <1>4, <1>5 DEF Spoils
  <1>7. PICK m \in MutexesAt(q, j) : m \in KeptFrom(p, i)
    BY <1>6
  <1>8. m \in held[g]
    BY <1>7 DEF Locked
  <1>9. m \in MutexesAt(p, At(h) + 1)
    <2>1. /\ m \in MutexesAt(p, i) /\ m \in Mutexes
          /\ \A k \in i .. Len(p) : p[k].do = "unlock" => p[k].at # m
      BY <1>7 DEF KeptFrom, MutexesAt
    <2>2. \A k \in i .. At(h) : k \in i .. Len(p)
      BY <1>1, <1>3
    <2>3. HeldSince(p, i, At(h), m)
      BY <2>1, <2>2 DEF HeldSince
    <2> QED BY <1>1, <2>1, <2>3, HeldIsAt
  <1>10. m \in held[h]
    BY <1>9 DEF Locked
  <1> QED BY <1>8, <1>10 DEF IInv, OneHolder

LEMMA TrustInitially == Init => TrustInv
  <1> SUFFICES ASSUME Init PROVE TrustStands
    BY DEF TrustInv
  <1>1. \A h \in Handlers : At(h) = 0
    <2> SUFFICES ASSUME NEW h \in Handlers PROVE At(h) = 0
      OBVIOUS
    <2>1. IInv /\ left = agenda
      BY Initially DEF Init
    <2>2. Len(agenda[h]) \in Nat
      BY <2>1, AgendaFacts, LenProperties DEF IInv, Shape
    <2> QED BY <2>1, <2>2 DEF At
  <1> QED BY <1>1 DEF TrustStands

LEMMA ActTrusts ==
    ASSUME IInv, Locked, Unspoiled, TrustStands, NEW h \in Handlers, Act(h) \/ Guard(h)
    PROVE  TrustStands'
  <1>1. /\ left[h] # << >> /\ At(h) \in Nat /\ At(h) + 1 \in 1 .. Len(agenda[h])
        /\ left'[h] # << >> => At(h)' = At(h) + 1
        /\ \A g \in Handlers \ {h} : left'[g] = left[g] /\ At(g)' = At(g)
        /\ agenda' = agenda
    <2>1. /\ left[h] # << >> /\ agenda' = agenda
          /\ \A g \in Handlers \ {h} : left'[g] = left[g] /\ At(g)' = At(g)
          /\ left'[h] # << >> => At(h)' = At(h) + 1
      BY Positions
    <2> QED BY <2>1, AtFacts
  <1> DEFINE t == agenda[h][At(h) + 1]
  <1>2. \/ cell' = cell
        \/ /\ Act(h) /\ t.at \in Touched(agenda) /\ t.do \in Verbs /\ t.n \in Int
           /\ t.do \in {"put", "write", "fill"} => t.n \in Nat
           /\ cell' = [cell EXCEPT ![t.at] = Written(t, cell[t.at], hand[h])]
    BY ActSteps, GuardSteps
  <1>3. ASSUME NEW c \in Touched(agenda), c = t.at => ~Lowers(t)
        PROVE  cell'[c] >= cell[c] /\ cell[c] \in Nat /\ cell'[c] \in Int
    <2>1. cell[c] \in Nat /\ cell \in [Touched(agenda) -> Nat] /\ hand[h] \in Nat
      BY DEF IInv, Shape
    <2>2. CASE cell' = cell
      BY <2>1, <2>2
    <2>3. CASE cell' # cell /\ c # t.at
      BY <1>2, <2>1, <2>3
    <2>4. CASE cell' # cell /\ c = t.at
      <3>1. cell'[c] = Written(t, cell[c], hand[h])
        BY <1>2, <2>1, <2>4
      <3>2. Written(t, cell[c], hand[h]) >= cell[c] /\ Written(t, cell[c], hand[h]) \in Nat
        BY <1>2, <1>3, <2>1, <2>4, OthersKeep, CountsStayNat
      <3> QED BY <2>1, <3>1, <3>2
    <2> QED BY <2>2, <2>3, <2>4
  <1> SUFFICES ASSUME NEW f \in Handlers, left'[f] # << >>, NEW i \in 1 .. At(f)',
                      agenda[f][i].do = "trust",
                      \A l \in i + 1 .. At(f)' :
                          agenda[f][l].at = agenda[f][i].at => ~Lowers(agenda[f][l])
               PROVE  cell'[agenda[f][i].at] >= agenda[f][i].n
    BY <1>1 DEF TrustStands
  <1> DEFINE p == agenda[f]
             c == p[i].at
  <1> SUFFICES cell'[c] >= p[i].n
    OBVIOUS
  <1>4. left[f] # << >> /\ At(f) \in Nat /\ At(f) + 1 \in 1 .. Len(p)
    BY <1>1, AtFacts
  <1>5. At(f)' \in Nat /\ At(f)' <= Len(p) /\ At(f) <= At(f)'
    <2>1. At(f)' = At(f) \/ At(f)' = At(f) + 1
      BY <1>1
    <2>2. p \in Seq(InAgenda)
      BY AgendaFacts DEF IInv, Shape
    <2>3. Len(p) \in Nat
      BY <2>2, LenProperties
    <2> HIDE DEF p
    <2> QED BY <1>4, <2>1, <2>3
  <1>6. c \in Touched(agenda) /\ p[i].n \in Int
    <2>1. i \in 1 .. Len(p)
      BY <1>5, <1>4
    <2> QED BY <2>1, AgendaFacts DEF IInv, Shape, Statement
  <1>7. CASE f # h
    <2>1. At(f)' = At(f)
      BY <1>1, <1>7
    <2>2. cell[c] >= p[i].n
      BY <1>4, <2>1 DEF TrustStands
    <2>3. c = t.at => ~Lowers(t)
      BY <1>1, <1>4, <1>7, <2>1, Kept
    <2>4. cell'[c] >= cell[c] /\ cell[c] \in Nat /\ cell'[c] \in Int
      BY <1>3, <1>6, <2>3
    <2> HIDE DEF c, p
    <2> QED BY <1>6, <2>2, <2>4
  <1>8. CASE f = h /\ i \in 1 .. At(h)
    <2>1. At(h)' = At(h) + 1
      BY <1>1, <1>8
    <2>2. \A l \in i + 1 .. At(h) : l \in i + 1 .. At(f)'
      BY <1>1, <1>8, <2>1
    <2>3. cell[c] >= p[i].n
      BY <1>4, <1>8, <2>2 DEF TrustStands
    <2>4. At(h) + 1 \in i + 1 .. At(f)'
      BY <1>1, <1>8, <2>1
    <2>5. c = t.at => ~Lowers(t)
      BY <1>8, <2>4
    <2>6. cell'[c] >= cell[c] /\ cell[c] \in Nat /\ cell'[c] \in Int
      BY <1>3, <1>6, <2>5
    <2> HIDE DEF c, p
    <2> QED BY <1>6, <2>3, <2>6
  <1>9. CASE f = h /\ i \notin 1 .. At(h)
    <2>1. i = At(h) + 1
      <3>1. At(h)' = At(h) + 1
        BY <1>1, <1>9
      <3> QED BY <1>1, <1>9, <3>1
    <2>2. p[i] = t /\ t.do = "trust"
      BY <1>9, <2>1
    <2>3. Act(h)
      <3> SUFFICES ASSUME Guard(h) PROVE FALSE
        OBVIOUS
      <3>1. t.at \in Mutexes
        BY GuardSteps
      <3> QED BY <1>1, <2>2, <3>1, MutexStatements
    <2>4. Passes(t, cell[t.at], hand[h])
      BY <1>9, <2>3, ActSteps
    <2>5. cell[c] >= p[i].n
      BY <2>2, <2>4 DEF Passes
    <2>6. ~Lowers(t)
      BY <2>2 DEF Lowers
    <2>7. cell'[c] >= cell[c] /\ cell[c] \in Nat /\ cell'[c] \in Int
      BY <1>3, <1>6, <2>6
    <2> HIDE DEF c, p
    <2> QED BY <1>6, <2>5, <2>7
  <1> QED BY <1>7, <1>8, <1>9

LEMMA StepTrusts == IInv /\ Locked /\ TrustInv /\ [Next]_vars => TrustInv'
  <1> SUFFICES ASSUME IInv, Locked, TrustInv, [Next]_vars PROVE TrustInv'
    OBVIOUS
  <1>1. ASSUME NEW h \in Handlers, Act(h) \/ Guard(h) PROVE TrustInv'
    <2>1. agenda' = agenda
      BY <1>1, Positions
    <2>2. Unspoiled' => Unspoiled
      BY <2>1 DEF Unspoiled
    <2> QED BY <1>1, <2>2, ActTrusts DEF TrustInv
  <1>2. CASE UNCHANGED vars
    BY <1>2 DEF vars, TrustInv, TrustStands, Unspoiled, At
  <1> QED BY <1>1, <1>2 DEF Next

\* Errands touch finitely many cells.
LEMMA TouchedFinite ==
    ASSUME agenda \in Agendas
    PROVE  IsFiniteSet(Touched(agenda))
  <1> DEFINE cellsOf(h) == {agenda[h][i].at : i \in DOMAIN agenda[h]}
             all == {cellsOf(h) : h \in Handlers}
             of == [h \in Handlers |-> cellsOf(h)]
  <1>1. IsFiniteSet(all)
    <2>1. of \in Surjection(Handlers, all)
      BY DEF Surjection
    <2> QED BY <2>1, HandlersAssumption, FS_Surjection
  <1>2. ASSUME NEW h \in Handlers PROVE IsFiniteSet(cellsOf(h))
    <2> DEFINE n == Len(agenda[h])
               cellAt == [i \in 1 .. n |-> agenda[h][i].at]
    <2>1. agenda[h] \in Seq(InAgenda)
      BY AgendaFacts
    <2>2. DOMAIN agenda[h] = 1 .. n /\ n \in Nat
      BY <2>1, LenProperties
    <2>3. cellAt \in Surjection(1 .. n, cellsOf(h))
      <3> DEFINE T == {agenda[h][i].at : i \in 1 .. n}
      <3>1. cellAt \in Surjection(1 .. n, T)
        <4> HIDE DEF n
        <4> QED BY DEF Surjection
      <3>2. T = cellsOf(h)
        BY <2>2
      <3> HIDE DEF T, cellAt
      <3> QED BY <3>1, <3>2
    <2>4. IsFiniteSet(1 .. n)
      <3> HIDE DEF n
      <3> QED BY <2>2, FS_Interval
    <2> HIDE DEF cellAt, cellsOf
    <2> QED BY <2>3, <2>4, FS_Surjection
  <1>3. \A T \in all : IsFiniteSet(T)
    BY <1>2
  <1> HIDE DEF all
  <1>4. IsFiniteSet(UNION all)
    BY <1>1, <1>3, FS_UNION
  <1> QED BY <1>4 DEF Touched, all

\* Products of counts are counts.
LEMMA TimesNat == ASSUME NEW m \in Nat, NEW n \in Nat PROVE m * n \in Nat
  OBVIOUS

LEMMA WealthFacts ==
    ASSUME agenda \in Agendas, NEW d \in [Touched(agenda) -> Nat]
    PROVE  /\ Wealth(d) \in Nat
           /\ [c \in DOMAIN d |-> d[c] * Worth(c)] \in [Touched(agenda) -> Nat]
           /\ \A c \in Touched(agenda) : Worth(c) \in Nat
  <1> DEFINE f == [c \in DOMAIN d |-> d[c] * Worth(c)]
  <1>1. \A c \in Touched(agenda) : Worth(c) \in Nat
    BY WorthAssumption
  <1>2. ASSUME NEW c \in Touched(agenda) PROVE d[c] * Worth(c) \in Nat
    BY <1>1, TimesNat
  <1>3. f \in [Touched(agenda) -> Nat]
    BY <1>2
  <1> HIDE DEF f
  <1>4. Total(f) \in Nat
    BY <1>3, TouchedFinite, TotalIsNat
  <1> QED BY <1>1, <1>3, <1>4 DEF Wealth, f

\* One cell changes: the wealth changes by as many coins.
LEMMA WealthChange ==
    ASSUME agenda \in Agendas, NEW d \in [Touched(agenda) -> Nat],
           NEW c \in Touched(agenda), NEW v \in Nat
    PROVE  Wealth([d EXCEPT ![c] = v]) = Wealth(d) + v * Worth(c) - d[c] * Worth(c)
  <1> DEFINE e == [d EXCEPT ![c] = v]
             f == [x \in DOMAIN d |-> d[x] * Worth(x)]
             g == [x \in DOMAIN e |-> e[x] * Worth(x)]
  <1>1. e \in [Touched(agenda) -> Nat] /\ e[c] = v /\ \A x \in Touched(agenda) \ {c} : e[x] = d[x]
    OBVIOUS
  <1> HIDE DEF e
  <1>2. f \in [Touched(agenda) -> Nat] /\ g \in [Touched(agenda) -> Nat]
    BY <1>1, WealthFacts, Zenon
  <1>3. \A x \in Touched(agenda) \ {c} : g[x] = f[x]
    BY <1>1
  <1>4. g[c] = v * Worth(c) /\ f[c] = d[c] * Worth(c)
    BY <1>1
  <1> HIDE DEF f, g
  <1>5. Total(g) = Total(f) + g[c] - f[c]
    BY <1>2, <1>3, TouchedFinite, TotalUpdate
  <1>6. Wealth(e) = Total(g) /\ Wealth(d) = Total(f)
    BY DEF Wealth, f, g
  <1> QED BY <1>4, <1>5, <1>6 DEF e

-----------------------------------------------------------------------------

\* What a handler may still give by now, when the accounts are kept in books.
Purse(books, h) ==
    IF left[h] = << >> THEN books[h].credit ELSE books[h].money[At(h)][hand[h]]
Purses(books) == [h \in Handlers |-> Purse(books, h)]
Credits(books) == [h \in Handlers |-> books[h].credit]

\* The cells and the handlers have no more than there was.
Covered ==
    \A books : (\A h \in Handlers : Account(agenda[h], books[h].credit, books[h].money)) =>
        Wealth(cell) + Total(Purses(books)) <= Wealth(start) + Total(Credits(books))

WealthInv == Unspoiled => Covered

LEMMA PursesAreNat ==
    ASSUME IInv, NEW books,
           \A h \in Handlers : Account(agenda[h], books[h].credit, books[h].money)
    PROVE  Purses(books) \in [Handlers -> Nat] /\ Credits(books) \in [Handlers -> Nat]
  <1>1. ASSUME NEW h \in Handlers PROVE Purse(books, h) \in Nat
    <2>1. CASE left[h] = << >>
      BY <2>1 DEF Purse, Account
    <2>2. CASE left[h] # << >>
      <3>1. At(h) \in Nat /\ At(h) + 1 \in 1 .. Len(agenda[h])
        BY <2>2, AtFacts
      <3>2. At(h) \in 0 .. Len(agenda[h]) /\ hand[h] \in Nat
        BY <3>1 DEF IInv, Shape
      <3>3. books[h].money \in [0 .. Len(agenda[h]) -> [Nat -> Nat]]
        BY DEF Account
      <3> QED BY <2>2, <3>2, <3>3 DEF Purse
    <2> QED BY <2>1, <2>2
  <1>2. \A h \in Handlers : books[h].credit \in Nat
    BY DEF Account
  <1> QED BY <1>1, <1>2 DEF Purses, Credits

LEMMA CoveredInitially == Init => WealthInv
  <1> SUFFICES ASSUME Init, NEW books,
                      \A h \in Handlers : Account(agenda[h], books[h].credit, books[h].money)
               PROVE  Wealth(cell) + Total(Purses(books))
                          <= Wealth(start) + Total(Credits(books))
    BY DEF WealthInv, Covered
  <1>1. IInv /\ left = agenda /\ cell = start /\ agenda \in Agendas
    BY Initially DEF Init
  <1>2. Purses(books) = Credits(books)
    <2>1. ASSUME NEW h \in Handlers PROVE Purse(books, h) = books[h].credit
      <3>1. Len(agenda[h]) \in Nat
        BY <1>1, AgendaFacts, LenProperties DEF IInv, Shape
      <3>2. At(h) = 0 /\ hand[h] = 0
        BY <1>1, <3>1 DEF At, Init
      <3>3. books[h].money[0][0] = books[h].credit
        BY DEF Account
      <3> QED BY <3>2, <3>3 DEF Purse
    <2> QED BY <2>1 DEF Purses, Credits
  <1>3. Total(Credits(books)) \in Nat
    BY <1>1, PursesAreNat, HandlersAssumption, TotalIsNat
  <1>4. Wealth(cell) \in Nat
    BY <1>1, WealthFacts DEF IInv, Shape
  <1> DEFINE a == Wealth(start)
             b == Total(Credits(books))
  <1>5. a \in Nat /\ b \in Nat
    BY <1>1, <1>3, <1>4
  <1> HIDE DEF a, b
  <1>6. a + b <= a + b
    BY <1>5
  <1> QED BY <1>1, <1>2, <1>6, Zenon DEF a, b

LEMMA TrustedHere ==
    ASSUME IInv, TrustStands, NEW h \in Handlers, left[h] # << >>
    PROVE  Trusted(agenda[h], At(h) + 1, cell[agenda[h][At(h) + 1].at])
  <1> DEFINE p == agenda[h]
             n == At(h)
  <1>1. n \in Nat
    BY AtFacts
  <1>0. (n + 1) - 1 = n
    <2> HIDE DEF n
    <2> QED BY <1>1
  <1>2. \A i \in 1 .. At(h) :
            /\ p[i].do = "trust"
            /\ \A l \in i + 1 .. At(h) : p[l].at = p[i].at => ~Lowers(p[l])
            => cell[p[i].at] >= p[i].n
    BY DEF TrustStands
  <1> DEFINE v == cell[p[n + 1].at]
  <1>3. ASSUME NEW j \in 1 .. n, p[j].do = "trust", p[j].at = p[n + 1].at,
               \A l \in j + 1 .. n : p[l].at = p[j].at => ~Lowers(p[l])
        PROVE  v >= p[j].n
    <2>1. cell[p[j].at] >= p[j].n
      BY <1>2, <1>3
    <2> QED BY <1>3, <2>1, Zenon
  <1> HIDE DEF p, n, v
  <1>4. ASSUME NEW j \in 1 .. (n + 1) - 1, p[j].do = "trust", p[j].at = p[n + 1].at,
               \A l \in j + 1 .. (n + 1) - 1 : p[l].at = p[j].at => ~Lowers(p[l])
        PROVE  v >= p[j].n
    <2>1. \A l \in j + 1 .. n : p[l].at = p[j].at => ~Lowers(p[l])
      BY <1>0, <1>4
    <2> QED BY <1>0, <1>3, <1>4, <2>1
  <1>5. Trusted(p, n + 1, v)
    BY <1>4 DEF Trusted
  <1> QED BY <1>5 DEF p, n, v

LEMMA ActCovers ==
    ASSUME IInv, TrustStands, Covered, NEW h \in Handlers, Act(h) \/ Guard(h), NEW books,
           \A g \in Handlers : Account(agenda[g], books[g].credit, books[g].money)
    PROVE  Wealth(cell') + Total(Purses(books)') <= Wealth(start) + Total(Credits(books))
  <1> DEFINE i == At(h) + 1
             p == agenda[h]
             s == p[i]
             c == s.at
             money == books[h].money
             f == Purses(books)
             g == Purses(books)'
             was == cell[c] * Worth(c)
             is == Written(s, cell[c], hand[h]) * Worth(c)
  <1>1. f \in [Handlers -> Nat] /\ Credits(books) \in [Handlers -> Nat]
    BY PursesAreNat
  <1>2. /\ left[h] # << >> /\ i \in 1 .. Len(p) /\ At(h) \in Nat
        /\ \A e \in Handlers \ {h} : left'[e] = left[e] /\ At(e)' = At(e)
        /\ agenda' = agenda
    BY ActSteps, GuardSteps
  <1>3. hand \in [Handlers -> Nat] /\ cell \in [Touched(agenda) -> Nat] /\ agenda \in Agendas
    BY DEF IInv, Shape
  <1>4. f[h] = money[i - 1][hand[h]]
    <2>1. i - 1 = At(h)
      BY <1>2
    <2> QED BY <1>2, <2>1 DEF Purses, Purse
  <1>5. \A e \in Handlers \ {h} : g[e] = f[e]
    <2>1. \A e \in Handlers \ {h} : hand'[e] = hand[e]
      <3>1. CASE Act(h)
        BY <3>1, <1>3, ActSteps
      <3>2. CASE Guard(h)
        BY <3>2, GuardSteps
      <3> QED BY <3>1, <3>2
    <2> QED BY <1>2, <2>1 DEF Purses, Purse
  <1>6. \A k \in Nat : money[Len(p)][k] = books[h].credit
    BY DEF Account
  <1>7. /\ books[h].credit \in Nat
        /\ \A j \in 0 .. Len(p) : \A k \in Nat : money[j][k] \in Nat
    BY DEF Account
  <1>8. \/ /\ Wealth(cell') = Wealth(cell) + is - was /\ is \in Nat /\ was \in Nat
           /\ is + g[h] <= was + f[h] /\ g[h] \in Nat
        \/ cell' = cell /\ g[h] <= f[h] /\ g[h] \in Nat
    <2>1. CASE Act(h)
      <3>1. /\ c \in Touched(agenda) /\ c \notin Mutexes
            /\ s.do \in Verbs /\ s.n \in Int
            /\ s.do \in {"put", "write", "fill"} => s.n \in Nat
            /\ cell' = [cell EXCEPT ![c] = Written(s, cell[c], hand[h])]
            /\ hand' = [hand EXCEPT ![h] = Remembered(s, cell[c], hand[h])]
            /\ Passes(s, cell[c], hand[h]) =>
                   IF i = Len(p) THEN left'[h] = << >> ELSE left'[h] # << >> /\ At(h)' = i
            /\ ~Passes(s, cell[c], hand[h]) => left'[h] = << >>
        BY <2>1, ActSteps
      <3>2. cell[c] \in Nat /\ hand[h] \in Nat
        BY <1>3, <3>1
      <3>3. Written(s, cell[c], hand[h]) \in Nat /\ Remembered(s, cell[c], hand[h]) \in Nat
        BY <3>1, <3>2, CountsStayNat
      <3> DEFINE on == Passes(s, cell[c], hand[h])
                 k == Remembered(s, cell[c], hand[h])
      <3>4. g[h] = IF on THEN money[i][k] ELSE books[h].credit
        <4>1. CASE on /\ i = Len(p)
          <5>1. g[h] = books[h].credit
            BY <3>1, <4>1 DEF Purses, Purse
          <5>2. money[i][k] = books[h].credit
            BY <1>6, <3>3, <4>1
          <5> QED BY <4>1, <5>1, <5>2
        <4>2. CASE on /\ i # Len(p)
          <5>1. hand'[h] = k
            BY <1>3, <3>1
          <5> QED BY <3>1, <4>2, <5>1 DEF Purses, Purse
        <4>3. CASE ~on
          BY <3>1, <4>3 DEF Purses, Purse
        <4> QED BY <4>1, <4>2, <4>3
      <3>5. Trusted(p, i, cell[c])
        BY <1>2, TrustedHere
      <3>6. is + (IF on THEN money[i][k] ELSE books[h].credit)
                <= was + money[i - 1][hand[h]]
        <4>1. \A v, l \in Nat :
                  Trusted(p, i, v) =>
                      Written(p[i], v, l) * Worth(p[i].at)
                          + (IF Passes(p[i], v, l)
                             THEN money[i][Remembered(p[i], v, l)] ELSE books[h].credit)
                      <= v * Worth(p[i].at) + money[i - 1][l]
          BY <1>2, <3>1 DEF Account
        <4> QED BY <3>2, <3>5, <4>1
      <3>7. Wealth(cell') = Wealth(cell) + is - was
        BY <1>3, <3>1, <3>3, WealthChange, Zenon
      <3>8. is \in Nat /\ was \in Nat
        <4>1. Worth(c) \in Nat
          BY <1>3, <3>1, WorthAssumption
        <4> QED BY <3>2, <3>3, <4>1, TimesNat
      <3>9. g[h] \in Nat
        <4>1. i \in 0 .. Len(p)
          BY <1>2
        <4>2. money[i][k] \in Nat
          BY <1>7, <3>3, <4>1
        <4> HIDE DEF on, k, g, i
        <4> QED BY <1>7, <3>4, <4>2
      <3> HIDE DEF is, was, g, f, on, k, i, money
      <3> QED BY <1>4, <3>4, <3>6, <3>7, <3>8, <3>9, Zenon
    <2>2. CASE Guard(h)
      <3>1. /\ c \in Mutexes /\ cell' = cell /\ hand' = hand
            /\ IF i = Len(p) THEN left'[h] = << >> ELSE left'[h] # << >> /\ At(h)' = i
        BY <2>2, GuardSteps
      <3>2. \A k \in Nat : money[i][k] <= money[i - 1][k]
        BY <1>2, <3>1 DEF Account
      <3>3. hand[h] \in Nat
        BY <1>3
      <3>4. g[h] = money[i][hand[h]]
        <4>1. CASE i = Len(p)
          <5>1. g[h] = books[h].credit
            BY <3>1, <4>1 DEF Purses, Purse
          <5>2. money[i][hand[h]] = books[h].credit
            BY <1>6, <3>3, <4>1
          <5> QED BY <5>1, <5>2
        <4>2. CASE i # Len(p)
          BY <3>1, <4>2 DEF Purses, Purse
        <4> QED BY <4>1, <4>2
      <3>5. i \in 0 .. Len(p)
        BY <1>2
      <3>6. money[i][hand[h]] \in Nat
        BY <1>7, <3>3, <3>5
      <3> QED BY <1>4, <3>1, <3>2, <3>3, <3>4, <3>6
    <2> QED BY <2>1, <2>2
  <1>9. Total(g) = Total(f) + g[h] - f[h]
    <2>1. g \in [Handlers -> Nat]
      <3>1. \A e \in Handlers : g[e] \in Nat
        BY <1>1, <1>5, <1>8
      <3>2. g = [e \in Handlers |-> g[e]]
        BY DEF Purses
      <3> HIDE DEF g
      <3> QED BY <3>1, <3>2
    <2> QED BY <1>1, <1>5, <2>1, HandlersAssumption, TotalUpdate
  <1>10. Wealth(cell) + Total(f) <= Wealth(start) + Total(Credits(books))
    BY DEF Covered
  <1>11. /\ Wealth(cell) \in Nat /\ Wealth(start) \in Nat /\ f[h] \in Nat
         /\ Total(f) \in Nat /\ Total(Credits(books)) \in Nat
    <2>1. start \in [Touched(agenda) -> Nat]
      BY DEF IInv, Shape
    <2>2. Wealth(cell) \in Nat /\ Wealth(start) \in Nat
      BY <1>3, <2>1, WealthFacts
    <2> QED BY <1>1, <2>2, HandlersAssumption, TotalIsNat
  <1> HIDE DEF is, was, g, f, i, money
  <1>12. CASE cell' = cell /\ g[h] <= f[h] /\ g[h] \in Nat
    <2>1. Wealth(cell') = Wealth(cell)
      BY <1>12
    <2> QED BY <1>9, <1>10, <1>11, <1>12, <2>1 DEF g
  <1>13. CASE /\ Wealth(cell') = Wealth(cell) + is - was /\ is \in Nat /\ was \in Nat
              /\ is + g[h] <= was + f[h] /\ g[h] \in Nat
    BY <1>9, <1>10, <1>11, <1>13 DEF g
  <1> QED BY <1>8, <1>12, <1>13

LEMMA StepCovers == IInv /\ TrustInv /\ WealthInv /\ [Next]_vars => WealthInv'
  <1> SUFFICES ASSUME IInv, TrustInv, WealthInv, [Next]_vars PROVE WealthInv'
    OBVIOUS
  <1>1. ASSUME NEW h \in Handlers, Act(h) \/ Guard(h) PROVE WealthInv'
    <2>1. agenda' = agenda /\ start' = start
      BY <1>1 DEF Act, Guard
    <2>2. Unspoiled' => Unspoiled
      BY <2>1 DEF Unspoiled
    <2> SUFFICES ASSUME Unspoiled PROVE Covered'
      BY <2>2 DEF WealthInv
    <2>3. Covered /\ TrustStands
      BY DEF WealthInv, TrustInv
    <2>4. ASSUME NEW books,
                 \A g \in Handlers : Account(agenda[g], books[g].credit, books[g].money)
          PROVE  Wealth(cell') + Total(Purses(books)') <= Wealth(start) + Total(Credits(books))
      BY <1>1, <2>3, <2>4, ActCovers
    <2>5. /\ \A books : Total(Purses(books))' = Total(Purses(books)')
          /\ Wealth(cell)' = Wealth(cell') /\ Wealth(start)' = Wealth(start)
      BY <2>1
    <2> QED BY <2>1, <2>4, <2>5 DEF Covered
  <1>2. CASE UNCHANGED vars
    <2>1. UNCHANGED <<cell, left, hand, start, agenda>>
      BY <1>2 DEF vars
    <2>2. \A books : Purses(books)' = Purses(books)
      BY <2>1 DEF Purses, Purse, At
    <2>3. /\ \A books : Total(Purses(books))' = Total(Purses(books)')
          /\ Wealth(cell)' = Wealth(cell') /\ Wealth(start)' = Wealth(start')
      OBVIOUS
    <2>4. Unspoiled' = Unspoiled
      BY <2>1 DEF Unspoiled
    <2> QED BY <2>1, <2>2, <2>3, <2>4 DEF WealthInv, Covered
  <1> QED BY <1>1, <1>2 DEF Next

LEMMA AlwaysCovered == Spec => [](IInv /\ (Disciplined => TrustInv /\ WealthInv))
  <1>1. Init => LockInv /\ TrustInv /\ WealthInv
    BY LocksInitially, TrustInitially, CoveredInitially
  <1>2. ~Disciplined /\ [Next]_vars => ~Disciplined'
    BY DEF Disciplined, Next, Act, Guard, vars
  <1>3. Spec => []IInv
    BY Initially, StepKeeps, PTL DEF Spec
  <1>4. LockInv => Locked
    BY DEF LockInv
  <1>5. IInv /\ (Disciplined => LockInv /\ TrustInv /\ WealthInv) /\ [Next]_vars
            => (Disciplined => LockInv /\ TrustInv /\ WealthInv)'
    BY <1>2, <1>4, StepStands, StepTrusts, StepCovers
  <1> QED BY <1>1, <1>3, <1>5, PTL DEF Spec

\* Errands that take before they give make no coins at any moment, whatever meets
\* and wherever the process stops, unless one spoils a check another relies on.
THEOREM DebitsComeFirst ==
    Spec => [](Disciplined /\ (\A h \in Handlers : PaysFirst(agenda[h])) => DebitFirst)
  <1>1. IInv /\ (Disciplined => TrustInv /\ WealthInv) =>
            (Disciplined /\ (\A h \in Handlers : PaysFirst(agenda[h])) => DebitFirst)
    <2> SUFFICES ASSUME IInv, WealthInv, Unspoiled,
                        \A h \in Handlers : PaysFirst(agenda[h])
                 PROVE  ~(Wealth(cell) > Wealth(start))
      BY DEF DebitFirst
    <2> DEFINE books == [h \in Handlers |->
                            [credit |-> 0,
                             money |-> CHOOSE m : Account(agenda[h], 0, m)]]
    <2>1. \A h \in Handlers : Account(agenda[h], books[h].credit, books[h].money)
      BY DEF PaysFirst
    <2>2. \A h \in Handlers : Credits(books)[h] = 0
      BY DEF Credits
    <2> HIDE DEF books
    <2>3. Purses(books) \in [Handlers -> Nat] /\ Credits(books) \in [Handlers -> Nat]
      BY <2>1, PursesAreNat
    <2>4. Total(Credits(books)) = 0 /\ Total(Purses(books)) \in Nat
      BY <2>2, <2>3, HandlersAssumption, TotalIsNat, TotalZero
    <2>5. Wealth(cell) + Total(Purses(books)) <= Wealth(start) + Total(Credits(books))
      BY <2>1 DEF WealthInv, Covered
    <2>6. Wealth(cell) \in Nat /\ Wealth(start) \in Nat
      BY WealthFacts DEF IInv, Shape
    <2> QED BY <2>4, <2>5, <2>6
  <1> QED BY <1>1, AlwaysCovered, PTL

\* Errands that give no more than they take in the end make no coins between them,
\* whatever meets, unless one spoils a check another relies on.
THEOREM NothingIsMinted ==
    Spec => [](Disciplined /\ (\A h \in Handlers : PaysInFull(agenda[h])) => NothingMinted)
  <1>1. IInv /\ (Disciplined => TrustInv /\ WealthInv) =>
            (Disciplined /\ (\A h \in Handlers : PaysInFull(agenda[h])) => NothingMinted)
    <2> SUFFICES ASSUME IInv, WealthInv, Unspoiled, Done,
                        \A h \in Handlers : PaysInFull(agenda[h])
                 PROVE  ~(Wealth(cell) > Wealth(start))
      BY DEF NothingMinted
    <2> DEFINE Of(h, b) == Account(agenda[h], b.credit, b.money)
               books == [h \in Handlers |-> CHOOSE b : Of(h, b)]
    <2>1. ASSUME NEW h \in Handlers PROVE Account(agenda[h], books[h].credit, books[h].money)
      <3>1. PICK credit, money : Account(agenda[h], credit, money)
        BY DEF PaysInFull
      <3>2. Of(h, [credit |-> credit, money |-> money])
        BY <3>1
      <3>3. \E b : Of(h, b)
        BY <3>2
      <3> HIDE DEF Of
      <3>4. Of(h, books[h])
        BY <3>3
      <3> QED BY <3>4 DEF Of
    <2> HIDE DEF books
    <2>2. Purses(books) \in [Handlers -> Nat] /\ Credits(books) \in [Handlers -> Nat]
      BY <2>1, PursesAreNat
    <2>3. Purses(books) = Credits(books)
      BY DEF Done, Purses, Purse, Credits
    <2>4. Total(Credits(books)) \in Nat
      BY <2>2, HandlersAssumption, TotalIsNat
    <2>5. Wealth(cell) + Total(Purses(books)) <= Wealth(start) + Total(Credits(books))
      BY <2>1 DEF WealthInv, Covered
    <2>6. Wealth(cell) \in Nat /\ Wealth(start) \in Nat
      BY WealthFacts DEF IInv, Shape
    <2> QED BY <2>3, <2>4, <2>5, <2>6
  <1> QED BY <1>1, AlwaysCovered, PTL

-----------------------------------------------------------------------------
(* Running errands alone.                                                   *)

\* A set of numbers that is not empty has a least one.
LEMMA Least ==
    ASSUME NEW T \in SUBSET Nat, T # {}
    PROVE  \E n \in T : \A m \in T : ~(m < n)
  <1> DEFINE R == {ss \in Nat \X Nat : ss[1] < ss[2]}
  <1>1. IsWellFoundedOn(R, Nat)
    BY NatLessThanWellFounded DEF OpToRel
  <1>2. PICK n \in T : \A m \in T : ~(<<m, n>> \in R)
    <2> HIDE DEF R
    <2> QED BY <1>1, WFMin
  <1>3. \A m \in T : ~(m < n)
    BY <1>2
  <1> QED BY <1>3

\* What holds at 0 and at every number after one where it holds, holds up to n.
LEMMA Climb ==
    ASSUME NEW n \in Nat, NEW T, 0 \in T, \A i \in 1 .. n : i - 1 \in T => i \in T
    PROVE  \A i \in 0 .. n : i \in T
  <1> DEFINE U == {i \in 0 .. n : i \notin T}
  <1> SUFFICES ASSUME U # {} PROVE FALSE
    OBVIOUS
  <1>1. U \in SUBSET Nat
    OBVIOUS
  <1>2. PICK x \in U : \A m \in U : ~(m < x)
    <2> HIDE DEF U
    <2> QED BY <1>1, Least
  <1>3. x \in 1 .. n /\ x \notin T
    BY <1>2
  <1>4. x - 1 \in 0 .. n /\ x - 1 < x
    BY <1>3
  <1>5. x - 1 \in T
    BY <1>2, <1>4
  <1> QED BY <1>3, <1>5

\* The states on the way through p, one for every statement.
Trace(t, p, r) ==
    /\ t = [i \in 0 .. Len(p) |-> t[i]]
    /\ t[0] = r
    /\ \A i \in 1 .. Len(p) : t[i] = Alone(t[i - 1], p[i])

\* Every errand can be run, and After is how that ends.
LEMMA AfterTrace ==
    ASSUME NEW p, Len(p) \in Nat, NEW r
    PROVE  \E t : Trace(t, p, r) /\ After(p, r) = t[Len(p)]
  <1> DEFINE n == Len(p)
             Way(t, k) == /\ t = [i \in 0 .. k |-> t[i]]
                          /\ t[0] = r
                          /\ \A i \in 1 .. k : t[i] = Alone(t[i - 1], p[i])
             T == {k \in 0 .. n : \E t : Way(t, k)}
  <1>1. 0 \in T
    <2> DEFINE t == [i \in 0 .. 0 |-> r]
    <2>1. Way(t, 0)
      OBVIOUS
    <2> HIDE DEF Way
    <2> QED BY <2>1
  <1>2. ASSUME NEW k \in 1 .. n, k - 1 \in T PROVE k \in T
    <2>1. PICK t : Way(t, k - 1)
      BY <1>2
    <2> DEFINE u == [i \in 0 .. k |-> IF i = k THEN Alone(t[k - 1], p[k]) ELSE t[i]]
    <2>2. u = [i \in 0 .. k |-> u[i]]
      OBVIOUS
    <2>3. u[0] = r
      BY <2>1
    <2>4. ASSUME NEW i \in 1 .. k PROVE u[i] = Alone(u[i - 1], p[i])
      <3>1. CASE i = k
        <4>1. u[i] = Alone(t[k - 1], p[k])
          BY <3>1
        <4>2. u[k - 1] = t[k - 1]
          OBVIOUS
        <4> QED BY <3>1, <4>1, <4>2, Zenon
      <3>2. CASE i # k
        <4>1. i \in 1 .. k - 1
          BY <3>2
        <4>2. t[i] = Alone(t[i - 1], p[i])
          BY <2>1, <4>1
        <4>3. u[i] = t[i] /\ u[i - 1] = t[i - 1]
          BY <4>1
        <4> QED BY <4>2, <4>3, Zenon
      <3> QED BY <3>1, <3>2
    <2> HIDE DEF u
    <2>5. Way(u, k)
      BY <2>2, <2>3, <2>4
    <2> HIDE DEF Way
    <2> QED BY <2>5
  <1>3. n \in T
    <2> HIDE DEF T
    <2>1. \A i \in 0 .. n : i \in T
      BY <1>1, <1>2, Climb
    <2> QED BY <2>1
  <1>4. PICK t : Way(t, n)
    BY <1>3
  <1> DEFINE next(f) == [i \in 0 .. n |-> IF i = 0 THEN r ELSE Alone(f[i - 1], p[i])]
             f == CHOOSE f : f = next(f)
  <1>5. t = next(t)
    <2>1. t = [i \in 0 .. n |-> t[i]]
      BY <1>4
    <2>2. \A i \in 0 .. n : t[i] = IF i = 0 THEN r ELSE Alone(t[i - 1], p[i])
      BY <1>4
    <2>3. [i \in 0 .. n |-> t[i]] = next(t)
      BY <2>2
    <2> QED BY <2>1, <2>3, Zenon
  <1>6. f = next(f)
    <2> HIDE DEF next
    <2> QED BY <1>5
  <1>7. After(p, r) = f[n]
    BY DEF After
  <1>8. Trace(f, p, r)
    <2> HIDE DEF f
    <2> DEFINE g == next(f)
    <2>1. g = [i \in 0 .. n |-> g[i]] /\ g[0] = r
      OBVIOUS
    <2>2. \A i \in 1 .. n : g[i] = Alone(f[i - 1], p[i])
      OBVIOUS
    <2> HIDE DEF g
    <2>3. f = g
      BY <1>6 DEF g
    <2> QED BY <2>1, <2>2, <2>3, Zenon DEF Trace
  <1> QED BY <1>7, <1>8

\* There is one way through p.
LEMMA AfterIs ==
    ASSUME NEW p, Len(p) \in Nat, NEW r, NEW t, Trace(t, p, r)
    PROVE  After(p, r) = t[Len(p)]
  <1> DEFINE n == Len(p)
  <1>1. PICK u : Trace(u, p, r) /\ After(p, r) = u[n]
    BY AfterTrace
  <1> DEFINE T == {i \in 0 .. n : u[i] = t[i]}
  <1>2. 0 \in T
    BY <1>1 DEF Trace
  <1>3. ASSUME NEW i \in 1 .. n, i - 1 \in T PROVE i \in T
    <2>1. u[i] = Alone(u[i - 1], p[i]) /\ t[i] = Alone(t[i - 1], p[i])
      BY <1>1 DEF Trace
    <2>2. u[i - 1] = t[i - 1]
      BY <1>3
    <2>3. u[i] = t[i]
      BY <2>1, <2>2, Zenon
    <2> QED BY <2>3
  <1>4. n \in T
    <2> HIDE DEF T
    <2>1. \A i \in 0 .. n : i \in T
      BY <1>2, <1>3, Climb
    <2> QED BY <2>1
  <1> QED BY <1>1, <1>4

LEMMA AfterNothing == ASSUME NEW r PROVE After(<< >>, r) = r
  <1> DEFINE t == [i \in 0 .. 0 |-> r]
  <1>1. Len(<< >>) = 0
    OBVIOUS
  <1>2. Trace(t, << >>, r)
    BY <1>1 DEF Trace
  <1>3. t[0] = r
    OBVIOUS
  <1> HIDE DEF t
  <1>4. After(<< >>, r) = t[Len(<< >>)]
    BY <1>1, <1>2, AfterIs
  <1> QED BY <1>1, <1>3, <1>4

\* One statement, and then the others.
LEMMA AfterStep ==
    ASSUME NEW S, NEW p \in Seq(S), p # << >>, NEW r
    PROVE  After(p, r) = After(Tail(p), Alone(r, Head(p)))
  <1> DEFINE n == Len(p)
             q == Tail(p)
  <1>1. n \in Nat /\ Len(q) = n - 1 /\ n >= 1 /\ Head(p) = p[1]
        /\ \A i \in 1 .. n - 1 : q[i] = p[i + 1]
    <2>1. n \in Nat /\ n # 0
      BY EmptySeq, LenProperties
    <2>2. Head(p) = p[1] /\ Len(q) = n - 1
      BY HeadTailProperties
    <2>3. \A i \in 1 .. n - 1 : q[i] = p[i + 1]
      BY HeadTailProperties, <2>2
    <2> HIDE DEF n, q
    <2> QED BY <2>1, <2>2, <2>3
  <1>2. PICK t : Trace(t, p, r) /\ After(p, r) = t[n]
    BY <1>1, AfterTrace
  <1> DEFINE u == [i \in 0 .. n - 1 |-> t[i + 1]]
  <1>3. u = [i \in 0 .. Len(q) |-> u[i]]
    BY <1>1
  <1>4. u[0] = Alone(r, Head(p))
    <2>0. 1 \in 1 .. n
      <3> HIDE DEF n, q, u
      <3> QED BY <1>1
    <2>1. t[1] = Alone(t[1 - 1], p[1]) /\ t[0] = r
      BY <1>2, <2>0 DEF Trace
    <2>2. u[0] = t[1]
      BY <1>1
    <2>3. 1 - 1 = 0
      OBVIOUS
    <2> QED BY <1>1, <2>1, <2>2, <2>3
  <1>5. ASSUME NEW i \in 1 .. Len(q) PROVE u[i] = Alone(u[i - 1], q[i])
    <2>1. i \in 1 .. n - 1 /\ i + 1 \in 1 .. n /\ (i + 1) - 1 = i /\ i - 1 \in 0 .. n - 1
          /\ (i - 1) + 1 = i
      <3> HIDE DEF n, q, u
      <3> QED BY <1>1
    <2>2. t[i + 1] = Alone(t[(i + 1) - 1], p[i + 1])
      BY <1>2, <2>1 DEF Trace
    <2>3. u[i] = t[i + 1] /\ u[i - 1] = t[(i - 1) + 1] /\ q[i] = p[i + 1]
      BY <1>1, <2>1
    <2> QED BY <2>1, <2>2, <2>3, Zenon
  <1>6. u[n - 1] = t[n]
    BY <1>1
  <1> HIDE DEF u, n, q
  <1>7. Trace(u, q, Alone(r, Head(p)))
    BY <1>3, <1>4, <1>5 DEF Trace
  <1>8. After(q, Alone(r, Head(p))) = u[Len(q)]
    BY <1>1, <1>7, AfterIs
  <1> QED BY <1>1, <1>2, <1>6, <1>8 DEF q

\* The cells p reaches.
CellsIn(p) == {p[i].at : i \in 1 .. Len(p)} \ Mutexes

\* A function on S.
Over(S, d) == d = [c \in S |-> d[c]]

LEMMA OverOne ==
    ASSUME NEW S, NEW d, Over(S, d), NEW x \in S, NEW v
    PROVE  LET e == [d EXCEPT ![x] = v]
           IN  Over(S, e) /\ e[x] = v /\ \A c \in S \ {x} : e[c] = d[c]
  <1> DEFINE f == [c \in S |-> d[c]]
  <1>1. d = f
    BY DEF Over
  <1>2. LET e == [f EXCEPT ![x] = v]
        IN  Over(S, e) /\ e[x] = v /\ \A c \in S \ {x} : e[c] = f[c]
    BY DEF Over
  <1> HIDE DEF f
  <1> QED BY <1>1, <1>2

\* Two states that are the same to a handler that only reaches X.
Alike(X, r, q) == r.hand = q.hand /\ r.on = q.on /\ \A c \in X : r.cell[c] = q.cell[c]

\* All cells but x are the same in d and e, and x too if it is no cell.
Frame(S, x, d, e) == \A c \in S : c # x \/ c \in Mutexes => e[c] = d[c]

LEMMA AloneAgrees ==
    ASSUME NEW S, NEW X \in SUBSET S, NEW s, s.at \in Mutexes \/ s.at \in X,
           NEW r, NEW q, Over(S, r.cell), Over(S, q.cell), Alike(X, r, q)
    PROVE  /\ Over(S, Alone(r, s).cell) /\ Over(S, Alone(q, s).cell)
           /\ Alike(X, Alone(r, s), Alone(q, s))
           /\ Frame(S, s.at, r.cell, Alone(r, s).cell)
  <1>1. CASE ~r.on \/ s.at \in Mutexes
    <2>1. Alone(r, s) = r /\ Alone(q, s) = q
      BY <1>1 DEF Alone, Alike
    <2> QED BY <2>1 DEF Frame
  <1>2. CASE r.on /\ s.at \notin Mutexes
    <2> DEFINE v == r.cell[s.at]
               k == r.hand
               new == [r.cell EXCEPT ![s.at] = Written(s, v, k)]
               other == [q.cell EXCEPT ![s.at] = Written(s, v, k)]
    <2>1. q.cell[s.at] = v /\ q.hand = k /\ q.on
      BY <1>2 DEF Alike
    <2>2. /\ Alone(r, s) = [cell |-> new, hand |-> Remembered(s, v, k), on |-> Passes(s, v, k)]
          /\ Alone(q, s) = [cell |-> other, hand |-> Remembered(s, v, k),
                            on |-> Passes(s, v, k)]
      BY <1>2, <2>1 DEF Alone
    <2>3. s.at \in S
      BY <1>2
    <2>4. /\ Over(S, new) /\ new[s.at] = Written(s, v, k)
          /\ \A c \in S \ {s.at} : new[c] = r.cell[c]
      BY <2>3, OverOne
    <2>5. /\ Over(S, other) /\ other[s.at] = Written(s, v, k)
          /\ \A c \in S \ {s.at} : other[c] = q.cell[c]
      BY <2>3, OverOne
    <2> HIDE DEF new, other
    <2>6. \A c \in X : new[c] = other[c]
      BY <2>4, <2>5 DEF Alike
    <2>7. Frame(S, s.at, r.cell, new)
      BY <1>2, <2>4 DEF Frame
    <2> HIDE DEF v, k
    <2>8. /\ Alone(r, s).cell = new /\ Alone(q, s).cell = other
          /\ Alone(r, s).hand = Alone(q, s).hand /\ Alone(r, s).on = Alone(q, s).on
      BY <2>2
    <2> QED BY <1>2, <2>4, <2>5, <2>6, <2>7, <2>8 DEF Alike
  <1> QED BY <1>1, <1>2

\* What p leaves in the cells it reaches depends on nothing but these and what the
\* handler remembers, and it leaves the others alone.
LEMMA AfterAgrees ==
    ASSUME NEW p, Len(p) \in Nat, NEW S, NEW X \in SUBSET S, CellsIn(p) \subseteq X,
           NEW r, NEW q, Over(S, r.cell), Over(S, q.cell), Alike(X, r, q)
    PROVE  /\ Over(S, After(p, r).cell)
           /\ \A c \in X : After(p, r).cell[c] = After(p, q).cell[c]
           /\ \A c \in S \ CellsIn(p) : After(p, r).cell[c] = r.cell[c]
  <1> DEFINE n == Len(p)
  <1>1. PICK t : Trace(t, p, r) /\ After(p, r) = t[n]
    BY AfterTrace
  <1>2. PICK u : Trace(u, p, q) /\ After(p, q) = u[n]
    BY AfterTrace
  <1> DEFINE Holds(i) == /\ Over(S, t[i].cell) /\ Over(S, u[i].cell) /\ Alike(X, t[i], u[i])
                         /\ \A c \in S \ CellsIn(p) : t[i].cell[c] = r.cell[c]
             T == {i \in 0 .. n : Holds(i)}
  <1>3. 0 \in T
    <2>1. t[0] = r /\ u[0] = q
      BY <1>1, <1>2 DEF Trace
    <2>2. Holds(0)
      BY <2>1
    <2> HIDE DEF Holds
    <2> QED BY <2>2
  <1>4. ASSUME NEW i \in 1 .. n, i - 1 \in T PROVE i \in T
    <2>1. t[i] = Alone(t[i - 1], p[i]) /\ u[i] = Alone(u[i - 1], p[i])
      BY <1>1, <1>2 DEF Trace
    <2>2. Holds(i - 1)
      BY <1>4
    <2>3. p[i].at \in Mutexes \/ p[i].at \in X
      BY DEF CellsIn
    <2>4. /\ Over(S, t[i].cell) /\ Over(S, u[i].cell) /\ Alike(X, t[i], u[i])
          /\ Frame(S, p[i].at, t[i - 1].cell, t[i].cell)
      <3> DEFINE a == t[i - 1]
                 b == u[i - 1]
                 s == p[i]
      <3>1. Over(S, a.cell) /\ Over(S, b.cell) /\ Alike(X, a, b)
        BY <2>2
      <3>2. s.at \in Mutexes \/ s.at \in X
        BY <2>3
      <3> HIDE DEF a, b, s, T
      <3>3. /\ Over(S, Alone(a, s).cell) /\ Over(S, Alone(b, s).cell)
            /\ Alike(X, Alone(a, s), Alone(b, s))
            /\ Frame(S, s.at, a.cell, Alone(a, s).cell)
        BY <3>1, <3>2, AloneAgrees, Zenon
      <3> QED BY <2>1, <3>3 DEF a, b, s
    <2>5. \A c \in S \ CellsIn(p) : t[i].cell[c] = r.cell[c]
      <3> SUFFICES ASSUME NEW c \in S \ CellsIn(p) PROVE t[i].cell[c] = r.cell[c]
        OBVIOUS
      <3>1. c # p[i].at \/ c \in Mutexes
        BY DEF CellsIn
      <3>2. t[i].cell[c] = t[i - 1].cell[c]
        BY <2>4, <3>1 DEF Frame
      <3>3. t[i - 1].cell[c] = r.cell[c]
        BY <2>2
      <3> QED BY <3>2, <3>3, Zenon
    <2>6. Holds(i)
      BY <2>4, <2>5
    <2> HIDE DEF Holds
    <2> QED BY <2>6
  <1>5. n \in T
    <2> HIDE DEF T
    <2>1. \A i \in 0 .. n : i \in T
      BY <1>3, <1>4, Climb
    <2> QED BY <2>1
  <1>6. Holds(n)
    BY <1>5
  <1> HIDE DEF n
  <1> QED BY <1>1, <1>2, <1>6 DEF Alike

\* The cells p leaves behind, for a handler that remembers k.
Outcome(p, k, d) == After(p, [cell |-> d, hand |-> k, on |-> TRUE]).cell

LEMMA RunIsOutcome == ASSUME NEW p, NEW d PROVE Run(p, d) = Outcome(p, 0, d)
  BY DEF Run, Outcome

LEMMA AfterOff ==
    ASSUME NEW p, Len(p) \in Nat, NEW r, ~r.on
    PROVE  After(p, r) = r
  <1> DEFINE n == Len(p)
  <1>1. PICK t : Trace(t, p, r) /\ After(p, r) = t[n]
    BY AfterTrace
  <1> DEFINE T == {i \in 0 .. n : t[i] = r}
  <1>2. 0 \in T
    BY <1>1 DEF Trace
  <1>3. ASSUME NEW i \in 1 .. n, i - 1 \in T PROVE i \in T
    <2>1. t[i] = Alone(t[i - 1], p[i]) /\ t[i - 1] = r
      BY <1>1, <1>3 DEF Trace
    <2>2. t[i] = r
      BY <2>1 DEF Alone
    <2> QED BY <2>2
  <1>4. n \in T
    <2> HIDE DEF T
    <2>1. \A i \in 0 .. n : i \in T
      BY <1>2, <1>3, Climb
    <2> QED BY <2>1
  <1> QED BY <1>1, <1>4

\* What p does not reach is the same in d and e.
Keeps(S, p, d, e) == \A c \in S \ CellsIn(p) : e[c] = d[c]

LEMMA OutcomeOver ==
    ASSUME NEW p, Len(p) \in Nat, NEW S, CellsIn(p) \subseteq S, NEW k, NEW d, Over(S, d)
    PROVE  Over(S, Outcome(p, k, d)) /\ Keeps(S, p, d, Outcome(p, k, d))
  <1> DEFINE r == [cell |-> d, hand |-> k, on |-> TRUE]
             a == After(p, r)
  <1>1. r.cell = d
    OBVIOUS
  <1> HIDE DEF r
  <1>2. Over(S, r.cell) /\ Alike(S, r, r)
    BY <1>1 DEF Alike
  <1>3. Over(S, a.cell) /\ \A c \in S \ CellsIn(p) : a.cell[c] = r.cell[c]
    BY <1>2, AfterAgrees
  <1> QED BY <1>1, <1>3 DEF Outcome, r, Keeps

Agree(X, d, e) == \A c \in X : d[c] = e[c]

LEMMA OutcomeAgrees ==
    ASSUME NEW p, Len(p) \in Nat, NEW S, NEW X \in SUBSET S, CellsIn(p) \subseteq X, NEW k,
           NEW d, NEW e, Over(S, d), Over(S, e), Agree(X, d, e)
    PROVE  Agree(X, Outcome(p, k, d), Outcome(p, k, e))
  <1> DEFINE r == [cell |-> d, hand |-> k, on |-> TRUE]
             q == [cell |-> e, hand |-> k, on |-> TRUE]
  <1>1. r.cell = d /\ q.cell = e /\ Alike(X, r, q)
    BY DEF Alike, Agree
  <1> HIDE DEF r, q
  <1>2. \A c \in X : After(p, r).cell[c] = After(p, q).cell[c]
    BY <1>1, AfterAgrees
  <1> QED BY <1>2 DEF Outcome, Agree, r, q

LEMMA OutcomeNothing == ASSUME NEW k, NEW d PROVE Outcome(<< >>, k, d) = d
  <1> DEFINE r == [cell |-> d, hand |-> k, on |-> TRUE]
  <1>1. r.cell = d
    OBVIOUS
  <1> HIDE DEF r
  <1>2. After(<< >>, r) = r
    BY AfterNothing
  <1> QED BY <1>1, <1>2 DEF Outcome, r

\* What is left of an errand, statement by statement.
LEMMA LeftFacts ==
    ASSUME IInv, NEW h \in Handlers
    PROVE  /\ left[h] \in Seq(InAgenda) /\ Len(left[h]) \in Nat
           /\ At(h) \in Nat /\ Len(agenda[h]) \in Nat /\ Len(agenda[h]) = At(h) + Len(left[h])
           /\ \A i \in 1 .. Len(left[h]) :
                 At(h) + i \in 1 .. Len(agenda[h]) /\ left[h][i] = agenda[h][At(h) + i]
  <1> DEFINE p == agenda[h]
             n == Len(p)
             l == Len(left[h])
  <1>1. p \in Seq(InAgenda) /\ n \in Nat
    BY AgendaFacts, LenProperties DEF IInv, Shape
  <1>2. left[h] \in Seq(InAgenda) /\ l \in Nat
    BY LenProperties DEF IInv, Shape
  <1>3. PICK k \in 0 .. n : left[h] = SubSeq(p, k + 1, n)
    BY DEF IInv, Ends, Rest
  <1>4. /\ Len(SubSeq(p, k + 1, n)) = IF k + 1 <= n THEN n - (k + 1) + 1 ELSE 0
        /\ \A i \in 1 .. n - (k + 1) + 1 : SubSeq(p, k + 1, n)[i] = p[k + 1 + i - 1]
    <2>1. k + 1 \in Int /\ n \in Int /\ \A i \in k + 1 .. n : p[i] \in InAgenda
      BY <1>1, ElementOfSeq
    <2> QED BY <2>1, SubSeqProperties
  <1>5. l = n - k
    <2>1. l = IF k + 1 <= n THEN n - (k + 1) + 1 ELSE 0
      BY <1>3, <1>4
    <2> HIDE DEF l, n
    <2> QED BY <1>1, <2>1
  <1>6. At(h) = n - l
    BY DEF At
  <1>7. n = At(h) + l /\ At(h) \in Nat /\ At(h) = k
    <2> DEFINE a == At(h)
    <2>1. a = n - l
      BY <1>6
    <2> HIDE DEF l, n, a
    <2>2. n = a + l /\ a \in Nat /\ a = k
      BY <1>1, <1>2, <1>5, <2>1
    <2> QED BY <2>2 DEF a
  <1>8. ASSUME NEW i \in 1 .. l PROVE k + i \in 1 .. n /\ left[h][i] = p[k + i]
    <2>1. k + i \in 1 .. n /\ i \in 1 .. n - (k + 1) + 1 /\ k + 1 + i - 1 = k + i
      <3> HIDE DEF l, n
      <3> QED BY <1>1, <1>2, <1>5
    <2> QED BY <1>3, <1>4, <2>1
  <1> QED BY <1>1, <1>2, <1>7, <1>8, Zenon

LEMMA CellsAhead ==
    ASSUME IInv, NEW h \in Handlers
    PROVE  /\ CellsIn(left[h]) \subseteq CellsIn(agenda[h])
           /\ CellsIn(agenda[h]) \subseteq Touched(agenda)
           /\ \A c \in CellsIn(left[h]) :
                 \E i \in At(h) + 1 .. Len(agenda[h]) : agenda[h][i].at = c
           /\ left[h] = << >> => CellsIn(left[h]) = {}
  <1> DEFINE l == Len(left[h])
             n == Len(agenda[h])
             a == At(h)
  <1>1. /\ l \in Nat /\ a \in Nat /\ n \in Nat
        /\ \A i \in 1 .. l : a + i \in 1 .. n /\ left[h][i] = agenda[h][a + i]
    BY LeftFacts
  <1>2. ASSUME NEW c \in CellsIn(left[h])
        PROVE  c \in CellsIn(agenda[h]) /\ \E i \in a + 1 .. n : agenda[h][i].at = c
    <2>1. PICK i \in 1 .. l : c = left[h][i].at /\ c \notin Mutexes
      BY DEF CellsIn
    <2>2. a + i \in 1 .. n /\ agenda[h][a + i].at = c
      BY <1>1, <2>1
    <2>3. a + i \in a + 1 .. n
      <3> HIDE DEF l, a, n
      <3> QED BY <1>1, <2>2
    <2> QED BY <2>1, <2>2, <2>3 DEF CellsIn
  <1>3. CellsIn(agenda[h]) \subseteq Touched(agenda)
    BY AgendaFacts DEF CellsIn, IInv, Shape
  <1>4. left[h] = << >> => CellsIn(left[h]) = {}
    BY DEF CellsIn
  <1> QED BY <1>2, <1>3, <1>4

\* A step of g in the cells e, and what is left of its errand after it.
LEMMA OutcomeStep ==
    ASSUME IInv, NEW g \in Handlers, Act(g) \/ Guard(g), NEW e,
           LET x == agenda[g][At(g) + 1].at IN x \notin Mutexes => e[x] = cell[x]
    PROVE  LET x == agenda[g][At(g) + 1].at
           IN  /\ x \in CellsIn(left[g]) \cup Mutexes
               /\ CellsIn(left'[g]) \subseteq CellsIn(left[g])
               /\ Outcome(left[g], hand[g], e)
                      = Outcome(left'[g], hand'[g],
                                IF x \in Mutexes THEN e ELSE [e EXCEPT ![x] = cell'[x]])
  <1> DEFINE s == agenda[g][At(g) + 1]
             x == s.at
             q == left[g]
             k == hand[g]
             r == [cell |-> e, hand |-> k, on |-> TRUE]
  <1>1. /\ q # << >> /\ q \in Seq(InAgenda) /\ Head(q) = s
        /\ left'[g] = Tail(q) \/ left'[g] = << >>
    <2>1. q # << >> /\ q \in Seq(InAgenda)
      BY DEF Act, Guard, IInv, Shape
    <2>2. left' = [left EXCEPT ![g] = Tail(left[g])] \/ left' = [left EXCEPT ![g] = << >>]
      BY DEF Act, Guard
    <2> QED BY <2>1, <2>2, AtFacts DEF IInv, Shape
  <1>2. /\ Len(q) \in Nat /\ Len(q) >= 1 /\ Head(q) = q[1] /\ Len(Tail(q)) = Len(q) - 1
        /\ \A i \in 1 .. Len(q) - 1 : Tail(q)[i] = q[i + 1]
    <2>1. Len(q) \in Nat /\ Len(q) # 0
      BY <1>1, EmptySeq, LenProperties
    <2>2. Head(q) = q[1] /\ Len(Tail(q)) = Len(q) - 1
      BY <1>1, HeadTailProperties
    <2>3. \A i \in 1 .. Len(q) - 1 : Tail(q)[i] = q[i + 1]
      BY <1>1, <2>2, HeadTailProperties
    <2> HIDE DEF q
    <2> QED BY <2>1, <2>2, <2>3
  <1>3. x \in CellsIn(q) \cup Mutexes
    <2>1. 1 \in 1 .. Len(q) /\ s = q[1]
      BY <1>1, <1>2
    <2> QED BY <2>1 DEF CellsIn
  <1>4. CellsIn(left'[g]) \subseteq CellsIn(q)
    <2>1. CellsIn(Tail(q)) \subseteq CellsIn(q)
      <3> SUFFICES ASSUME NEW c \in CellsIn(Tail(q)) PROVE c \in CellsIn(q)
        OBVIOUS
      <3>1. PICK i \in 1 .. Len(Tail(q)) : c = Tail(q)[i].at /\ c \notin Mutexes
        BY DEF CellsIn
      <3> DEFINE n == Len(q)
      <3>2. i \in 1 .. n - 1 /\ n \in Nat
        BY <1>2, <3>1
      <3>3. i + 1 \in 1 .. n
        <4> HIDE DEF n
        <4> QED BY <3>2
      <3> QED BY <1>2, <3>1, <3>2, <3>3 DEF CellsIn
    <2>2. CellsIn(<< >>) = {}
      BY DEF CellsIn
    <2> QED BY <1>1, <2>1, <2>2
  <1>5. After(q, r) = After(Tail(q), Alone(r, s))
    <2> HIDE DEF q, r, s
    <2> QED BY <1>1, AfterStep DEF q
  <1>6. CASE Guard(g)
    <2>1. x \in Mutexes /\ left'[g] = Tail(q) /\ hand'[g] = k
      <3>1. x \in Mutexes
        BY <1>6, GuardSteps
      <3>2. left' = [left EXCEPT ![g] = Tail(left[g])] /\ hand' = hand
        BY <1>6 DEF Guard
      <3> QED BY <3>1, <3>2 DEF IInv, Shape
    <2>2. Alone(r, s) = r
      BY <2>1 DEF Alone
    <2>3. After(q, r).cell = After(Tail(q), r).cell
      BY <1>5, <2>2
    <2> HIDE DEF q, s, k
    <2> QED BY <1>3, <1>4, <2>1, <2>3 DEF Outcome, q, s, k
  <1>7. CASE Act(g)
    <2> DEFINE v == cell[x]
               on == Passes(s, v, k)
               f == [e EXCEPT ![x] = cell'[x]]
    <2>1. /\ x \in Touched(agenda) /\ x \notin Mutexes
          /\ cell' = [cell EXCEPT ![x] = Written(s, v, k)]
          /\ hand' = [hand EXCEPT ![g] = Remembered(s, v, k)]
      BY <1>7, ActSteps
    <2>2. left'[g] = IF on THEN Tail(q) ELSE << >>
      BY <1>1, <1>7 DEF Act, IInv, Shape
    <2>3. cell'[x] = Written(s, v, k) /\ hand'[g] = Remembered(s, v, k) /\ e[x] = v
      BY <2>1 DEF IInv, Shape
    <2>4. Alone(r, s) = [cell |-> f, hand |-> hand'[g], on |-> on]
      <3>1. r.on /\ r.cell = e /\ r.hand = k
        OBVIOUS
      <3> HIDE DEF r, s, k
      <3>2. Alone(r, s) = [cell |-> [r.cell EXCEPT ![x] = Written(s, r.cell[x], r.hand)],
                           hand |-> Remembered(s, r.cell[x], r.hand),
                           on |-> Passes(s, r.cell[x], r.hand)]
        BY <2>1, <3>1 DEF Alone
      <3> QED BY <2>3, <3>1, <3>2
    <2> HIDE DEF f
    <2>5. CASE on
      <3>1. Alone(r, s) = [cell |-> f, hand |-> hand'[g], on |-> TRUE]
        <4>1. on = TRUE
          BY <2>5 DEF Passes
        <4> HIDE DEF on
        <4> QED BY <2>4, <4>1
      <3>2. left'[g] = Tail(q)
        BY <2>2, <2>5
      <3>3. Outcome(q, k, e) = Outcome(left'[g], hand'[g], f)
        BY <1>5, <3>1, <3>2 DEF Outcome
      <3> QED BY <1>3, <1>4, <2>1, <3>3 DEF f
    <2>6. CASE ~on
      <3>1. left'[g] = << >>
        BY <2>2, <2>6
      <3> DEFINE t == Alone(r, s)
                 S == Touched(agenda)
      <3>2. ~t.on /\ t.cell = f
        BY <2>4, <2>6
      <3>3. Outcome(left'[g], hand'[g], f) = f
        BY <3>1, OutcomeNothing
      <3>4. After(Tail(q), t) = t
        <4> HIDE DEF t, q
        <4>1. Len(Tail(q)) \in Nat
          BY <1>2
        <4> QED BY <3>2, <4>1, AfterOff
      <3>5. Outcome(q, k, e) = f
        BY <1>5, <3>2, <3>4 DEF Outcome
      <3> QED BY <1>3, <1>4, <2>1, <3>3, <3>5 DEF f
    <2> QED BY <2>5, <2>6
  <1> QED BY <1>6, <1>7

-----------------------------------------------------------------------------
(* One errand after the other.                                              *)

\* The cells are d when the handlers of o have run one after the other.
Serial(o, d) ==
    /\ o \in Seq(Handlers)
    /\ \A i, j \in 1 .. Len(o) : o[i] = o[j] => i = j
    /\ \E t : /\ t = [i \in 0 .. Len(o) |-> t[i]]
              /\ t[0] = start
              /\ \A i \in 1 .. Len(o) : t[i] = Run(agenda[o[i]], t[i - 1])
              /\ d = t[Len(o)]

Joined(o) == {o[i] : i \in 1 .. Len(o)}

LEMMA SerialStart == Serial(<< >>, start) /\ Joined(<< >>) = {}
  <1> DEFINE t == [i \in 0 .. 0 |-> start]
  <1>1. Len(<< >>) = 0 /\ << >> \in Seq(Handlers)
    OBVIOUS
  <1>2. /\ t = [i \in 0 .. Len(<< >>) |-> t[i]]
        /\ t[0] = start
        /\ \A i \in 1 .. Len(<< >>) : t[i] = Run(agenda[<< >>[i]], t[i - 1])
        /\ start = t[Len(<< >>)]
    BY <1>1
  <1>3. Joined(<< >>) = {}
    BY <1>1 DEF Joined
  <1> HIDE DEF t
  <1> QED BY <1>1, <1>2, <1>3 DEF Serial

\* There is one outcome of each order.
LEMMA SerialIs ==
    ASSUME NEW o, NEW d, Serial(o, d)
    PROVE  Serially(o) = d
  <1> DEFINE n == Len(o)
  <1>1. n \in Nat
    BY LenProperties DEF Serial
  <1>2. PICK t : /\ t = [i \in 0 .. n |-> t[i]]
                 /\ t[0] = start
                 /\ \A i \in 1 .. n : t[i] = Run(agenda[o[i]], t[i - 1])
                 /\ d = t[n]
    BY DEF Serial
  <1> DEFINE next(f) == [i \in 0 .. n |-> IF i = 0 THEN start ELSE Run(agenda[o[i]], f[i - 1])]
             f == CHOOSE f : f = next(f)
  <1>3. t = next(t)
    <2>1. \A i \in 0 .. n : t[i] = IF i = 0 THEN start ELSE Run(agenda[o[i]], t[i - 1])
      BY <1>2
    <2>2. [i \in 0 .. n |-> t[i]] = next(t)
      BY <2>1
    <2> QED BY <1>2, <2>2, Zenon
  <1>4. f = next(f)
    <2> HIDE DEF next
    <2> QED BY <1>3
  <1>5. Serially(o) = f[n]
    BY DEF Serially
  <1>6. f[0] = start /\ \A i \in 1 .. n : f[i] = Run(agenda[o[i]], f[i - 1])
    <2> HIDE DEF f
    <2> DEFINE g == next(f)
    <2>1. g[0] = start /\ \A i \in 1 .. n : g[i] = Run(agenda[o[i]], f[i - 1])
      BY <1>1
    <2> HIDE DEF g
    <2>2. f = g
      BY <1>4 DEF g
    <2> QED BY <2>1, <2>2, Zenon
  <1> DEFINE T == {i \in 0 .. n : f[i] = t[i]}
  <1> HIDE DEF f
  <1>7. 0 \in T
    BY <1>1, <1>2, <1>6
  <1>8. ASSUME NEW i \in 1 .. n, i - 1 \in T PROVE i \in T
    <2>1. f[i] = Run(agenda[o[i]], f[i - 1]) /\ t[i] = Run(agenda[o[i]], t[i - 1])
      BY <1>2, <1>6
    <2>2. f[i - 1] = t[i - 1]
      BY <1>8
    <2>3. f[i] = t[i]
      BY <2>1, <2>2, Zenon
    <2> QED BY <2>3
  <1>9. n \in T
    <2> HIDE DEF T
    <2>1. \A i \in 0 .. n : i \in T
      BY <1>1, <1>7, <1>8, Climb
    <2> QED BY <1>1, <2>1
  <1> QED BY <1>2, <1>5, <1>9

\* One handler more, after the others.
LEMMA SerialAppend ==
    ASSUME NEW o, NEW d, Serial(o, d), NEW h \in Handlers \ Joined(o)
    PROVE  /\ Serial(Append(o, h), Run(agenda[h], d))
           /\ Joined(Append(o, h)) = Joined(o) \cup {h}
           /\ Len(Append(o, h)) = Len(o) + 1
  <1> DEFINE n == Len(o)
             e == Run(agenda[h], d)
             p == Append(o, h)
  <1>1. n \in Nat /\ o \in Seq(Handlers)
    BY LenProperties DEF Serial
  <1>2. /\ p \in Seq(Handlers) /\ Len(p) = n + 1 /\ p[n + 1] = h
        /\ \A i \in 1 .. n : p[i] = o[i]
    BY <1>1, AppendProperties
  <1>3. PICK t : /\ t = [i \in 0 .. n |-> t[i]]
                 /\ t[0] = start
                 /\ \A i \in 1 .. n : t[i] = Run(agenda[o[i]], t[i - 1])
                 /\ d = t[n]
    BY DEF Serial
  <1> DEFINE u == [i \in 0 .. n + 1 |-> IF i = n + 1 THEN e ELSE t[i]]
  <1>4. u = [i \in 0 .. Len(p) |-> u[i]]
    BY <1>2
  <1>5. u[0] = start /\ u[n + 1] = e
    BY <1>1, <1>3
  <1>6. ASSUME NEW i \in 1 .. Len(p) PROVE u[i] = Run(agenda[p[i]], u[i - 1])
    <2> HIDE DEF p
    <2>1. CASE i = n + 1
      <3>1. u[i] = e /\ i - 1 = n
        BY <1>1, <2>1
      <3>2. u[n] = t[n]
        BY <1>1
      <3> HIDE DEF u, n
      <3> QED BY <1>2, <1>3, <2>1, <3>1, <3>2
    <2>2. CASE i # n + 1
      <3>1. i \in 1 .. n
        BY <1>1, <1>2, <2>2
      <3>2. u[i] = t[i] /\ u[i - 1] = t[i - 1]
        BY <1>1, <3>1
      <3>3. t[i] = Run(agenda[o[i]], t[i - 1]) /\ p[i] = o[i]
        BY <1>2, <1>3, <3>1
      <3> QED BY <3>2, <3>3, Zenon
    <2> QED BY <2>1, <2>2
  <1>7. \A i, j \in 1 .. Len(p) : p[i] = p[j] => i = j
    <2> SUFFICES ASSUME NEW i \in 1 .. n + 1, NEW j \in 1 .. n + 1, p[i] = p[j], i # j
                 PROVE  FALSE
      BY <1>2
    <2> HIDE DEF p
    <2>1. CASE i = n + 1
      <3>1. j \in 1 .. n
        BY <1>1, <2>1
      <3> QED BY <1>2, <2>1, <3>1 DEF Joined
    <2>2. CASE j = n + 1
      <3>1. i \in 1 .. n
        BY <1>1, <2>2
      <3> QED BY <1>2, <2>2, <3>1 DEF Joined
    <2>3. CASE i # n + 1 /\ j # n + 1
      <3>1. i \in 1 .. n /\ j \in 1 .. n
        BY <1>1, <2>3
      <3>2. o[i] = o[j]
        BY <1>2, <3>1
      <3> QED BY <3>1, <3>2 DEF Serial
    <2> QED BY <2>1, <2>2, <2>3
  <1>8. Joined(p) = Joined(o) \cup {h}
    <2> HIDE DEF p
    <2>1. ASSUME NEW i \in 1 .. n + 1 PROVE p[i] \in Joined(o) \cup {h}
      <3>1. i = n + 1 \/ i \in 1 .. n
        BY <1>1
      <3> QED BY <1>2, <3>1 DEF Joined
    <2>2. ASSUME NEW i \in 1 .. n PROVE o[i] \in Joined(p)
      <3>1. i \in 1 .. n + 1
        BY <1>1
      <3> QED BY <1>2, <3>1 DEF Joined
    <2>3. h \in Joined(p)
      <3>1. n + 1 \in 1 .. n + 1
        BY <1>1
      <3> QED BY <1>2, <3>1 DEF Joined
    <2> QED BY <1>2, <2>1, <2>2, <2>3 DEF Joined
  <1> HIDE DEF u, e, p, n
  <1>9. Serial(p, e)
    BY <1>2, <1>4, <1>5, <1>6, <1>7 DEF Serial
  <1> QED BY <1>2, <1>8, <1>9 DEF p, e, n

-----------------------------------------------------------------------------
(* Serializability.  At any moment the handlers that have met the others can  *)
(* be taken to have done all of their errands, in the order they met, and     *)
(* the others to have done none.                                              *)

\* The cells only h reaches.
Private(h) ==
    {c \in CellsIn(agenda[h]) : \A g \in Handlers \ {h} : c \notin CellsIn(agenda[g])}

\* The cells of h as they are now, and the others as in d.
Mixed(h, d) == [c \in Touched(agenda) |-> IF c \in Private(h) THEN cell[c] ELSE d[c]]

\* The handlers in J, which have met the others, are as good as done with their
\* errands: the cells will be as in d.  The others have not begun, as far as anybody
\* else can tell.
NotBegun(J, d) ==
    \A h \in Handlers \ J :
        /\ \A c \in Private(h) : d[c] = start[c]
        /\ \A e : Over(Touched(agenda), e) /\ (\A c \in Private(h) : e[c] = start[c]) =>
               Run(agenda[h], e) = Outcome(left[h], hand[h], Mixed(h, e))
AsGoodAsDone(J, d) ==
    \A h \in J : \A c \in Private(h) \cup CellsIn(left[h]) :
        Outcome(left[h], hand[h], cell)[c] = d[c]
Settled(J, d) ==
    \A c \in Touched(agenda) :
        (\A h \in Handlers : c \notin Private(h)) /\ (\A h \in J : c \notin CellsIn(left[h]))
            => d[c] = cell[c]

Merged(J, d) ==
    /\ J \subseteq Handlers /\ Over(Touched(agenda), d)
    /\ NotBegun(J, d) /\ AsGoodAsDone(J, d) /\ Settled(J, d)

LEMMA CellOver ==
    ASSUME IInv
    PROVE  /\ Over(Touched(agenda), cell) /\ Over(Touched(agenda), start)
           /\ \A h \in Handlers : \A d : Over(Touched(agenda), Mixed(h, d))
           /\ \A h \in Handlers : Private(h) \subseteq Touched(agenda)
           /\ \A h \in Handlers : Len(left[h]) \in Nat /\ Len(agenda[h]) \in Nat
  <1>1. Over(Touched(agenda), cell) /\ Over(Touched(agenda), start)
    BY DEF IInv, Shape, Over
  <1>2. \A h \in Handlers : \A d : Over(Touched(agenda), Mixed(h, d))
    BY DEF Over, Mixed
  <1>3. \A h \in Handlers : Private(h) \subseteq Touched(agenda)
    BY CellsAhead DEF Private
  <1>4. \A h \in Handlers : Len(left[h]) \in Nat /\ Len(agenda[h]) \in Nat
    BY LeftFacts
  <1> QED BY <1>1, <1>2, <1>3, <1>4

\* Nobody else reaches them.
LEMMA PrivateApart ==
    ASSUME NEW h \in Handlers, NEW g \in Handlers, g # h
    PROVE  Private(h) \cap CellsIn(agenda[g]) = {}
  BY DEF Private

\* At first nobody has met anybody.
LEMMA MergedInitially == Init => Merged({}, start)
  <1> SUFFICES ASSUME Init PROVE Merged({}, start)
    OBVIOUS
  <1>1. IInv /\ left = agenda /\ cell = start
    BY Initially DEF Init
  <1>2. Over(Touched(agenda), start)
    BY <1>1, CellOver
  <1>3. NotBegun({}, start)
    <2> SUFFICES ASSUME NEW h \in Handlers, NEW e, Over(Touched(agenda), e),
                        \A c \in Private(h) : e[c] = start[c]
                 PROVE  Run(agenda[h], e) = Outcome(left[h], hand[h], Mixed(h, e))
      BY DEF NotBegun
    <2>1. Mixed(h, e) = [c \in Touched(agenda) |-> e[c]]
      BY <1>1 DEF Mixed
    <2>2. Mixed(h, e) = e
      BY <2>1, Zenon DEF Over
    <2>3. hand[h] = 0
      BY DEF Init
    <2> QED BY <1>1, <2>2, <2>3, RunIsOutcome
  <1>4. Settled({}, start)
    BY <1>1 DEF Settled
  <1>5. AsGoodAsDone({}, start)
    BY DEF AsGoodAsDone
  <1> QED BY <1>2, <1>3, <1>4, <1>5 DEF Merged

\* A handler that reaches nothing the others have still to reach can be taken to do
\* all of its errand now.
LEMMA Join ==
    ASSUME IInv, NEW J, NEW d, Merged(J, d), NEW g \in Handlers \ J,
           \A h \in J : CellsIn(left[h]) \cap CellsIn(agenda[g]) = {}
    PROVE  Merged(J \cup {g}, Run(agenda[g], d))
  <1> DEFINE S == Touched(agenda)
             mix == Mixed(g, d)
             e == Run(agenda[g], d)
             K == J \cup {g}
             q == left[g]
             k == hand[g]
  <1>1. Over(S, d) /\ Over(S, cell) /\ Over(S, mix)
    BY CellOver DEF Merged
  <1>2. /\ CellsIn(q) \subseteq CellsIn(agenda[g]) /\ CellsIn(agenda[g]) \subseteq S
        /\ Private(g) \subseteq CellsIn(agenda[g])
        /\ Len(q) \in Nat /\ Len(agenda[g]) \in Nat
    BY CellsAhead, CellOver DEF Private
  <1>3. e = Outcome(q, k, mix)
    BY DEF Merged, NotBegun
  <1>4. Over(S, e) /\ \A c \in S \ CellsIn(agenda[g]) : e[c] = d[c]
    <2>1. e = Outcome(agenda[g], 0, d)
      BY RunIsOutcome
    <2> DEFINE p == agenda[g]
               f == Outcome(p, 0, d)
    <2>2. Len(p) \in Nat /\ CellsIn(p) \subseteq S /\ Over(S, d)
      BY <1>1, <1>2
    <2> HIDE DEF p, S
    <2>3. Over(S, f) /\ Keeps(S, p, d, f)
      BY <2>2, OutcomeOver, Zenon
    <2>4. e = f
      BY <2>1 DEF p
    <2> HIDE DEF e, f
    <2> QED BY <2>3, <2>4 DEF Keeps, p
  <1>5. \A c \in S \ CellsIn(q) : e[c] = mix[c]
    <2> DEFINE f == Outcome(q, k, mix)
    <2>1. CellsIn(q) \subseteq S
      BY <1>2
    <2> HIDE DEF e, S, mix, q, k
    <2>2. Over(S, f) /\ Keeps(S, q, mix, f)
      BY <1>1, <1>2, <2>1, OutcomeOver, Zenon
    <2> HIDE DEF f
    <2> QED BY <1>3, <2>2 DEF Keeps, f
  <1>6. \A c \in S : mix[c] = IF c \in Private(g) THEN cell[c] ELSE d[c]
    BY DEF Mixed
  <1>7. NotBegun(K, e)
    <2> SUFFICES ASSUME NEW h \in Handlers \ K, NEW c \in Private(h) PROVE e[c] = start[c]
      BY DEF NotBegun, Merged
    <2>1. c \in S \ CellsIn(agenda[g])
      BY CellOver, PrivateApart
    <2>2. e[c] = d[c]
      BY <1>4, <2>1
    <2>3. d[c] = start[c]
      BY DEF NotBegun, Merged
    <2> QED BY <2>2, <2>3
  <1>8. AsGoodAsDone(K, e)
    <2>1. ASSUME NEW h \in J, NEW c \in Private(h) \cup CellsIn(left[h])
          PROVE  Outcome(left[h], hand[h], cell)[c] = e[c]
      <3>1. h \in Handlers /\ h # g
        BY DEF Merged
      <3>2. c \in S \ CellsIn(agenda[g])
        BY <3>1, CellOver, CellsAhead, PrivateApart
      <3>3. e[c] = d[c]
        BY <1>4, <3>2
      <3>4. Outcome(left[h], hand[h], cell)[c] = d[c]
        BY DEF Merged, AsGoodAsDone
      <3> QED BY <3>3, <3>4
    <2>2. ASSUME NEW c \in Private(g) \cup CellsIn(q) PROVE Outcome(q, k, cell)[c] = e[c]
      <3> DEFINE X == Private(g) \cup CellsIn(q)
      <3>1. X \in SUBSET S /\ CellsIn(q) \subseteq X
        BY <1>2
      <3>2. ASSUME NEW b \in X PROVE mix[b] = cell[b]
        <4>1. b \in S
          BY <3>1
        <4>2. CASE b \in Private(g)
          BY <1>6, <4>1, <4>2
        <4>3. CASE b \notin Private(g)
          <5>1. b \in CellsIn(agenda[g])
            BY <1>2, <3>2, <4>3
          <5>2. \A h \in Handlers : b \notin Private(h)
            BY <4>3, <5>1, PrivateApart
          <5>3. \A h \in J : b \notin CellsIn(left[h])
            BY <5>1
          <5>4. d[b] = cell[b]
            BY <4>1, <5>2, <5>3 DEF Merged, Settled
          <5> QED BY <1>6, <4>1, <4>3, <5>4
        <4> QED BY <4>2, <4>3
      <3>3. c \in X
        OBVIOUS
      <3>4. Agree(X, mix, cell)
        BY <3>2 DEF Agree
      <3> HIDE DEF X, mix, e, S, q, k
      <3>5. Agree(X, Outcome(q, k, mix), Outcome(q, k, cell))
        BY <1>1, <1>2, <3>1, <3>4, OutcomeAgrees, Zenon
      <3> QED BY <1>3, <3>3, <3>5 DEF Agree
    <2> QED BY <2>1, <2>2 DEF AsGoodAsDone
  <1>9. Settled(K, e)
    <2> SUFFICES ASSUME NEW c \in S, \A h \in Handlers : c \notin Private(h),
                        \A h \in K : c \notin CellsIn(left[h])
                 PROVE  e[c] = cell[c]
      BY DEF Settled
    <2>1. e[c] = mix[c]
      BY <1>5
    <2>2. mix[c] = d[c]
      BY <1>6
    <2>3. d[c] = cell[c]
      BY DEF Merged, Settled
    <2> QED BY <2>1, <2>2, <2>3
  <1>10. K \subseteq Handlers
    BY DEF Merged
  <1> HIDE DEF K, e, S
  <1> QED BY <1>4, <1>7, <1>8, <1>9, <1>10 DEF Merged, K, e, S

\* The cell the next statement of g is on, and d after what a step of g does to it.
Cell(g) == agenda[g][At(g) + 1].at
Moved(x, d, v) == IF x \in Mutexes THEN d ELSE [d EXCEPT ![x] = v]

LEMMA MovedFacts ==
    ASSUME NEW S, NEW x, NEW d, Over(S, d), NEW v, x \in Mutexes \/ x \in S
    PROVE  /\ Over(S, Moved(x, d, v))
           /\ x \notin Mutexes => Moved(x, d, v)[x] = v
           /\ Frame(S, x, d, Moved(x, d, v))
  <1>1. CASE x \in Mutexes
    BY <1>1 DEF Moved, Frame
  <1>2. CASE x \notin Mutexes
    <2> DEFINE e == [d EXCEPT ![x] = v]
    <2>1. Over(S, e) /\ e[x] = v /\ \A c \in S \ {x} : e[c] = d[c]
      BY <1>2, OverOne
    <2>2. Moved(x, d, v) = e
      BY <1>2 DEF Moved
    <2> HIDE DEF e
    <2> QED BY <1>2, <2>1, <2>2 DEF Frame
  <1> QED BY <1>1, <1>2

\* Two functions on S are the same where they agree.
LEMMA SameOver ==
    ASSUME NEW S, NEW d, NEW e, Over(S, d), Over(S, e), \A c \in S : d[c] = e[c]
    PROVE  d = e
  BY DEF Over

LEMMA StepFacts ==
    ASSUME IInv, NEW g \in Handlers, Act(g) \/ Guard(g)
    PROVE  /\ agenda' = agenda /\ start' = start /\ left[g] # << >>
           /\ cell' = Moved(Cell(g), cell, cell'[Cell(g)])
           /\ \A h \in Handlers \ {g} : left'[h] = left[h] /\ hand'[h] = hand[h]
           /\ Cell(g) \in CellsIn(left[g]) \cup Mutexes
           /\ CellsIn(left'[g]) \subseteq CellsIn(left[g])
           /\ \A e : (Cell(g) \notin Mutexes => e[Cell(g)] = cell[Cell(g)]) =>
                  Outcome(left[g], hand[g], e)
                      = Outcome(left'[g], hand'[g], Moved(Cell(g), e, cell'[Cell(g)]))
  <1> DEFINE x == Cell(g)
  <1>1. /\ agenda' = agenda /\ start' = start /\ left[g] # << >>
        /\ \A h \in Handlers \ {g} : left'[h] = left[h]
    BY ActSteps, GuardSteps
  <1>2. ASSUME NEW h \in Handlers \ {g} PROVE hand'[h] = hand[h]
    <2>1. CASE Act(g)
      BY <2>1 DEF Act, IInv, Shape
    <2>2. CASE Guard(g)
      BY <2>2 DEF Guard
    <2> QED BY <2>1, <2>2
  <1>3. cell' = Moved(x, cell, cell'[x])
    <2>1. CASE Act(g)
      <3> DEFINE w == Written(agenda[g][At(g) + 1], cell[x], hand[g])
      <3>1. x \in Touched(agenda) \ Mutexes /\ cell' = [cell EXCEPT ![x] = w]
        BY <2>1, ActSteps DEF Cell
      <3> HIDE DEF w, x
      <3>2. cell'[x] = w
        BY <3>1 DEF IInv, Shape
      <3> QED BY <3>1, <3>2 DEF Moved
    <2>2. CASE Guard(g)
      <3>1. x \in Mutexes /\ cell' = cell
        BY <2>2, GuardSteps DEF Cell
      <3> QED BY <3>1 DEF Moved
    <2> QED BY <2>1, <2>2
  <1>4. ASSUME NEW e, x \notin Mutexes => e[x] = cell[x]
        PROVE  /\ x \in CellsIn(left[g]) \cup Mutexes
               /\ CellsIn(left'[g]) \subseteq CellsIn(left[g])
               /\ Outcome(left[g], hand[g], e)
                      = Outcome(left'[g], hand'[g], Moved(x, e, cell'[x]))
    BY <1>4, OutcomeStep DEF Cell, Moved
  <1>5. x \in CellsIn(left[g]) \cup Mutexes /\ CellsIn(left'[g]) \subseteq CellsIn(left[g])
    <2>1. x \notin Mutexes => cell[x] = cell[x]
      OBVIOUS
    <2> QED BY <2>1, <1>4
  <1> HIDE DEF x
  <1> QED BY <1>1, <1>2, <1>3, <1>4, <1>5 DEF x

\* A step of g on a cell that nobody in J has still to reach, and that only g reaches
\* unless g is in J.
Undisturbed(J, g) ==
    \/ Cell(g) \in Mutexes
    \/ /\ g \in J \/ Cell(g) \in Private(g)
       /\ \A h \in J \ {g} : Cell(g) \notin CellsIn(left[h])

\* Such a step leaves the cells as they would be in that order.
LEMMA StepMerged ==
    ASSUME IInv, IInv', NEW J, NEW d, Merged(J, d), NEW g \in Handlers, Act(g) \/ Guard(g),
           Undisturbed(J, g)
    PROVE  Merged(J, d)'
  <1> DEFINE S == Touched(agenda)
             x == Cell(g)
             w == cell'[x]
  <1>1. /\ agenda' = agenda /\ start' = start
        /\ cell' = Moved(x, cell, w)
        /\ \A h \in Handlers \ {g} : left'[h] = left[h] /\ hand'[h] = hand[h]
        /\ x \in CellsIn(left[g]) \cup Mutexes
        /\ CellsIn(left'[g]) \subseteq CellsIn(left[g])
    BY StepFacts
  <1>2. \A e : (x \notin Mutexes => e[x] = cell[x]) =>
            Outcome(left[g], hand[g], e) = Outcome(left'[g], hand'[g], Moved(x, e, w))
    BY StepFacts
  <1>3. /\ Over(S, cell) /\ Over(S, cell') /\ Over(S, d)
        /\ \A h \in Handlers : Len(left[h]) \in Nat /\ Len(left'[h]) \in Nat
    <2>1. Over(S, cell')
      BY <1>1 DEF IInv, Shape, Over
    <2>2. \A h \in Handlers : Len(left'[h]) \in Nat
      BY LenProperties DEF IInv, Shape
    <2> QED BY <2>1, <2>2, CellOver DEF Merged
  <1>4. /\ J \subseteq Handlers
        /\ \A h \in Handlers : CellsIn(left[h]) \subseteq S /\ Private(h) \subseteq S
        /\ x \in Mutexes \/ x \in S
        /\ x \in Mutexes \/ x \in CellsIn(agenda[g])
    BY <1>1, CellsAhead, CellOver DEF Merged
  <1>5. Frame(S, x, cell, cell')
    BY <1>1, <1>3, <1>4, MovedFacts
  <1>6. ASSUME NEW h \in Handlers PROVE Private(h)' = Private(h)
    BY <1>1 DEF Private
  <1>7. \A h \in Handlers \ {g} : x \in Mutexes \/ x \notin Private(h)
    BY <1>4, PrivateApart
  <1>8. \A h \in Handlers : Private(h) \cap Mutexes = {} /\ CellsIn(left[h]) \cap Mutexes = {}
    BY DEF Private, CellsIn
  <1> HIDE DEF S, x, w
  <1>9. NotBegun(J, d)'
    <2>1. ASSUME NEW h \in Handlers \ J, NEW c \in Private(h) PROVE d[c] = start'[c]
      BY <1>1 DEF Merged, NotBegun
    <2>2. ASSUME NEW h \in Handlers \ J, NEW e, Over(S, e), \A c \in Private(h) : e[c] = start[c]
          PROVE  Run(agenda[h], e) = Outcome(left'[h], hand'[h], Mixed(h, e)')
      <3> DEFINE a == Mixed(h, e)
                 b == Mixed(h, e)'
      <3>1. Run(agenda[h], e) = Outcome(left[h], hand[h], a)
        BY <2>2 DEF Merged, NotBegun, S
      <3>2. /\ Over(S, a) /\ \A c \in S : a[c] = IF c \in Private(h) THEN cell[c] ELSE e[c]
        BY DEF Over, Mixed, S
      <3>3. /\ Over(S, b) /\ \A c \in S : b[c] = IF c \in Private(h) THEN cell'[c] ELSE e[c]
        BY <1>1, <1>6 DEF Over, Mixed, S
      <3> HIDE DEF a, b
      <3>4. CASE h # g
        <4>1. \A c \in S : a[c] = b[c]
          BY <1>5, <1>7, <1>8, <3>2, <3>3, <3>4 DEF Frame
        <4>2. a = b
          BY <3>2, <3>3, <4>1, SameOver
        <4> QED BY <1>1, <3>1, <3>4, <4>2 DEF b
      <3>5. CASE h = g
        <4>1. x \in Mutexes \/ x \in Private(g)
          BY <3>5 DEF Undisturbed, x
        <4>2. x \notin Mutexes => a[x] = cell[x]
          BY <1>4, <3>2, <3>5, <4>1
        <4>3. Outcome(left[g], hand[g], a) = Outcome(left'[g], hand'[g], Moved(x, a, w))
          BY <1>2, <4>2
        <4> DEFINE m == Moved(x, a, w)
        <4>4. Over(S, m) /\ (x \notin Mutexes => m[x] = w) /\ Frame(S, x, a, m)
          <5>1. Over(S, a) /\ (x \in Mutexes \/ x \in S)
            BY <1>4, <3>2
          <5> QED BY <5>1, MovedFacts, Zenon
        <4> HIDE DEF m
        <4>5. ASSUME NEW c \in S PROVE m[c] = b[c]
          <5>1. CASE c # x \/ c \in Mutexes
            <6>1. m[c] = a[c] /\ cell'[c] = cell[c]
              BY <1>5, <4>4, <5>1 DEF Frame
            <6> QED BY <3>2, <3>3, <6>1
          <5>2. CASE c = x /\ c \notin Mutexes
            <6>1. m[x] = w /\ b[x] = cell'[x]
              BY <3>3, <3>5, <4>1, <4>4, <5>2
            <6> QED BY <5>2, <6>1 DEF w
          <5> QED BY <5>1, <5>2
        <4>6. m = b
          BY <3>3, <4>4, <4>5, SameOver
        <4> QED BY <3>1, <3>5, <4>3, <4>6 DEF b, m
      <3> QED BY <3>4, <3>5
    <2>3. \A h \in Handlers \ J : Private(h)' = Private(h)
      BY <1>6
    <2> QED BY <1>1, <2>1, <2>2, <2>3 DEF NotBegun, S
  <1>10. AsGoodAsDone(J, d)'
    <2>1. ASSUME NEW h \in J, NEW c \in Private(h) \cup CellsIn(left'[h])
          PROVE  Outcome(left'[h], hand'[h], cell')[c] = d[c]
      <3>1. CASE h = g
        <4>1. Outcome(left[g], hand[g], cell) = Outcome(left'[g], hand'[g], cell')
          BY <1>1, <1>2
        <4>2. c \in Private(g) \cup CellsIn(left[g])
          BY <1>1, <3>1
        <4>3. Outcome(left[g], hand[g], cell)[c] = d[c]
          BY <3>1, <4>2 DEF Merged, AsGoodAsDone
        <4> QED BY <3>1, <4>1, <4>3
      <3>2. CASE h # g
        <4> DEFINE X == Private(h) \cup CellsIn(left[h])
                   q == left[h]
                   k == hand[h]
        <4>1. X \in SUBSET S /\ CellsIn(q) \subseteq X /\ Len(q) \in Nat
          BY <1>3, <1>4
        <4>2. \A b \in X : x \in Mutexes \/ b # x
          BY <1>4, <1>7, <3>2 DEF Undisturbed, x
        <4>3. \A b \in X : cell[b] = cell'[b]
          BY <1>5, <1>8, <1>4, <4>1, <4>2 DEF Frame
        <4>4. c \in X /\ left'[h] = q /\ hand'[h] = k
          BY <1>1, <1>4, <3>2
        <4>5. Outcome(q, k, cell)[c] = d[c]
          BY <4>4 DEF Merged, AsGoodAsDone
        <4> DEFINE e == cell'
        <4>6. Over(S, cell) /\ Over(S, e) /\ Agree(X, cell, e)
          BY <1>3, <4>3 DEF Agree
        <4> HIDE DEF X, q, k, e
        <4>7. Agree(X, Outcome(q, k, cell), Outcome(q, k, e))
          BY <4>1, <4>6, OutcomeAgrees, Zenon
        <4>8. Outcome(q, k, e)[c] = d[c]
          BY <4>4, <4>5, <4>7 DEF Agree
        <4> QED BY <4>4, <4>8 DEF e
      <3> QED BY <3>1, <3>2
    <2>2. \A h \in J : Private(h)' = Private(h)
      BY <1>4, <1>6
    <2> QED BY <2>1, <2>2 DEF AsGoodAsDone
  <1>11. Settled(J, d)'
    <2>1. ASSUME NEW c \in S, \A h \in Handlers : c \notin Private(h),
                 \A h \in J : c \notin CellsIn(left'[h])
          PROVE  d[c] = cell'[c]
      <3>1. CASE \A h \in J : c \notin CellsIn(left[h])
        <4>1. d[c] = cell[c]
          BY <2>1, <3>1 DEF Merged, Settled, S
        <4>2. c # x \/ c \in Mutexes
          <5> SUFFICES ASSUME c = x, x \notin Mutexes PROVE FALSE
            OBVIOUS
          <5>1. g \in J
            BY <2>1 DEF Undisturbed, x
          <5> QED BY <1>1, <3>1, <5>1
        <4>3. cell'[c] = cell[c]
          BY <1>5, <4>2 DEF Frame
        <4> QED BY <4>1, <4>3
      <3>2. CASE \E h \in J : c \in CellsIn(left[h])
        <4>1. PICK h \in J : c \in CellsIn(left[h])
          BY <3>2
        <4>2. h = g
          BY <1>1, <1>4, <2>1, <4>1
        <4>3. Outcome(left[g], hand[g], cell)[c] = d[c]
          BY <4>1, <4>2 DEF Merged, AsGoodAsDone
        <4>4. Outcome(left[g], hand[g], cell) = Outcome(left'[g], hand'[g], cell')
          BY <1>1, <1>2
        <4> DEFINE q == left'[g]
                   k == hand'[g]
                   e == cell'
                   f == Outcome(q, k, e)
        <4>5. Len(q) \in Nat /\ CellsIn(q) \subseteq S /\ Over(S, e) /\ c \in S \ CellsIn(q)
          BY <1>1, <1>3, <1>4, <2>1, <4>1, <4>2
        <4> HIDE DEF q, k, e
        <4>6. Keeps(S, q, e, f)
          BY <4>5, OutcomeOver, Zenon
        <4> HIDE DEF f
        <4>7. f[c] = e[c]
          BY <4>5, <4>6 DEF Keeps
        <4> QED BY <4>3, <4>4, <4>7 DEF f, q, k, e
      <3> QED BY <3>1, <3>2
    <2>2. \A h \in Handlers : Private(h)' = Private(h)
      BY <1>6
    <2> QED BY <1>1, <2>1, <2>2 DEF Settled, S
  <1>12. J \subseteq Handlers /\ Over(Touched(agenda'), d)
    BY <1>1, <1>3, <1>4 DEF S
  <1> QED BY <1>9, <1>10, <1>11, <1>12 DEF Merged

\* Where h meets the others: its statements on cells that somebody else reaches too.
MeetsAt(h) ==
    {i \in 1 .. Len(agenda[h]) : agenda[h][i].at \in CellsIn(agenda[h]) \ Private(h)}

\* The stretch from the first of these to the last one.
Meeting(h) == {k \in 1 .. Len(agenda[h]) : \E i, j \in MeetsAt(h) : i <= k /\ k <= j}

\* One transaction, or one hold of m, spans the stretch.
InOneTransaction(h) ==
    \A k \in Meeting(h) : k + 1 \in Meeting(h) => agenda[h][k].more
InOneHold(h, m) == \A k \in Meeting(h) : m \in MutexesAt(agenda[h], k)

\* Every errand meets the others in one transaction, or in one hold of a mutex that
\* all it meets hold as well.
MeetsOnce ==
    \A h \in Handlers :
        \/ InOneTransaction(h)
        \/ \E m \in Mutexes : \A g \in Handlers :
              g = h \/ CellsIn(agenda[g]) \cap CellsIn(agenda[h]) # {} => InOneHold(g, m)

\* A handler that is between two statements of the stretch is in the transaction.
Within ==
    \A h \in Handlers :
        /\ left[h] # << >> /\ InOneTransaction(h)
        /\ At(h) \in Meeting(h) /\ At(h) + 1 \in Meeting(h)
        => inside = h

Met(J) == \A h \in J : left[h] # << >> => \E i \in 1 .. At(h) : i \in MeetsAt(h)

LEMMA MeetingsStay ==
    ASSUME agenda' = agenda
    PROVE  \A h \in Handlers :
              /\ MeetsAt(h)' = MeetsAt(h) /\ Meeting(h)' = Meeting(h)
              /\ InOneTransaction(h)' <=> InOneTransaction(h)
  <1>1. \A h \in Handlers : MeetsAt(h)' = MeetsAt(h)
    BY DEF MeetsAt, Private
  <1>2. \A h \in Handlers : Meeting(h)' = Meeting(h)
    BY <1>1 DEF Meeting
  <1> QED BY <1>1, <1>2 DEF InOneTransaction

LEMMA WithinInitially == Init => Within
  <1> SUFFICES ASSUME Init, NEW h \in Handlers, At(h) \in Meeting(h) PROVE FALSE
    BY DEF Within
  <1>1. IInv /\ left = agenda
    BY Initially DEF Init
  <1>2. Len(agenda[h]) \in Nat
    BY <1>1, LeftFacts
  <1>3. At(h) = 0
    BY <1>1, <1>2 DEF At
  <1>4. 0 \notin 1 .. Len(agenda[h])
    OBVIOUS
  <1> QED BY <1>3, <1>4 DEF Meeting

LEMMA StepWithin ==
    ASSUME IInv, Within, NEW g \in Handlers, Act(g) \/ Guard(g)
    PROVE  Within'
  <1>1. /\ left[g] # << >> /\ agenda' = agenda
        /\ \A h \in Handlers \ {g} : left'[h] = left[h] /\ At(h)' = At(h)
        /\ left'[g] # << >> => At(g)' = At(g) + 1 /\ left'[g] = Tail(left[g])
    BY Positions
  <1> SUFFICES ASSUME NEW h \in Handlers, left'[h] # << >>, InOneTransaction(h),
                      At(h)' \in Meeting(h), At(h)' + 1 \in Meeting(h)
               PROVE  inside' = h
    BY <1>1, MeetingsStay DEF Within
  <1>2. inside \in {g, Nobody} /\ g # Nobody /\ h # Nobody
    BY HandlersAssumption DEF Act, Guard
  <1>3. CASE h # g
    <2>1. inside = h
      BY <1>1, <1>3 DEF Within
    <2> QED BY <1>2, <1>3, <2>1
  <1>4. CASE h = g
    <2> DEFINE k == At(g)
               s == agenda[g][k + 1]
    <2>1. k \in Nat /\ k + 1 \in 1 .. Len(agenda[g]) /\ Head(left[g]) = s
      BY <1>1, AtFacts
    <2>2. k + 1 \in Meeting(g) /\ (k + 1) + 1 \in Meeting(g) /\ left'[g] = Tail(left[g])
      BY <1>1, <1>4
    <2>3. s.more
      BY <1>4, <2>2 DEF InOneTransaction
    <2>4. CASE Act(g)
      <3>1. \/ Passes(s, cell[s.at], hand[g])
            \/ left' = [left EXCEPT ![g] = << >>]
        BY <2>1, <2>4 DEF Act
      <3>2. Passes(s, cell[s.at], hand[g])
        <4>1. left' # [left EXCEPT ![g] = << >>]
          BY <1>4 DEF IInv, Shape
        <4> QED BY <3>1, <4>1
      <3> QED BY <1>4, <2>1, <2>3, <2>4, <3>2 DEF Act
    <2>5. CASE Guard(g)
      <3>1. s.at \in Mutexes /\ inside' = inside
        BY <2>1, <2>5 DEF Guard
      <3>2. PICK i \in MeetsAt(g), j \in MeetsAt(g) : i <= k + 1 /\ k + 1 <= j
        BY <2>2 DEF Meeting
      <3>3. i \in 1 .. Len(agenda[g]) /\ j \in 1 .. Len(agenda[g]) /\ i # k + 1
        BY <3>1 DEF MeetsAt, CellsIn
      <3>4. k \in 1 .. Len(agenda[g]) /\ i <= k /\ k <= j
        <4> DEFINE n == Len(agenda[g])
        <4>1. i \in 1 .. n /\ j \in 1 .. n /\ n \in Nat
          BY <3>3, LeftFacts
        <4> HIDE DEF n, k
        <4>2. k \in 1 .. n /\ i <= k /\ k <= j
          BY <2>1, <3>2, <3>3, <4>1
        <4> QED BY <4>2 DEF n
      <3>5. k \in Meeting(g)
        <4> HIDE DEF k
        <4> QED BY <3>2, <3>4 DEF Meeting
      <3> QED BY <1>1, <1>4, <2>2, <3>1, <3>5 DEF Within
    <2> QED BY <2>4, <2>5
  <1> QED BY <1>3, <1>4

\* While h is among the others, nobody else gets at what h has still to reach.
LEMMA Excluded ==
    ASSUME IInv, Locked, Within, MeetsOnce, NEW g \in Handlers, Act(g),
           Cell(g) \notin Private(g), NEW h \in Handlers \ {g}, left[h] # << >>,
           NEW i \in 1 .. At(h), i \in MeetsAt(h)
    PROVE  CellsIn(left[h]) \cap CellsIn(agenda[g]) = {}
  <1> SUFFICES ASSUME NEW c \in CellsIn(left[h]) \cap CellsIn(agenda[g]) PROVE FALSE
    OBVIOUS
  <1> DEFINE k == At(h)
             n == Len(agenda[h])
  <1>1. PICK j \in k + 1 .. n : agenda[h][j].at = c
    BY CellsAhead
  <1>2. k \in Nat /\ n \in Nat /\ i \in 1 .. k
    BY LeftFacts
  <1>3. c \in CellsIn(agenda[h]) /\ c \notin Private(h)
    BY CellsAhead, PrivateApart
  <1>4. j \in 1 .. n /\ i <= k /\ k <= j /\ i <= k + 1 /\ k + 1 <= j /\ k \in 1 .. n
        /\ k + 1 \in 1 .. n
    <2> HIDE DEF k, n
    <2> QED BY <1>1, <1>2
  <1>5. j \in MeetsAt(h)
    BY <1>1, <1>3, <1>4 DEF MeetsAt
  <1>6. k \in Meeting(h) /\ k + 1 \in Meeting(h)
    <2>1. \A l \in 1 .. n : i <= l /\ l <= j => l \in Meeting(h)
      BY <1>5 DEF Meeting
    <2> HIDE DEF k, n
    <2> QED BY <1>4, <2>1
  <1>7. At(g) + 1 \in Meeting(g)
    <2> DEFINE l == At(g) + 1
    <2>1. l \in 1 .. Len(agenda[g]) /\ Cell(g) = agenda[g][l].at /\ Cell(g) \notin Mutexes
      BY ActSteps DEF Cell
    <2>2. l \in MeetsAt(g)
      BY <2>1 DEF MeetsAt, CellsIn
    <2>3. l <= l
      BY <2>1
    <2>4. \A b \in MeetsAt(g) : b <= b => b \in Meeting(g)
      BY DEF Meeting, MeetsAt
    <2> QED BY <2>2, <2>3, <2>4, Zenon
  <1>8. CASE InOneTransaction(h)
    <2>1. inside = h
      BY <1>6, <1>8 DEF Within
    <2>2. inside \in {g, Nobody} /\ h # Nobody
      BY HandlersAssumption DEF Act
    <2> QED BY <2>1, <2>2
  <1>9. CASE ~InOneTransaction(h)
    <2>1. PICK m \in Mutexes : \A f \in Handlers :
              f = h \/ CellsIn(agenda[f]) \cap CellsIn(agenda[h]) # {} => InOneHold(f, m)
      BY <1>9 DEF MeetsOnce
    <2>2. InOneHold(h, m) /\ InOneHold(g, m)
      BY <1>3, <2>1
    <2>3. m \in MutexesAt(agenda[h], At(h) + 1) /\ m \in MutexesAt(agenda[g], At(g) + 1)
      BY <1>6, <1>7, <2>2 DEF InOneHold
    <2>4. left[g] # << >>
      BY DEF Act
    <2>5. m \in held[h] /\ m \in held[g]
      BY <2>3, <2>4 DEF Locked
    <2> QED BY <2>5 DEF IInv, OneHolder
  <1> QED BY <1>8, <1>9

\* The cells are what they would be if the handlers of some sequence had done their
\* errands one after the other, and the others had not met anybody yet.
InOrder == \E o, d : Serial(o, d) /\ Merged(Joined(o), d) /\ Met(Joined(o))

LEMMA InOrderInitially == Init => InOrder
  <1> SUFFICES ASSUME Init PROVE InOrder
    OBVIOUS
  <1>1. Serial(<< >>, start) /\ Joined(<< >>) = {} /\ Merged({}, start)
    BY SerialStart, MergedInitially
  <1>2. Met({})
    BY DEF Met
  <1> QED BY <1>1, <1>2 DEF InOrder

LEMMA SerialStays ==
    ASSUME agenda' = agenda, start' = start, NEW o, NEW d, Serial(o, d)
    PROVE  Serial(o, d)'
  BY DEF Serial

LEMMA JoinedIn ==
    ASSUME NEW o, NEW d, Serial(o, d)
    PROVE  Joined(o) \subseteq Handlers
  <1>1. o \in Seq(Handlers)
    BY DEF Serial
  <1>2. \A i \in 1 .. Len(o) : o[i] \in Handlers
    BY <1>1, ElementOfSeq
  <1> QED BY <1>2 DEF Joined

\* Who is in the order has met the others, also after a step of one of them.
LEMMA StepMet ==
    ASSUME IInv, NEW g \in Handlers, Act(g) \/ Guard(g),
           NEW J, J \subseteq Handlers, Met(J \ {g}),
           g \in J => Met({g}) \/ At(g) + 1 \in MeetsAt(g)
    PROVE  Met(J)'
  <1>1. /\ left[g] # << >> /\ agenda' = agenda
        /\ \A h \in Handlers \ {g} : left'[h] = left[h] /\ At(h)' = At(h)
        /\ left'[g] # << >> => At(g)' = At(g) + 1
    BY Positions
  <1> SUFFICES ASSUME NEW h \in J, left'[h] # << >>
               PROVE  \E i \in 1 .. At(h)' : i \in MeetsAt(h)
    BY <1>1, MeetingsStay DEF Met
  <1>2. CASE h # g
    BY <1>1, <1>2 DEF Met
  <1>3. CASE h = g
    <2> DEFINE k == At(g)
    <2>1. k \in Nat /\ At(h)' = k + 1
      BY <1>1, <1>3, LeftFacts
    <2>2. PICK i \in 1 .. k + 1 : i \in MeetsAt(g)
      <3>1. CASE Met({g})
        <4>1. PICK i \in 1 .. k : i \in MeetsAt(g)
          BY <1>1, <3>1 DEF Met
        <4>2. i \in 1 .. k + 1
          <5> HIDE DEF k
          <5> QED BY <2>1
        <4> QED BY <4>1, <4>2
      <3>2. CASE k + 1 \in MeetsAt(g)
        <4>1. k + 1 \in 1 .. k + 1
          <5> HIDE DEF k
          <5> QED BY <2>1
        <4> QED BY <3>2, <4>1
      <3> QED BY <1>3, <3>1, <3>2
    <2> QED BY <1>3, <2>1, <2>2
  <1> QED BY <1>2, <1>3

\* A handler joins the order at the first cell it shares; from then on the others
\* are kept from what it has still to reach.
LEMMA StepInOrder ==
    ASSUME IInv, IInv', Locked, Within, MeetsOnce, InOrder,
           NEW g \in Handlers, Act(g) \/ Guard(g)
    PROVE  InOrder'
  <1> DEFINE x == Cell(g)
  <1>1. PICK o, d : Serial(o, d) /\ Merged(Joined(o), d) /\ Met(Joined(o))
    BY DEF InOrder
  <1>2. /\ agenda' = agenda /\ start' = start
        /\ x \in CellsIn(left[g]) \cup Mutexes
    BY StepFacts
  <1>3. Joined(o) \subseteq Handlers
    BY <1>1, JoinedIn
  <1>4. x \in Mutexes \/ x \in CellsIn(agenda[g])
    BY <1>2, CellsAhead
  <1>5. ASSUME NEW p, NEW e, Serial(p, e), Merged(Joined(p), e), Undisturbed(Joined(p), g),
               Met(Joined(p) \ {g}),
               g \in Joined(p) => Met({g}) \/ At(g) + 1 \in MeetsAt(g)
        PROVE  InOrder'
    <2>1. Merged(Joined(p), e)'
      BY <1>5, StepMerged
    <2>2. Serial(p, e)'
      BY <1>2, <1>5, SerialStays
    <2>3. Joined(p) \subseteq Handlers
      BY <1>5, JoinedIn
    <2>4. Met(Joined(p))'
      BY <1>5, <2>3, StepMet
    <2> QED BY <2>1, <2>2, <2>4 DEF InOrder
  <1>6. \A J : Met(J) => Met(J \ {g}) /\ (g \in J => Met({g}))
    BY DEF Met
  <1>7. CASE x \in Mutexes
    <2>1. Undisturbed(Joined(o), g)
      BY <1>7 DEF Undisturbed
    <2> QED BY <1>1, <1>5, <1>6, <2>1
  <1>8. CASE x \in Private(g)
    <2>1. \A h \in Joined(o) \ {g} : x \notin CellsIn(left[h])
      BY <1>3, <1>8, PrivateApart, CellsAhead
    <2>2. Undisturbed(Joined(o), g)
      BY <1>8, <2>1 DEF Undisturbed
    <2> QED BY <1>1, <1>5, <1>6, <2>2
  <1>9. CASE x \notin Mutexes /\ x \notin Private(g)
    <2>1. Act(g)
      BY <1>9, GuardSteps DEF Cell
    <2>2. \A h \in Joined(o) \ {g} : CellsIn(left[h]) \cap CellsIn(agenda[g]) = {}
      <3> SUFFICES ASSUME NEW h \in Joined(o) \ {g}
                   PROVE  CellsIn(left[h]) \cap CellsIn(agenda[g]) = {}
        OBVIOUS
      <3>1. h \in Handlers \ {g}
        BY <1>3
      <3>2. CASE left[h] = << >>
        BY <3>1, <3>2, CellsAhead
      <3>3. CASE left[h] # << >>
        <4>1. PICK i \in 1 .. At(h) : i \in MeetsAt(h)
          BY <1>1, <3>3 DEF Met
        <4> QED BY <1>9, <2>1, <3>1, <3>3, <4>1, Excluded
      <3> QED BY <3>2, <3>3
    <2>3. At(g) + 1 \in MeetsAt(g)
      <3>1. At(g) + 1 \in 1 .. Len(agenda[g])
        BY <2>1, ActSteps
      <3> QED BY <1>4, <1>9, <3>1 DEF MeetsAt, Cell
    <2>4. CASE g \in Joined(o)
      <3>1. Undisturbed(Joined(o), g)
        BY <1>4, <1>9, <2>2, <2>4 DEF Undisturbed
      <3> QED BY <1>1, <1>5, <1>6, <3>1
    <2>5. CASE g \notin Joined(o)
      <3> DEFINE J == Joined(o)
                 p == Append(o, g)
      <3>1. PICK e : e = Run(agenda[g], d)
        OBVIOUS
      <3>2. Serial(p, e) /\ Joined(p) = J \cup {g}
        BY <1>1, <2>5, <3>1, SerialAppend
      <3>3. Merged(J \cup {g}, e)
        BY <1>1, <2>2, <2>5, <3>1, Join
      <3>4. Undisturbed(J \cup {g}, g)
        BY <1>4, <1>9, <2>2, <2>5 DEF Undisturbed
      <3>5. Met((J \cup {g}) \ {g})
        BY <1>1, <2>5 DEF Met
      <3> HIDE DEF J, p
      <3> QED BY <1>5, <2>3, <3>2, <3>3, <3>4, <3>5
    <2> QED BY <2>4, <2>5
  <1> QED BY <1>7, <1>8, <1>9

\* No handler is in the order twice.
LEMMA JoinedSize ==
    ASSUME NEW o, NEW d, Serial(o, d)
    PROVE  Len(o) \in Nat /\ Cardinality(Joined(o)) = Len(o)
  <1> DEFINE n == Len(o)
             f == [i \in 1 .. n |-> o[i]]
  <1>1. n \in Nat
    BY LenProperties DEF Serial
  <1>2. f \in Bijection(1 .. n, Joined(o))
    <2>1. f \in [1 .. n -> Joined(o)] /\ \A c \in Joined(o) : \E i \in 1 .. n : f[i] = c
      BY DEF Joined
    <2>2. \A i, j \in 1 .. n : f[i] = f[j] => i = j
      BY DEF Serial
    <2> HIDE DEF n, f
    <2>3. f \in Injection(1 .. n, Joined(o))
      BY <2>1, <2>2 DEF Injection, IsInjective
    <2>4. f \in Surjection(1 .. n, Joined(o))
      BY <2>1 DEF Surjection
    <2> QED BY <2>3, <2>4 DEF Bijection
  <1> HIDE DEF n, f
  <1>3. Cardinality(Joined(o)) = n
    BY <1>1, <1>2, FS_CountingElements DEF ExistsBijection
  <1> QED BY <1>1, <1>3 DEF n

\* When all have returned, those who have not met anybody can follow.
LEMMA AllJoin ==
    ASSUME IInv, InOrder, Done
    PROVE  \E o, d : Serial(o, d) /\ Merged(Handlers, d) /\ Joined(o) = Handlers
  <1> DEFINE n == Cardinality(Handlers)
             Long(i, o) == Len(o) >= i \/ Joined(o) = Handlers
             Reached(i) == \E o, d : Serial(o, d) /\ Merged(Joined(o), d) /\ Long(i, o)
             T == {i \in 0 .. n : Reached(i)}
  <1>1. IsFiniteSet(Handlers) /\ n \in Nat
    BY HandlersAssumption, FS_CardinalityType
  <1>2. 0 \in T
    <2>1. PICK o, d : Serial(o, d) /\ Merged(Joined(o), d)
      BY DEF InOrder
    <2>2. Len(o) >= 0
      BY <2>1, JoinedSize
    <2>3. Reached(0)
      BY <2>1, <2>2
    <2> HIDE DEF Reached
    <2> QED BY <1>1, <2>3
  <1>3. ASSUME NEW i \in 1 .. n, i - 1 \in T PROVE i \in T
    <2>1. PICK o, d : Serial(o, d) /\ Merged(Joined(o), d) /\ Long(i - 1, o)
      BY <1>3
    <2>2. Joined(o) \subseteq Handlers
      BY <2>1, JoinedIn
    <2>3. Reached(i)
      <3>1. CASE Joined(o) = Handlers
        BY <2>1, <3>1
      <3>2. CASE Joined(o) # Handlers
        <4>1. PICK g \in Handlers \ Joined(o) : TRUE
          BY <2>2, <3>2
        <4> DEFINE e == Run(agenda[g], d)
                   p == Append(o, g)
        <4>2. \A h \in Joined(o) : CellsIn(left[h]) \cap CellsIn(agenda[g]) = {}
          BY <2>2, CellsAhead DEF Done
        <4>3. Merged(Joined(o) \cup {g}, e)
          BY <2>1, <4>2, Join
        <4>4. Serial(p, e) /\ Joined(p) = Joined(o) \cup {g} /\ Len(p) = Len(o) + 1
          BY <2>1, SerialAppend
        <4>5. Len(p) >= i
          <5> DEFINE l == Len(o)
          <5>1. l \in Nat /\ l >= i - 1 /\ Len(p) = l + 1
            BY <2>1, <3>2, <4>4, JoinedSize
          <5> HIDE DEF l, p
          <5> QED BY <5>1
        <4> HIDE DEF e, p
        <4> QED BY <4>3, <4>4, <4>5
      <3> QED BY <3>1, <3>2
    <2> HIDE DEF Reached
    <2> QED BY <2>3
  <1>4. Reached(n)
    <2>1. \A i \in 0 .. n : i \in T
      <3> HIDE DEF T, n
      <3> QED BY <1>1, <1>2, <1>3, Climb
    <2>2. n \in 0 .. n
      <3> HIDE DEF n
      <3> QED BY <1>1
    <2> HIDE DEF Reached, n
    <2> QED BY <2>1, <2>2
  <1>5. PICK o, d : Serial(o, d) /\ Merged(Joined(o), d) /\ Long(n, o)
    BY <1>4
  <1>6. Joined(o) \subseteq Handlers
    BY <1>5, JoinedIn
  <1>7. Joined(o) = Handlers
    <2> SUFFICES ASSUME Len(o) >= n PROVE Joined(o) = Handlers
      BY <1>5
    <2> DEFINE m == Cardinality(Joined(o))
    <2>1. m \in Nat /\ m >= n
      BY <1>5, JoinedSize
    <2>2. m <= n /\ (m = n => Joined(o) = Handlers)
      BY <1>1, <1>6, FS_Subset
    <2> HIDE DEF m, n
    <2>3. m = n
      BY <1>1, <2>1, <2>2
    <2> QED BY <2>2, <2>3
  <1> QED BY <1>5, <1>7

\* When all have returned, the order accounts for every cell.
LEMMA MergedIsAll ==
    ASSUME IInv, Done, NEW d, Merged(Handlers, d)
    PROVE  cell = d
  <1> DEFINE S == Touched(agenda)
  <1>1. Over(S, cell) /\ Over(S, d)
    BY CellOver DEF Merged
  <1>2. ASSUME NEW c \in S PROVE cell[c] = d[c]
    <2>1. CASE \E h \in Handlers : c \in Private(h)
      <3>1. PICK h \in Handlers : c \in Private(h)
        BY <2>1
      <3>2. Outcome(left[h], hand[h], cell)[c] = d[c]
        BY <3>1 DEF Merged, AsGoodAsDone
      <3>3. Outcome(<< >>, hand[h], cell) = cell
        BY OutcomeNothing
      <3>4. left[h] = << >>
        BY DEF Done
      <3> QED BY <3>2, <3>3, <3>4
    <2>2. CASE \A h \in Handlers : c \notin Private(h)
      <3>1. \A h \in Handlers : c \notin CellsIn(left[h])
        BY CellsAhead DEF Done
      <3> QED BY <2>2, <3>1 DEF Merged, Settled
    <2> QED BY <2>1, <2>2
  <1> HIDE DEF S
  <1> QED BY <1>1, <1>2, SameOver

\* When all have returned, the cells are what the errands leave in some order.
InSomeOrder == Done => \E o \in Orders : cell = Serially(o)

LEMMA OrderIsSome == IInv /\ InOrder => InSomeOrder
  <1> SUFFICES ASSUME IInv, InOrder, Done PROVE \E o \in Orders : cell = Serially(o)
    BY DEF InSomeOrder
  <1>1. PICK o, d : Serial(o, d) /\ Merged(Handlers, d) /\ Joined(o) = Handlers
    BY AllJoin
  <1>2. cell = d /\ Serially(o) = d
    BY <1>1, MergedIsAll, SerialIs
  <1>3. o \in Orders
    <2> DEFINE n == Cardinality(Handlers)
    <2>1. Len(o) = n /\ o \in Seq(Handlers)
      BY <1>1, JoinedSize DEF Serial
    <2>2. o \in [1 .. n -> Handlers] /\ DOMAIN o = 1 .. n
      BY <2>1, LenProperties
    <2>3. \A i, j \in 1 .. n : o[i] = o[j] => i = j
      BY <1>1, <2>1 DEF Serial
    <2> HIDE DEF n
    <2> QED BY <2>2, <2>3 DEF Orders, n
  <1> QED BY <1>2, <1>3

OrderInv == LockInv /\ Within /\ (MeetsOnce => InOrder)

LEMMA StepOrder == IInv /\ IInv' /\ Disciplined /\ OrderInv /\ [Next]_vars => OrderInv'
  <1> SUFFICES ASSUME IInv, IInv', Disciplined, OrderInv, [Next]_vars PROVE OrderInv'
    OBVIOUS
  <1>1. LockInv'
    BY StepStands DEF OrderInv
  <1>2. CASE UNCHANGED vars
    <2>1. UNCHANGED <<cell, left, hand, inside, start, agenda>>
      BY <1>2 DEF vars
    <2>2. Within'
      BY <2>1, MeetingsStay DEF OrderInv, Within, At
    <2>3. (MeetsOnce => InOrder)'
      <3>1. MeetsOnce' => MeetsOnce
        BY <2>1, MeetingsStay DEF MeetsOnce, InOneHold
      <3>2. ASSUME InOrder PROVE InOrder'
        <4>1. PICK o, d : Serial(o, d) /\ Merged(Joined(o), d) /\ Met(Joined(o))
          BY <3>2 DEF InOrder
        <4>2. Serial(o, d)'
          BY <2>1, <4>1, SerialStays
        <4>3. Merged(Joined(o), d)'
          <5> DEFINE J == Joined(o)
          <5>1. \A h : Private(h)' = Private(h) /\ Mixed(h, d)' = Mixed(h, d)
            BY <2>1 DEF Private, Mixed
          <5>2. NotBegun(J, d)'
            <6>1. \A h, e : Mixed(h, e)' = Mixed(h, e)
              BY <2>1, <5>1 DEF Mixed
            <6> QED BY <2>1, <4>1, <5>1, <6>1 DEF Merged, NotBegun
          <5>3. AsGoodAsDone(J, d)'
            BY <2>1, <4>1, <5>1 DEF Merged, AsGoodAsDone
          <5>4. Settled(J, d)'
            BY <2>1, <4>1, <5>1 DEF Merged, Settled
          <5> QED BY <2>1, <4>1, <5>2, <5>3, <5>4 DEF Merged
        <4>4. Met(Joined(o))'
          <5>1. \A h \in Joined(o) : MeetsAt(h)' = MeetsAt(h) /\ At(h)' = At(h)
            BY <2>1, <4>1, JoinedIn, MeetingsStay DEF At
          <5> QED BY <2>1, <4>1, <5>1 DEF Met
        <4> QED BY <4>2, <4>3, <4>4 DEF InOrder
      <3> QED BY <3>1, <3>2 DEF OrderInv
    <2> QED BY <1>1, <2>2, <2>3 DEF OrderInv
  <1>3. ASSUME NEW g \in Handlers, Act(g) \/ Guard(g) PROVE OrderInv'
    <2>1. Within'
      BY <1>3, StepWithin DEF OrderInv
    <2>2. MeetsOnce' => MeetsOnce
      <3>1. agenda' = agenda
        BY <1>3, Positions
      <3> QED BY <3>1, MeetingsStay DEF MeetsOnce, InOneHold
    <2>3. (MeetsOnce => InOrder)'
      BY <1>3, <2>2, StepInOrder DEF OrderInv, LockInv
    <2> QED BY <1>1, <2>1, <2>3 DEF OrderInv
  <1> QED BY <1>2, <1>3 DEF Next

\* Handlers, any number of them, that meet one another in one transaction or in one
\* hold of a common mutex each leave what they would leave one after the other,
\* whether or not a check of one is spoiled by another.
THEOREM OneMeetingIsSerial ==
    Spec => [](Disciplined /\ MeetsOnce => InSomeOrder /\ Serializable)
  <1>1. IInv /\ (Disciplined => OrderInv) =>
            (Disciplined /\ MeetsOnce => InSomeOrder /\ Serializable)
    BY OrderIsSome DEF OrderInv, InSomeOrder, Serializable
  <1>2. ~Disciplined /\ [Next]_vars => ~Disciplined'
    BY DEF Disciplined, Next, Act, Guard, vars
  <1>3. Init => OrderInv
    BY LocksInitially, WithinInitially, InOrderInitially DEF OrderInv
  <1>4. Spec => []IInv
    BY Initially, StepKeeps, PTL DEF Spec
  <1>5. IInv /\ IInv' /\ (Disciplined => OrderInv) /\ [Next]_vars => (Disciplined => OrderInv)'
    BY <1>2, StepOrder
  <1> QED BY <1>1, <1>3, <1>4, <1>5, PTL DEF Spec

-----------------------------------------------------------------------------
(* The hypotheses at the shop.                                              *)

\* A refund, the shop's for a thing it could not store: the debit is given back.
LEMMA RefundGivesBack ==
    ASSUME NEW c, c \notin Mutexes, NEW n \in Nat
    PROVE  GivesBack(<<[do |-> "must", at |-> c, n |-> -n, more |-> FALSE],
                       [do |-> "must", at |-> c, n |-> n, more |-> FALSE]>>)
  <1> DEFINE s == [do |-> "must", at |-> c, n |-> -n, more |-> FALSE]
             t == [do |-> "must", at |-> c, n |-> n, more |-> FALSE]
             p == <<s, t>>
             S == Touched(agenda)
             owed == [i \in 0 .. 2 |-> [b \in S |-> IF i = 1 /\ b = c THEN n ELSE 0]]
  <1>1. Len(p) = 2 /\ p[1] = s /\ p[2] = t
    OBVIOUS
  <1>2. \A i \in 0 .. 2, b \in S : owed[i][b] = IF i = 1 /\ b = c THEN n ELSE 0
    OBVIOUS
  <1>3. owed \in [0 .. 2 -> [S -> Nat]]
    OBVIOUS
  <1>4. ASSUME NEW v \in Nat, NEW k \in Nat
        PROVE  /\ Written(s, v, k) = IF v - n >= 0 THEN v - n ELSE v
               /\ Passes(s, v, k) <=> v - n >= 0
               /\ Written(t, v, k) = v + n
    BY DEF Written, Passes
  <1>5. s.at = c /\ t.at = c
    OBVIOUS
  <1> HIDE DEF s, t, p, owed, S
  <1>6. ASSUME NEW b \in S, NEW v \in Nat, NEW k \in Nat
        PROVE  /\ Left(s, b, v, k) + (IF Passes(s, v, k) THEN owed[1][b] ELSE 0)
                      = v + owed[0][b]
               /\ Left(t, b, v, k) + (IF Passes(t, v, k) THEN owed[2][b] ELSE 0)
                      = v + owed[1][b]
    <2>1. owed[0][b] = 0 /\ owed[2][b] = 0 /\ owed[1][b] = IF b = c THEN n ELSE 0
      BY <1>2
    <2> QED BY <1>4, <1>5, <2>1 DEF Left
  <1>7. \A i \in 1 .. 2 : i = 1 \/ i = 2
    OBVIOUS
  <1>8. \A b \in S : owed[0][b] = 0 /\ owed[2][b] = 0
    BY <1>2
  <1>9. Owing(p, owed)
    <2> SUFFICES ASSUME NEW i \in 1 .. 2, NEW b \in S
                 PROVE  /\ p[i].at \notin Mutexes
                        /\ \A v, k \in Nat :
                              Left(p[i], b, v, k) + (IF Passes(p[i], v, k) THEN owed[i][b] ELSE 0)
                                  = v + owed[i - 1][b]
      BY <1>1, <1>3, <1>8 DEF Owing, S
    <2>1. CASE i = 1
      BY <1>1, <1>5, <1>6, <2>1
    <2>2. CASE i = 2
      BY <1>1, <1>5, <1>6, <2>2
    <2> QED BY <1>7, <2>1, <2>2
  <1> QED BY <1>9 DEF GivesBack, p, s, t

\* A purchase: the debit is looked at, and the thing that follows is worth no more.
LEMMA PurchasePaysFirst ==
    ASSUME NEW w, w \notin Mutexes, Worth(w) = 1,
           NEW c, c \notin Mutexes, NEW n \in Nat, Worth(c) \in 0 .. n
    PROVE  PaysFirst(<<[do |-> "must", at |-> w, n |-> -n, more |-> FALSE],
                       [do |-> "try", at |-> c, n |-> 1, more |-> FALSE]>>)
  <1> DEFINE s == [do |-> "must", at |-> w, n |-> -n, more |-> FALSE]
             t == [do |-> "try", at |-> c, n |-> 1, more |-> FALSE]
             p == <<s, t>>
             money == [i \in 0 .. 2 |-> [k \in Nat |-> IF i = 1 THEN n ELSE 0]]
             W == Worth(c)
  <1>1. Len(p) = 2 /\ p[1] = s /\ p[2] = t
    OBVIOUS
  <1>2. \A i \in 0 .. 2, k \in Nat : money[i][k] = IF i = 1 THEN n ELSE 0
    OBVIOUS
  <1>3. money \in [0 .. 2 -> [Nat -> Nat]]
    OBVIOUS
  <1>4. ASSUME NEW v \in Nat, NEW k \in Nat
        PROVE  /\ Written(s, v, k) = IF v - n >= 0 THEN v - n ELSE v
               /\ Passes(s, v, k) <=> v - n >= 0
               /\ Remembered(s, v, k) = k
               /\ Written(t, v, k) = v + 1
               /\ Remembered(t, v, k) = k
    BY DEF Written, Passes, Remembered
  <1>5. s.at = w /\ t.at = c
    OBVIOUS
  <1> HIDE DEF s, t, p, money
  <1>6. ASSUME NEW v \in Nat, NEW k \in Nat
        PROVE  /\ Written(s, v, k) * Worth(w)
                      + (IF Passes(s, v, k) THEN money[1][Remembered(s, v, k)] ELSE 0)
                  <= v * Worth(w) + money[0][k]
               /\ Written(t, v, k) * W
                      + (IF Passes(t, v, k) THEN money[2][Remembered(t, v, k)] ELSE 0)
                  <= v * W + money[1][k]
    <2>1. money[0][k] = 0 /\ money[1][k] = n /\ money[2][k] = 0
      BY <1>2
    <2>2. (v + 1) * W = v * W + W /\ v * W \in Nat /\ W \in 0 .. n
      <3> HIDE DEF W
      <3>1. W \in 0 .. n
        BY DEF W
      <3> QED BY <3>1
    <2>3. /\ Written(s, v, k) * Worth(w)
                 + (IF Passes(s, v, k) THEN money[1][Remembered(s, v, k)] ELSE 0)
             <= v * Worth(w) + money[0][k]
      BY <1>4, <2>1
    <2> DEFINE a == v * W
               b == (v + 1) * W
    <2>4. a \in Nat /\ W \in 0 .. n /\ b = a + W
      BY <2>2
    <2>5. Written(t, v, k) * W = b
      BY <1>4
    <2> HIDE DEF a, b, W
    <2>6. Written(t, v, k) * W
              + (IF Passes(t, v, k) THEN money[2][Remembered(t, v, k)] ELSE 0)
              <= a + money[1][k]
      BY <1>4, <2>1, <2>4, <2>5
    <2> QED BY <2>3, <2>6 DEF a
  <1>7. \A i \in 1 .. 2 : i = 1 \/ i = 2
    OBVIOUS
  <1>8. money[0][0] = 0 /\ \A k \in Nat : money[2][k] = 0
    BY <1>2
  <1>9. Account(p, 0, money)
    <2> SUFFICES ASSUME NEW i \in 1 .. 2
                 PROVE  /\ p[i].at \notin Mutexes
                        /\ \A v, k \in Nat :
                              Written(p[i], v, k) * Worth(p[i].at)
                                  + (IF Passes(p[i], v, k)
                                     THEN money[i][Remembered(p[i], v, k)] ELSE 0)
                              <= v * Worth(p[i].at) + money[i - 1][k]
      BY <1>1, <1>3, <1>8 DEF Account
    <2>1. CASE i = 1
      BY <1>1, <1>5, <1>6, <2>1
    <2>2. CASE i = 2
      BY <1>1, <1>5, <1>6, <2>2
    <2> QED BY <1>7, <2>1, <2>2
  <1> QED BY <1>9 DEF PaysFirst, p, s, t

\* An errand that meets the others in one statement meets them once.
LEMMA OneStatementMeetsOnce ==
    ASSUME NEW h \in Handlers, \A i, j \in MeetsAt(h) : i = j
    PROVE  InOneTransaction(h)
  <1> SUFFICES ASSUME NEW k \in Meeting(h), k + 1 \in Meeting(h) PROVE FALSE
    BY DEF InOneTransaction
  <1>1. PICK i \in MeetsAt(h), j \in MeetsAt(h) : i <= k /\ k <= j
    BY DEF Meeting
  <1>2. PICK a \in MeetsAt(h), b \in MeetsAt(h) : a <= k + 1 /\ k + 1 <= b
    BY DEF Meeting
  <1>3. i \in Int /\ k \in Int
    BY DEF Meeting, MeetsAt
  <1>4. i = k /\ b = k + 1 /\ i = b
    <2>1. i = j /\ a = b /\ i = b
      BY <1>1, <1>2
    <2> QED BY <1>1, <1>2, <1>3, <2>1
  <1> QED BY <1>3, <1>4

-----------------------------------------------------------------------------
(* Waiting.                                                                 *)

\* No errand waits for a mutex while it has one, and none leaves a transaction open
\* over a mutex or over its end.
OneLock ==
    \A h \in Handlers : \A i \in 1 .. Len(agenda[h]) :
        agenda[h][i].do = "lock" => MutexesAt(agenda[h], i) = {}
WholeTransactions ==
    \A h \in Handlers : \A i \in 1 .. Len(agenda[h]) :
        agenda[h][i].more /\ agenda[h][i].at \notin Mutexes =>
            i + 1 \in 1 .. Len(agenda[h]) /\ agenda[h][i + 1].at \notin Mutexes

\* What Act and Guard ask for.
CanStep(h) ==
    /\ left[h] # << >> /\ inside \in {h, Nobody}
    /\ Head(left[h]).do = "lock" => \A g \in Handlers : Head(left[h]).at \notin held[g]

SomebodyCanStep == Done \/ \E h \in Handlers : CanStep(h)

\* A handler has no mutex but those its errand has locked by now.
HeldByNow ==
    \A h \in Handlers :
        held[h] \subseteq IF left[h] = << >> THEN {} ELSE MutexesAt(agenda[h], At(h) + 1)

\* The handler in a transaction has its next statement on a cell.
Inside ==
    \A h \in Handlers :
        inside = h => left[h] # << >> /\ agenda[h][At(h) + 1].at \notin Mutexes

\* What a statement adds to the mutexes locked by now, and what it leaves.
LEMMA MutexesGrow ==
    ASSUME NEW p, NEW i \in Nat \ {0}, NEW m \in Mutexes,
           \/ m \in MutexesAt(p, i) /\ ~(p[i].do = "unlock" /\ p[i].at = m)
           \/ p[i].do = "lock" /\ p[i].at = m
    PROVE  m \in MutexesAt(p, i + 1)
  <1>1. \A k \in i .. i : k = i
    OBVIOUS
  <1>2. CASE m \in MutexesAt(p, i) /\ ~(p[i].do = "unlock" /\ p[i].at = m)
    <2>1. HeldSince(p, i, i, m)
      BY <1>1, <1>2 DEF HeldSince
    <2>2. i \in 1 .. i
      OBVIOUS
    <2> QED BY <2>1, <2>2, HeldIsAt
  <1>3. CASE p[i].do = "lock" /\ p[i].at = m
    <2>1. (i + 1) - 1 = i /\ i \in 1 .. i
      OBVIOUS
    <2>2. \A k \in i .. i : p[k].do = "unlock" => p[k].at # m
      BY <1>1, <1>3
    <2> QED BY <1>3, <2>1, <2>2 DEF MutexesAt
  <1> QED BY <1>2, <1>3

LEMMA StepHeldByNow ==
    ASSUME IInv, HeldByNow, NEW h \in Handlers, Act(h) \/ Guard(h)
    PROVE  HeldByNow'
  <1> DEFINE i == At(h) + 1
             s == agenda[h][i]
  <1>1. /\ left[h] # << >> /\ agenda' = agenda
        /\ \A g \in Handlers \ {h} : left'[g] = left[g] /\ At(g)' = At(g)
        /\ left'[h] # << >> => At(h)' = i
    BY Positions
  <1>2. i \in Nat \ {0} /\ Head(left[h]) = s /\ i \in 1 .. Len(agenda[h])
    <2> DEFINE k == At(h)
    <2>1. k \in Nat /\ k + 1 \in 1 .. Len(agenda[h]) /\ Head(left[h]) = agenda[h][k + 1]
      BY <1>1, AtFacts
    <2>2. k + 1 \in Nat \ {0}
      <3> HIDE DEF k
      <3> QED BY <2>1
    <2> QED BY <2>1, <2>2
  <1>3. ASSUME NEW g \in Handlers \ {h} PROVE held'[g] \subseteq held[g]
    <2>1. CASE Act(h)
      BY <2>1 DEF Act, IInv, Shape
    <2>2. CASE Guard(h)
      <3> DEFINE t == Head(left[h])
                 new == [f \in Handlers |-> IF f = h /\ Tail(left[h]) = << >> THEN {}
                                           ELSE IF t.do # "lock" THEN held[f] \ {t.at}
                                           ELSE IF f = h THEN held[f] \cup {t.at} ELSE held[f]]
      <3>1. held' = new
        BY <2>2 DEF Guard
      <3>2. new[g] \subseteq held[g]
        OBVIOUS
      <3> HIDE DEF new
      <3> QED BY <3>1, <3>2
    <2> QED BY <2>1, <2>2
  <1>4. left'[h] = << >> => held'[h] = {}
    BY DEF Act, Guard, IInv, Shape
  <1>5. held[h] \subseteq MutexesAt(agenda[h], i) /\ held[h] \subseteq Mutexes
    BY <1>1 DEF HeldByNow, IInv, Shape
  <1>6. ASSUME left'[h] # << >>, NEW m \in held'[h] PROVE m \in MutexesAt(agenda[h], i + 1)
    <2>1. CASE Act(h)
      <3>1. m \in held[h] /\ s.at \notin Mutexes
        BY <1>2, <1>6, <2>1 DEF Act, IInv, Shape
      <3> HIDE DEF s, i
      <3> QED BY <1>2, <1>5, <3>1, MutexesGrow DEF s
    <2>2. CASE Guard(h)
      <3>1. s.at \in Mutexes
        BY <1>2, <2>2 DEF Guard
      <3>2. \/ s.do # "lock" /\ m \in held[h] /\ m # s.at
            \/ s.do = "lock" /\ (m \in held[h] \/ m = s.at)
        <4>1. held'[h] = {} \/ held'[h] = IF s.do # "lock" THEN held[h] \ {s.at}
                                          ELSE held[h] \cup {s.at}
          BY <1>2, <2>2 DEF Guard
        <4> HIDE DEF s
        <4> QED BY <1>6, <4>1
      <3> HIDE DEF s, i
      <3> QED BY <1>2, <1>5, <3>1, <3>2, MutexesGrow DEF s
    <2> QED BY <2>1, <2>2
  <1> HIDE DEF i, s
  <1>7. ASSUME NEW g \in Handlers
        PROVE  held'[g] \subseteq IF left'[g] = << >> THEN {}
                                  ELSE MutexesAt(agenda[g], At(g)' + 1)
    <2>1. CASE g = h
      <3>1. CASE left'[h] = << >>
        BY <1>4, <2>1, <3>1
      <3>2. CASE left'[h] # << >>
        BY <1>1, <1>6, <2>1, <3>2
      <3> QED BY <3>1, <3>2
    <2>2. CASE g # h
      <3>1. left'[g] = left[g] /\ At(g)' = At(g) /\ held'[g] \subseteq held[g]
        BY <1>1, <1>3, <2>2
      <3> QED BY <3>1 DEF HeldByNow
    <2> QED BY <2>1, <2>2
  <1> QED BY <1>1, <1>7 DEF HeldByNow

\* A transaction that goes on is at a cell next.
LEMMA StepInside ==
    ASSUME IInv, Inside, WholeTransactions, NEW h \in Handlers, Act(h) \/ Guard(h)
    PROVE  Inside'
  <1> DEFINE i == At(h) + 1
             s == agenda[h][i]
  <1>1. i \in 1 .. Len(agenda[h]) /\ Head(left[h]) = s /\ left[h] # << >> /\ At(h) \in Nat
    BY AtFacts DEF Act, Guard
  <1>2. agenda' = agenda /\ h # Nobody /\ \A g \in Handlers : g # Nobody
    BY HandlersAssumption DEF Act, Guard
  <1>3. CASE Act(h)
    <2>1. /\ s.at \notin Mutexes
          /\ Passes(s, cell[s.at], hand[h]) =>
                 IF i = Len(agenda[h]) THEN left'[h] = << >>
                 ELSE left'[h] # << >> /\ At(h)' = i
      BY <1>3, ActSteps
    <2>2. inside' = IF Passes(s, cell[s.at], hand[h]) /\ s.more THEN h ELSE Nobody
      BY <1>1, <1>3 DEF Act
    <2>3. CASE Passes(s, cell[s.at], hand[h]) /\ s.more
      <3>1. i + 1 \in 1 .. Len(agenda[h]) /\ agenda[h][i + 1].at \notin Mutexes
        BY <1>1, <2>1, <2>3 DEF WholeTransactions
      <3>2. i # Len(agenda[h])
        BY <1>1, <3>1
      <3>3. left'[h] # << >> /\ At(h)' = i
        BY <2>1, <2>3, <3>2
      <3> HIDE DEF i, s
      <3> QED BY <1>2, <2>2, <2>3, <3>1, <3>3 DEF Inside
    <2>4. CASE ~(Passes(s, cell[s.at], hand[h]) /\ s.more)
      BY <1>2, <2>2, <2>4 DEF Inside
    <2> QED BY <2>3, <2>4
  <1>4. CASE Guard(h)
    <2>1. inside' = inside /\ inside \in {h, Nobody} /\ s.at \in Mutexes
      BY <1>1, <1>4 DEF Guard
    <2>2. inside # h
      BY <2>1 DEF Inside
    <2> QED BY <1>2, <2>1, <2>2 DEF Inside
  <1> QED BY <1>3, <1>4

\* Who has a mutex, or a transaction, waits for none.
LEMMA SomebodyCan ==
    ASSUME IInv, HeldByNow, Inside, OneLock
    PROVE  SomebodyCanStep
  <1> SUFFICES ASSUME ~Done PROVE \E h \in Handlers : CanStep(h)
    BY DEF SomebodyCanStep
  <1>1. ASSUME NEW h \in Handlers, left[h] # << >>
        PROVE  LET s == agenda[h][At(h) + 1]
               IN  /\ Head(left[h]) = s
                   /\ s.do = "lock" => s.at \in Mutexes /\ held[h] = {}
    <2>1. At(h) + 1 \in 1 .. Len(agenda[h]) /\ Head(left[h]) = agenda[h][At(h) + 1]
      BY <1>1, AtFacts
    <2> DEFINE s == agenda[h][At(h) + 1]
    <2>2. s.do = "lock" => s.at \in Mutexes
      BY <2>1, MutexStatements
    <2>3. s.do = "lock" => MutexesAt(agenda[h], At(h) + 1) = {}
      BY <2>1 DEF OneLock
    <2>4. held[h] \subseteq MutexesAt(agenda[h], At(h) + 1)
      BY <1>1 DEF HeldByNow
    <2> QED BY <2>1, <2>2, <2>3, <2>4
  <1>2. CASE inside \in Handlers
    <2>1. PICK h \in Handlers : inside = h
      BY <1>2
    <2>2. left[h] # << >> /\ agenda[h][At(h) + 1].at \notin Mutexes
      BY <2>1 DEF Inside
    <2> QED BY <1>1, <2>1, <2>2 DEF CanStep
  <1>3. CASE inside = Nobody /\ \E h \in Handlers : held[h] # {}
    <2>1. PICK h \in Handlers : held[h] # {}
      BY <1>3
    <2>2. left[h] # << >>
      BY <2>1 DEF HeldByNow
    <2>3. Head(left[h]).do # "lock"
      BY <1>1, <2>1, <2>2
    <2> QED BY <1>3, <2>2, <2>3 DEF CanStep
  <1>4. CASE inside = Nobody /\ \A h \in Handlers : held[h] = {}
    BY <1>4 DEF Done, CanStep
  <1> QED BY <1>2, <1>3, <1>4 DEF IInv, Shape

WaitInv == HeldByNow /\ (WholeTransactions => Inside)

LEMMA StepWaits == IInv /\ WaitInv /\ [Next]_vars => WaitInv'
  <1> SUFFICES ASSUME IInv, WaitInv, [Next]_vars PROVE WaitInv'
    OBVIOUS
  <1>1. CASE UNCHANGED vars
    BY <1>1 DEF vars, WaitInv, HeldByNow, Inside, WholeTransactions, At
  <1>2. ASSUME NEW h \in Handlers, Act(h) \/ Guard(h) PROVE WaitInv'
    <2>1. agenda' = agenda
      BY <1>2, Positions
    <2>2. HeldByNow'
      BY <1>2, StepHeldByNow DEF WaitInv
    <2>3. WholeTransactions' => WholeTransactions
      BY <2>1 DEF WholeTransactions
    <2>4. WholeTransactions => Inside'
      BY <1>2, StepInside DEF WaitInv
    <2> QED BY <2>2, <2>3, <2>4 DEF WaitInv
  <1> QED BY <1>1, <1>2 DEF Next

\* Handlers that never wait for a mutex with another one in their hands, nor in the
\* middle of a transaction, do not end up waiting for one another: until all have
\* returned, one of them can go on.  A round of a boss raid waits for a mutex it has.
THEOREM NobodyIsStuck ==
    Spec => [](OneLock /\ WholeTransactions => SomebodyCanStep)
  <1>1. Init => WaitInv
    <2> SUFFICES ASSUME Init PROVE WaitInv
      OBVIOUS
    <2>1. (\A h \in Handlers : held[h] = {}) /\ inside = Nobody
      BY DEF Init
    <2>2. \A h \in Handlers : inside # h
      BY <2>1, HandlersAssumption
    <2> QED BY <2>1, <2>2 DEF WaitInv, HeldByNow, Inside
  <1>2. IInv /\ WaitInv => (OneLock /\ WholeTransactions => SomebodyCanStep)
    BY SomebodyCan DEF WaitInv
  <1>3. Spec => []IInv
    BY Initially, StepKeeps, PTL DEF Spec
  <1> QED BY <1>1, <1>2, <1>3, StepWaits, PTL DEF Spec

\* Statements still to be executed, over all handlers.
Lengths == [h \in Handlers |-> Len(left[h])]

\* Every step of a handler leaves fewer statements: handlers that keep stepping
\* return.
THEOREM ErrandsShrink == Spec => [][Total(Lengths') < Total(Lengths)]_vars
  <1>1. IInv /\ [Next]_vars => [Total(Lengths') < Total(Lengths)]_vars
    <2> SUFFICES ASSUME IInv, NEW h \in Handlers, Act(h) \/ Guard(h)
                 PROVE  Total(Lengths') < Total(Lengths)
      BY DEF Next
    <2> DEFINE f == Lengths
               g == Lengths'
    <2>1. /\ left[h] # << >> /\ left[h] \in Seq(InAgenda)
          /\ \A e \in Handlers \ {h} : left'[e] = left[e]
          /\ left'[h] = << >> \/ left'[h] = Tail(left[h])
      BY Positions DEF IInv, Shape
    <2>2. Len(left[h]) \in Nat /\ Len(left'[h]) \in Nat /\ Len(left'[h]) < Len(left[h])
      <3> DEFINE n == Len(left[h])
                 k == Len(left'[h])
                 q == left[h]
      <3>1. q \in Seq(InAgenda) /\ q # << >>
        BY <2>1
      <3> HIDE DEF q
      <3>2. Len(q) \in Nat /\ Len(q) # 0 /\ Len(Tail(q)) = Len(q) - 1
        BY <3>1, EmptySeq, LenProperties, HeadTailProperties
      <3>3. n = Len(q) /\ (k = 0 \/ k = Len(Tail(q)))
        BY <2>1 DEF q
      <3> HIDE DEF n, k
      <3>4. n \in Nat /\ k \in Nat /\ k < n
        BY <3>2, <3>3
      <3> QED BY <3>4 DEF n, k
    <2>3. f \in [Handlers -> Nat]
      BY LeftFacts DEF Lengths
    <2>4. g = [f EXCEPT ![h] = Len(left'[h])]
      BY <2>1 DEF Lengths
    <2>5. f[h] = Len(left[h])
      BY DEF Lengths
    <2> HIDE DEF f, g
    <2>6. Total(g) < Total(f)
      <3>1. g \in [Handlers -> Nat] /\ g[h] < f[h] /\ \A e \in Handlers \ {h} : g[e] = f[e]
        BY <2>2, <2>3, <2>4, <2>5
      <3>2. Total(g) = Total(f) + g[h] - f[h]
        BY <2>3, <3>1, HandlersAssumption, TotalUpdate
      <3>3. Total(f) \in Nat /\ Total(g) \in Nat /\ f[h] \in Nat /\ g[h] \in Nat
        BY <2>3, <3>1, HandlersAssumption, TotalIsNat
      <3> QED BY <3>1, <3>2, <3>3
    <2> QED BY <2>6 DEF f, g
  <1>2. Spec => []IInv
    BY Initially, StepKeeps, PTL DEF Spec
  <1> QED BY <1>1, <1>2, PTL DEF Spec
=============================================================================
