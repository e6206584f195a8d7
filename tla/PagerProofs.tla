---------------------------- MODULE PagerProofs ----------------------------
(***************************************************************************)
(* Theorems about Pager, for every capacity, every document and every list *)
(* of threads.                                                             *)
(***************************************************************************)
EXTENDS Pager, NatRecursion

-----------------------------------------------------------------------------
(* The document about the threads is a text that fits sThreadInfoBuffer.   *)

Texts == {b \in Seq(Char) : Len(b) <= ThreadCap - 2}

\* A put leaves the 0 at the end and the one in front of it alone.
LEMMA PutStringFits ==
    ASSUME NEW b \in Texts, NEW s \in Seq(Char)
    PROVE  PutString(b, s) \in Texts
  <1> DEFINE n == Min2(Len(s), RoomLeft(b))
             u == SubSeq(s, 1, n)
  <1>1. b \in Seq(Char) /\ Len(b) \in Nat /\ Len(b) <= ThreadCap - 2 /\ Len(s) \in Nat
    BY DEF Texts
  <1>2. n \in 0..Len(s) /\ Len(b) + n <= ThreadCap - 2
    BY <1>1, BufferAssumption DEF Min2, RoomLeft
  <1> HIDE DEF n
  <1>3. u \in Seq(Char) /\ Len(u) = n
    BY <1>1, <1>2
  <1> HIDE DEF u
  <1>4. b \o u \in Seq(Char) /\ Len(b \o u) = Len(b) + n
    BY <1>1, <1>3
  <1> QED
    BY <1>2, <1>4 DEF PutString, Texts, n, u

\* What a character is written as.
LEMMA EntityTypes == ASSUME NEW c \in Char PROVE Entity(c) \in Seq(Char)
  <1>1. "&" \in Char /\ Semicolon \in Char
    BY CharAssumption, Zenon DEF Pieces
  <1>2. ASSUME c \in DOMAIN Entities
        PROVE  Entities[c] \in Char
    <2>1. Entities[c] \in {"lt", "gt", "amp", "quot", "apos"}
      BY <1>2 DEF Entities
    <2>2. {"lt", "gt", "amp", "quot", "apos"} \subseteq Char
      BY CharAssumption DEF Pieces, Markup
    <2> QED
      BY <2>1, <2>2
  <1> QED
    BY <1>1, <1>2 DEF Entity

\* The buffer after each character of a text.
LEMMA EscapedSteps ==
    ASSUME NEW b \in Texts, NEW s \in Seq(Char)
    PROVE  /\ Escaped(b, s)[0] = b
           /\ \A i \in 1..Len(s) : Escaped(b, s)[i] = PutString(Escaped(b, s)[i - 1], Entity(s[i]))
           /\ \A i \in 0..Len(s) : Escaped(b, s)[i] \in Texts
  <1> DEFINE N == Len(s)
             F == [q \in (1..N) \X Texts |-> PutString(q[2], Entity(s[q[1]]))]
             Body(f) == [i \in 0..N |-> IF i = 0 THEN b ELSE PutString(f[i - 1], Entity(s[i]))]
  <1>1. N \in Nat /\ \A i \in 1..N : Entity(s[i]) \in Seq(Char)
    <2>1. \A i \in 1..N : s[i] \in Char
      OBVIOUS
    <2> QED
      BY <2>1, EntityTypes
  <1> HIDE DEF N
  <1>2. F \in [(1..N) \X Texts -> Texts]
    BY <1>1, PutStringFits
  <1>3. PICK g : g \in [0..N -> Texts] /\ g[0] = b /\ \A i \in 1..N : g[i] = F[<<i, g[i - 1]>>]
    <2> HIDE DEF F
    <2>1. PICK g : Solves(g, N, Texts, b, F)
      BY <1>1, <1>2, RecursionSolved
    <2> QED
      BY <2>1 DEF Solves
  <1>4. \A i \in 1..N : g[i] = PutString(g[i - 1], Entity(s[i]))
    <2> SUFFICES ASSUME NEW i \in 1..N PROVE g[i] = PutString(g[i - 1], Entity(s[i]))
      OBVIOUS
    <2>1. <<i, g[i - 1]>> \in (1..N) \X Texts
      BY <1>1, <1>3
    <2> QED
      BY <1>3, <2>1
  <1>5. g = Body(g)
    <2>1. ASSUME NEW i \in 0..N
          PROVE  g[i] = IF i = 0 THEN b ELSE PutString(g[i - 1], Entity(s[i]))
      <3>1. CASE i = 0
        BY <1>3, <3>1, Zenon
      <3>2. CASE i # 0
        <4>1. i \in 1..N
          BY <1>1, <3>2
        <4> QED
          BY <1>4, <3>2, <4>1, Zenon
      <3> QED
        BY <3>1, <3>2
    <2>2. g = [i \in 0..N |-> g[i]]
      BY <1>3
    <2> QED
      BY <2>1, <2>2, Zenon
  <1> DEFINE E == Escaped(b, s)
  <1>6. E = CHOOSE f : f = Body(f)
    BY DEF Escaped, N
  <1> HIDE DEF E
  <1>7. E = Body(E)
    <2> HIDE DEF Body
    <2> QED
      BY <1>5, <1>6
  <1>8. \A i \in 0..N : E[i] = IF i = 0 THEN b ELSE PutString(E[i - 1], Entity(s[i]))
    <2>1. \A i \in 0..N : Body(E)[i] = IF i = 0 THEN b ELSE PutString(E[i - 1], Entity(s[i]))
      BY Zenon
    <2> HIDE DEF Body
    <2> QED
      BY <1>7, <2>1, Zenon
  <1>9. E[0] = b /\ \A i \in 1..N : E[i] = PutString(E[i - 1], Entity(s[i]))
    <2>1. 0 \in 0..N /\ \A i \in 1..N : i \in 0..N /\ i # 0
      BY <1>1
    <2> QED
      BY <1>8, <2>1, Zenon
  <1>10. \A i \in 0..N : E[i] \in Texts
    <2>1. E[0] \in Texts /\ \A i \in 1..N : E[i - 1] \in Texts => E[i] \in Texts
      BY <1>1, <1>9, PutStringFits
    <2> QED
      BY <1>1, <2>1, StaysIn
  <1> QED
    BY <1>9, <1>10 DEF E, N

\* No text is too long for PutXMLEscapedString.
LEMMA EscapedFits ==
    ASSUME NEW b \in Texts, NEW s \in Seq(Char)
    PROVE  PutXMLEscapedString(b, s) \in Texts
  <1>1. Len(s) \in 0..Len(s)
    OBVIOUS
  <1> QED
    BY <1>1, EscapedSteps DEF PutXMLEscapedString

\* The threads of a snapshot.
LEMMA SnapshotTypes ==
    ASSUME NEW snapshot \in Snapshots
    PROVE  /\ Len(snapshot.threads) \in Nat
           /\ \A k \in 1..Len(snapshot.threads) : snapshot.threads[k] \in Threads
  <1>1. snapshot \in [threads : Seq(Threads), hung : SUBSET Char, stopped : Char]
    BY SnapshotAssumption
  <1>2. snapshot.threads \in Seq(Threads)
    BY <1>1
  <1> HIDE DEF Threads
  <1> QED
    BY <1>2

\* What a number is written with is not special, and no text has markup in it.
LEMMA PlainTypes ==
    /\ Figures \subseteq Plain /\ Plain \subseteq Char
    /\ Seq(Figures) \subseteq Seq(Plain) /\ Seq(Plain) \subseteq Seq(Char)
  BY DEF Figures, Plain

\* What the code writes of a thread are texts.
LEMMA NamedTypes ==
    ASSUME NEW t \in Threads
    PROVE  /\ t.id \in Figures /\ t.upir \in Figures /\ CoreOfThread(t) \in Figures
           /\ Named(t) \in Seq(Plain) /\ ThreadName(t) \in Seq(Plain)
  <1>1. {"0x", "Idle"} \subseteq Plain
    BY CharAssumption DEF Pieces, Plain, Markup, Closing
  <1>2. /\ t.id \in Figures /\ t.upir \in Figures /\ t.affinity \in Figures \cup {"any"}
        /\ t.name \in Seq(Plain) \cup {"none"}
    BY DEF Threads
  <1>3. CoreOfThread(t) \in Figures
    BY <1>2 DEF CoreOfThread
  <1>4. Named(t) \in Seq(Plain)
    <2>1. <<"0x", t.id>> \in Seq(Plain)
      BY <1>1, <1>2, PlainTypes
    <2> QED
      BY <1>2, <2>1 DEF Named
  <1>5. ThreadName(t) \in Seq(Plain)
    BY <1>1, <1>4 DEF ThreadName
  <1> QED
    BY <1>2, <1>3, <1>4, <1>5

\* So is the description of a thread.
LEMMA InfoTypes ==
    ASSUME NEW snapshot, NEW t \in Threads
    PROVE  ThreadExtraInfo(snapshot, t) \in Seq(Plain)
  <1>1. {"core", "*", "HUNG", "running", "ready", "waiting", "moribund", "detach",
         "name", "Idle"} \subseteq Plain
    BY CharAssumption DEF Pieces, Plain, Markup, Closing
  <1>2. CoreOfThread(t) \in Plain /\ t.upir \in Plain /\ Named(t) \in Seq(Plain)
    BY NamedTypes, PlainTypes
  <1>3. Mark(snapshot, t) \in Seq(Plain)
    <2>1. <<"*">> \in Seq(Plain) /\ <<"HUNG">> \in Seq(Plain) /\ << >> \in Seq(Plain)
      BY <1>1
    <2> QED
      BY <2>1 DEF Mark
  <1>4. ASSUME NEW w \in Plain PROVE StateWord(t, w) \in Seq(Plain)
    BY DEF StateWord
  <1>5. \A a, b \in Seq(Plain) : a \o b \in Seq(Plain)
    OBVIOUS
  <1>6. StateWords(t) \in Seq(Plain)
    <2>1. /\ StateWord(t, "running") \in Seq(Plain) /\ StateWord(t, "ready") \in Seq(Plain)
          /\ StateWord(t, "waiting") \in Seq(Plain) /\ StateWord(t, "moribund") \in Seq(Plain)
          /\ StateWord(t, "detach") \in Seq(Plain)
      BY <1>1, <1>4
    <2> QED
      BY <1>5, <2>1, Zenon DEF StateWords
  <1> DEFINE full == <<"core", CoreOfThread(t)>> \o Mark(snapshot, t) \o StateWords(t)
                         \o <<"name">> \o Named(t)
  <1>7. full \in Seq(Plain)
    <2>1. <<"core", CoreOfThread(t)>> \in Seq(Plain) /\ <<"name">> \in Seq(Plain)
      BY <1>1, <1>2
    <2> QED
      BY <1>2, <1>3, <1>5, <1>6, <2>1, Zenon
  <1> HIDE DEF full
  <1> DEFINE n == Min2(Len(full), InfoCap - 1)
  <1>8. SubSeq(full, 1, n) \in Seq(Plain)
    <2>1. n \in 0..Len(full)
      BY <1>7, BufferAssumption DEF Min2
    <2> HIDE DEF n
    <2> QED
      BY <1>7, <2>1
  <1>9. <<"core", t.upir, "*", "running", "name", "Idle">> \in Seq(Plain)
    BY <1>1, <1>2
  <1> QED
    BY <1>8, <1>9, Zenon DEF ThreadExtraInfo, full, n

\* Every thread is written, as far as there is room.
LEMMA PutThreadFits ==
    ASSUME NEW snapshot, NEW b \in Texts, NEW t \in Threads
    PROVE  PutThread(snapshot, b, t) \in Texts
  <1> DEFINE head   == <<"<thread", t.id, "core=", t.upir, "name=">>
             opened == PutString(b, head)
             named  == PutString(PutXMLEscapedString(opened, ThreadName(t)), <<Closing>>)
             info   == ThreadExtraInfo(snapshot, t)
  <1>1. {"<thread", "core=", "name=", "</thread>"} \subseteq Char /\ Closing \in Char
    BY CharAssumption DEF Pieces, Markup
  <1>2. t.id \in Char /\ t.upir \in Char /\ ThreadName(t) \in Seq(Char) /\ info \in Seq(Char)
    BY NamedTypes, InfoTypes, PlainTypes
  <1>3. head \in Seq(Char) /\ <<Closing>> \in Seq(Char) /\ <<"</thread>">> \in Seq(Char)
    BY <1>1, <1>2
  <1> HIDE DEF head, info
  <1>4. opened \in Texts
    BY <1>3, PutStringFits
  <1> HIDE DEF opened
  <1>5. named \in Texts
    BY <1>2, <1>3, <1>4, PutStringFits, EscapedFits
  <1> HIDE DEF named
  <1>6. PutString(PutXMLEscapedString(named, info), <<"</thread>">>) \in Texts
    BY <1>2, <1>3, <1>5, PutStringFits, EscapedFits
  <1> QED
    BY <1>6, Zenon DEF PutThread, named, opened, head, info

\* The buffer after each thread.
LEMMA ListedSteps ==
    ASSUME NEW snapshot \in Snapshots
    PROVE  LET N == Len(snapshot.threads)
               E == Listed(snapshot)
           IN  /\ E[0] = PutString(<< >>, <<"<threads>">>)
               /\ \A k \in 1..N : E[k] = PutThread(snapshot, E[k - 1], snapshot.threads[k])
               /\ \A k \in 0..N : E[k] \in Texts
  <1> DEFINE N == Len(snapshot.threads)
             x0 == PutString(<< >>, <<"<threads>">>)
             F == [q \in (1..N) \X Texts |-> PutThread(snapshot, q[2], snapshot.threads[q[1]])]
             Body(f) == [k \in 0..N |-> IF k = 0 THEN x0
                             ELSE PutThread(snapshot, f[k - 1], snapshot.threads[k])]
  <1>1. N \in Nat /\ \A k \in 1..N : snapshot.threads[k] \in Threads
    BY SnapshotTypes
  <1>2. x0 \in Texts
    <2>1. "<threads>" \in Char
      BY CharAssumption DEF Pieces, Markup
    <2>2. << >> \in Texts
      BY BufferAssumption DEF Texts
    <2> DEFINE s == <<"<threads>">>
    <2>3. s \in Seq(Char)
      BY <2>1
    <2> HIDE DEF s
    <2>4. PutString(<< >>, s) \in Texts
      BY <2>2, <2>3, PutStringFits
    <2> QED
      BY <2>4 DEF s
  <1> HIDE DEF N, x0
  <1>3. F \in [(1..N) \X Texts -> Texts]
    BY <1>1, PutThreadFits
  <1>4. PICK g : g \in [0..N -> Texts] /\ g[0] = x0 /\ \A k \in 1..N : g[k] = F[<<k, g[k - 1]>>]
    <2> HIDE DEF F
    <2>1. PICK g : Solves(g, N, Texts, x0, F)
      BY <1>1, <1>2, <1>3, RecursionSolved
    <2> QED
      BY <2>1 DEF Solves
  <1>5. \A k \in 1..N : g[k] = PutThread(snapshot, g[k - 1], snapshot.threads[k])
    <2> SUFFICES ASSUME NEW k \in 1..N
                 PROVE  g[k] = PutThread(snapshot, g[k - 1], snapshot.threads[k])
      OBVIOUS
    <2>1. <<k, g[k - 1]>> \in (1..N) \X Texts
      BY <1>1, <1>4
    <2> QED
      BY <1>4, <2>1
  <1>6. g = Body(g)
    <2>1. ASSUME NEW k \in 0..N
          PROVE  g[k] = IF k = 0 THEN x0
                        ELSE PutThread(snapshot, g[k - 1], snapshot.threads[k])
      <3>1. CASE k = 0
        BY <1>4, <3>1, Zenon
      <3>2. CASE k # 0
        <4>1. k \in 1..N
          BY <1>1, <3>2
        <4> QED
          BY <1>5, <3>2, <4>1, Zenon
      <3> QED
        BY <3>1, <3>2
    <2>2. g = [k \in 0..N |-> g[k]]
      BY <1>4
    <2> QED
      BY <2>1, <2>2, Zenon
  <1> DEFINE E == Listed(snapshot)
  <1>7. E = CHOOSE f : f = Body(f)
    BY DEF Listed, N, x0
  <1> HIDE DEF E
  <1>8. E = Body(E)
    <2> HIDE DEF Body
    <2> QED
      BY <1>6, <1>7
  <1>9. \A k \in 0..N : E[k] = IF k = 0 THEN x0
                               ELSE PutThread(snapshot, E[k - 1], snapshot.threads[k])
    <2>1. \A k \in 0..N : Body(E)[k] = IF k = 0 THEN x0
                               ELSE PutThread(snapshot, E[k - 1], snapshot.threads[k])
      BY Zenon
    <2> HIDE DEF Body
    <2> QED
      BY <1>8, <2>1, Zenon
  <1>10. E[0] = x0 /\ \A k \in 1..N : E[k] = PutThread(snapshot, E[k - 1], snapshot.threads[k])
    <2>1. 0 \in 0..N /\ \A k \in 1..N : k \in 0..N /\ k # 0
      BY <1>1
    <2> QED
      BY <1>9, <2>1, Zenon
  <1>11. \A k \in 0..N : E[k] \in Texts
    <2>1. E[0] \in Texts /\ \A k \in 1..N : E[k - 1] \in Texts => E[k] \in Texts
      BY <1>1, <1>2, <1>10, PutThreadFits
    <2> QED
      BY <1>1, <2>1, StaysIn
  <1> QED
    BY <1>10, <1>11 DEF E, N, x0

\* However many threads there are and whatever their names, the document fits
\* sThreadInfoBuffer with the terminating 0.
THEOREM DocumentFits ==
    ASSUME NEW snapshot \in Snapshots
    PROVE  ThreadDocument(snapshot) \in Texts
  <1> DEFINE s == <<"</threads>">>
             n == Len(snapshot.threads)
  <1>1. s \in Seq(Char)
    <2>1. "</threads>" \in Char
      BY CharAssumption DEF Pieces, Markup
    <2> QED
      BY <2>1
  <1>2. Listed(snapshot)[n] \in Texts
    <2>1. n \in 0..n
      BY SnapshotTypes
    <2> QED
      BY <2>1, ListedSteps
  <1> HIDE DEF s
  <1> QED
    BY <1>1, <1>2, PutStringFits DEF ThreadDocument, s

-----------------------------------------------------------------------------
(* The document without a limit: what is in the buffer is the start of it.  *)

Cut(a) == SubSeq(a, 1, Min2(Len(a), ThreadCap - 2))

\* A cut text fits, and is the whole one if it is shorter than what would fit.
LEMMA CutTypes ==
    ASSUME NEW a \in Seq(Char)
    PROVE  /\ Cut(a) \in Texts /\ \E rest \in Seq(Char) : a = Cut(a) \o rest
           /\ Len(Cut(a)) < ThreadCap - 2 => Cut(a) = a
  <1> DEFINE n == Min2(Len(a), ThreadCap - 2)
             u == SubSeq(a, 1, n)
             v == SubSeq(a, n + 1, Len(a))
  <1>1. n \in 0..Len(a) /\ n <= ThreadCap - 2 /\ (n < ThreadCap - 2 => n = Len(a))
    BY BufferAssumption DEF Min2
  <1> HIDE DEF n
  <1>2. u \in Seq(Char) /\ Len(u) = n /\ \A i \in 1..n : u[i] = a[i]
    BY <1>1
  <1>3. v \in Seq(Char) /\ Len(v) = Len(a) - n /\ \A i \in 1..Len(a) - n : v[i] = a[n + i]
    BY <1>1
  <1> HIDE DEF u, v
  <1>4. a = u \o v
    <2>1. /\ u \o v \in Seq(Char) /\ Len(u \o v) = Len(a)
          /\ \A i \in 1..n : (u \o v)[i] = u[i]
          /\ \A i \in 1..Len(a) - n : (u \o v)[n + i] = v[i]
      BY <1>1, <1>2, <1>3, Joined
    <2>2. ASSUME NEW i \in 1..Len(a)
          PROVE  (u \o v)[i] = a[i]
      <3>1. CASE i <= n
        BY <1>1, <1>2, <2>1, <3>1
      <3>2. CASE ~(i <= n)
        <4>1. i - n \in 1..Len(a) - n /\ n + (i - n) = i
          BY <1>1, <3>2
        <4> QED
          BY <1>3, <2>1, <4>1
      <3> QED
        BY <3>1, <3>2
    <2> QED
      BY <2>1, <2>2, SeqEqual
  <1>5. n = Len(a) => u = a
    BY <1>2, SeqEqual
  <1>6. Cut(a) = u
    BY DEF Cut, u, n
  <1> QED
    BY <1>1, <1>2, <1>3, <1>4, <1>5, <1>6 DEF Texts

\* How two texts share the room of q.
LEMMA RoomShared ==
    ASSUME NEW x \in Nat, NEW y \in Nat, NEW q \in Nat
    PROVE  /\ Min2(x, q) \in 0..x /\ Min2(y, q - Min2(x, q)) \in 0..y
           /\ Min2(x + y, q) = Min2(x, q) + Min2(y, q - Min2(x, q))
           /\ (Min2(y, q - Min2(x, q)) = 0 \/ Min2(x, q) = x)
  <1>1. CASE x <= q
    <2>1. Min2(x, q) = x
      BY <1>1 DEF Min2
    <2>2. Min2(x + y, q) = x + Min2(y, q - x) /\ Min2(y, q - x) \in 0..y
      BY <1>1 DEF Min2
    <2> QED
      BY <2>1, <2>2
  <1>2. CASE ~(x <= q)
    <2>1. Min2(x, q) = q /\ Min2(x + y, q) = q
      BY <1>2 DEF Min2
    <2>2. Min2(y, 0) = 0
      BY DEF Min2
    <2>3. q \in 0..x /\ q - q = 0 /\ 0 \in 0..y /\ q + 0 = q
      BY <1>2
    <2> QED
      BY <2>1, <2>2, <2>3
  <1> QED
    BY <1>1, <1>2

\* What is put behind the start of a text is the start of a longer one.
LEMMA CutPut ==
    ASSUME NEW a \in Seq(Char), NEW s \in Seq(Char)
    PROVE  PutString(Cut(a), s) = Cut(a \o s)
  <1> DEFINE R == ThreadCap - 2
             n == Min2(Len(a), R)
             c == SubSeq(a, 1, n)
             m == Min2(Len(s), R - n)
             u == SubSeq(s, 1, m)
             t == a \o s
             k == Min2(Len(t), R)
             w == SubSeq(t, 1, k)
  <1>1. R \in Nat /\ Len(a) \in Nat /\ Len(s) \in Nat
    BY BufferAssumption
  <1>2. t \in Seq(Char) /\ Len(t) = Len(a) + Len(s)
    OBVIOUS
  <1>3. /\ \A i \in 1..Len(a) : t[i] = a[i]
        /\ \A i \in 1..Len(s) : t[Len(a) + i] = s[i]
    BY Joined
  <1> HIDE DEF R, t
  <1>4. /\ n \in 0..Len(a) /\ m \in 0..Len(s) /\ k \in 0..Len(t) /\ k = n + m
        /\ (m = 0 \/ n = Len(a))
    <2>1. /\ n \in 0..Len(a) /\ m \in 0..Len(s) /\ k = n + m
          /\ (m = 0 \/ n = Len(a))
      <3>1. k = Min2(Len(a) + Len(s), R)
        BY <1>2
      <3> HIDE DEF k
      <3> QED
        BY <1>1, <3>1, RoomShared
    <2> HIDE DEF n, m
    <2> QED
      BY <1>1, <1>2, <2>1 DEF Min2
  <1> HIDE DEF n, m, k
  <1>5. c \in Seq(Char) /\ Len(c) = n /\ \A i \in 1..n : c[i] = a[i]
    BY <1>4
  <1>6. u \in Seq(Char) /\ Len(u) = m /\ \A i \in 1..m : u[i] = s[i]
    BY <1>4
  <1>7. w \in Seq(Char) /\ Len(w) = k /\ \A i \in 1..k : w[i] = t[i]
    BY <1>2, <1>4
  <1> HIDE DEF c, u, w
  <1>8. /\ c \o u \in Seq(Char) /\ Len(c \o u) = k
        /\ \A i \in 1..n : (c \o u)[i] = c[i]
        /\ \A i \in 1..m : (c \o u)[n + i] = u[i]
    <2>1. n \in Nat /\ m \in Nat /\ k = n + m
      BY <1>1, <1>4
    <2>2. /\ c \o u \in Seq(Char) /\ Len(c \o u) = Len(c) + Len(u)
          /\ \A i \in 1..Len(c) : (c \o u)[i] = c[i]
          /\ \A i \in 1..Len(u) : (c \o u)[Len(c) + i] = u[i]
      <3>1. c \in Seq(Char) /\ u \in Seq(Char)
        BY <1>5, <1>6
      <3> QED
        BY <3>1
    <2> DEFINE j == c \o u
    <2>3. /\ j \in Seq(Char) /\ Len(j) = k
          /\ \A i \in 1..n : j[i] = c[i]
          /\ \A i \in 1..m : j[n + i] = u[i]
      <3> HIDE DEF j
      <3>1. Len(c) = n /\ Len(u) = m
        BY <1>5, <1>6
      <3>2. /\ j \in Seq(Char) /\ Len(j) = Len(c) + Len(u)
            /\ \A i \in 1..Len(c) : j[i] = c[i]
            /\ \A i \in 1..Len(u) : j[Len(c) + i] = u[i]
        BY <2>2 DEF j
      <3> QED
        BY <2>1, <3>1, <3>2
    <2> QED
      BY <2>3
  <1>9. ASSUME NEW i \in 1..k
        PROVE  (c \o u)[i] = w[i]
    <2>1. CASE i <= n
      <3>1. i \in 1..n /\ i \in 1..Len(a)
        BY <1>1, <1>4, <2>1
      <3>2. (c \o u)[i] = a[i]
        BY <1>5, <1>8, <3>1
      <3> QED
        BY <1>3, <1>7, <3>1, <3>2
    <2>2. CASE ~(i <= n)
      <3>1. i - n \in 1..m /\ n + (i - n) = i /\ n = Len(a)
        BY <1>4, <2>2
      <3>2. (c \o u)[i] = u[i - n] /\ u[i - n] = s[i - n]
        BY <1>6, <1>8, <3>1
      <3>3. i - n \in 1..Len(s) /\ t[i] = s[i - n]
        BY <1>3, <1>4, <3>1
      <3> QED
        BY <1>7, <3>2, <3>3
    <2> QED
      BY <2>1, <2>2
  <1>10. c \o u = w
    BY <1>7, <1>8, <1>9, SeqEqual
  <1>11. Cut(a) = c /\ Cut(t) = w
    BY DEF Cut, c, w, n, k, R
  <1>12. PutString(c, s) = c \o u
    BY <1>5 DEF PutString, RoomLeft, u, m, R
  <1> QED
    BY <1>10, <1>11, <1>12 DEF t

-----------------------------------------------------------------------------
(* gdb's reader.                                                           *)

Letters  == Char \cup DOMAIN Entities
Elements == [Fields -> Seq(Letters)]
Places   == Fields \cup {"start", "list", "end", "wrong"}
Readers  == [place : Places, held : {"none", "&"} \cup EntityNames,
             element : Elements, got : Seq(Elements)]

\* The names of the entities are different.
LEMMA EntityFacts ==
    /\ EntityNames = {"lt", "gt", "amp", "quot", "apos"}
    /\ DOMAIN Entities = {"<", ">", "&", Quote, "'"}
    /\ \A c \in DOMAIN Entities : Entities[c] \in EntityNames /\ Meant(Entities[c]) = c
    /\ \A name \in EntityNames : Meant(name) \in DOMAIN Entities
  <1>1. DOMAIN Entities = {"<", ">", "&", Quote, "'"}
    BY DEF Entities
  <1>2. /\ Entities["<"] = "lt" /\ Entities[">"] = "gt" /\ Entities["&"] = "amp"
        /\ Entities[Quote] = "quot" /\ Entities["'"] = "apos"
    BY DEF Entities, Quote
  <1>3. EntityNames = {"lt", "gt", "amp", "quot", "apos"}
    <2>1. EntityNames = {Entities[c] : c \in DOMAIN Entities}
      BY DEF EntityNames, Range
    <2> HIDE DEF EntityNames
    <2> QED
      BY <1>1, <1>2, <2>1
  <1>4. ASSUME NEW c \in DOMAIN Entities, NEW d \in DOMAIN Entities, Entities[c] = Entities[d]
        PROVE  c = d
    BY <1>1, <1>2, <1>4
  <1>5. \A c \in DOMAIN Entities : Entities[c] \in EntityNames
    BY DEF EntityNames, Range
  <1>6. ASSUME NEW name \in EntityNames
        PROVE  Meant(name) \in DOMAIN Entities /\ Entities[Meant(name)] = name
    <2>1. \E c \in DOMAIN Entities : Entities[c] = name
      BY DEF EntityNames, Range
    <2> QED
      BY <2>1 DEF Meant
  <1> QED
    BY <1>1, <1>3, <1>4, <1>5, <1>6

\* The reader at the start.
LEMMA StartTypes == NoElement \in Elements /\ NothingRead \in Readers
  <1>1. NoElement \in Elements
    <2>1. << >> \in Seq(Letters)
      OBVIOUS
    <2> QED
      BY <2>1 DEF NoElement, Elements
  <1>2. << >> \in Seq(Elements)
    OBVIOUS
  <1> HIDE DEF NoElement, Elements
  <1> QED
    BY <1>1, <1>2 DEF NothingRead, Readers, Places

\* A character that belongs to the element.
LEMMA TookTypes ==
    ASSUME NEW r \in Readers, r.place \in Fields, NEW c \in Letters
    PROVE  Took(r, c) \in Readers
  <1> DEFINE e == [r.element EXCEPT ![r.place] = Append(@, c)]
  <1>1. e \in Elements
    <2>1. r.element \in [Fields -> Seq(Letters)]
      BY DEF Readers, Elements
    <2>2. Append(r.element[r.place], c) \in Seq(Letters)
      BY <2>1
    <2> QED
      BY <2>1, <2>2 DEF Elements
  <1>2. Took(r, c) = [r EXCEPT !.held = "none", !.element = e]
    BY DEF Took
  <1> HIDE DEF e
  <1> QED
    BY <1>1, <1>2 DEF Readers

\* The reader stays a reader.
LEMMA ReadCharTypes ==
    ASSUME NEW r \in Readers, NEW c \in Char
    PROVE  ReadChar(r, c) \in Readers
  <1>1. CASE c \in Markup
    <2> DEFINE p == IF r.held = "none" THEN LedTo(r.place, c) ELSE "wrong"
               e == IF p = "id" THEN NoElement ELSE r.element
               g == IF p = "list" /\ c = "</thread>" THEN Append(r.got, r.element) ELSE r.got
    <2>1. p \in Places
      BY DEF LedTo, Places, Fields
    <2>2. e \in Elements
      BY StartTypes DEF Readers
    <2>3. g \in Seq(Elements)
      <3>1. r.got \in Seq(Elements) /\ r.element \in Elements
        BY DEF Readers
      <3> QED
        BY <3>1
    <2>4. ReadChar(r, c) = [r EXCEPT !.place = p, !.element = e, !.got = g]
      BY <1>1, Zenon DEF ReadChar, ReadMarkup
    <2> HIDE DEF p, e, g
    <2> QED
      BY <2>1, <2>2, <2>3, <2>4 DEF Readers
  <1>2. CASE c \notin Markup
    <2>1. Lost(r) \in Readers
      BY DEF Lost, Readers, Places
    <2>2. CASE r.place \notin Fields
      BY <1>2, <2>1, <2>2 DEF ReadChar, ReadText
    <2>3. CASE r.place \in Fields
      <3>1. Took(r, c) \in Readers
        BY <2>3, TookTypes DEF Letters
      <3>2. r.held \in EntityNames => Took(r, Meant(r.held)) \in Readers
        BY <2>3, TookTypes, EntityFacts DEF Letters
      <3>3. [r EXCEPT !.held = "&"] \in Readers
        BY DEF Readers
      <3>4. c \in EntityNames => [r EXCEPT !.held = c] \in Readers
        BY DEF Readers
      <3>5. ReadChar(r, c) \in {Lost(r), Took(r, c), [r EXCEPT !.held = "&"]}
            \/ (c \in EntityNames /\ ReadChar(r, c) = [r EXCEPT !.held = c])
            \/ (r.held \in EntityNames /\ ReadChar(r, c) = Took(r, Meant(r.held)))
        <4>1. ReadChar(r, c) = ReadText(r, c)
          BY <1>2 DEF ReadChar
        <4>2. \/ ReadText(r, c) \in {Lost(r), Took(r, c), [r EXCEPT !.held = "&"]}
              \/ c \in EntityNames /\ ReadText(r, c) = [r EXCEPT !.held = c]
              \/ r.held \in EntityNames /\ ReadText(r, c) = Took(r, Meant(r.held))
          BY <2>3 DEF ReadText
        <4> QED
          BY <4>1, <4>2
      <3> QED
        BY <2>1, <3>1, <3>2, <3>3, <3>4, <3>5, Zenon
    <2> QED
      BY <2>2, <2>3
  <1> QED
    BY <1>1, <1>2

\* The reader after each character of a text.
LEMMA ReadingSteps ==
    ASSUME NEW r \in Readers, NEW text \in Seq(Char)
    PROVE  /\ Readings(r, text)[0] = r
           /\ \A i \in 1..Len(text) :
                 Readings(r, text)[i] = ReadChar(Readings(r, text)[i - 1], text[i])
           /\ \A i \in 0..Len(text) : Readings(r, text)[i] \in Readers
  <1> DEFINE N == Len(text)
             F == [q \in (1..N) \X Readers |-> ReadChar(q[2], text[q[1]])]
             Body(f) == [i \in 0..N |-> IF i = 0 THEN r ELSE ReadChar(f[i - 1], text[i])]
  <1>1. N \in Nat /\ \A i \in 1..N : text[i] \in Char
    OBVIOUS
  <1> HIDE DEF N
  <1>2. F \in [(1..N) \X Readers -> Readers]
    BY <1>1, ReadCharTypes
  <1>3. PICK g : g \in [0..N -> Readers] /\ g[0] = r /\ \A i \in 1..N : g[i] = F[<<i, g[i - 1]>>]
    <2> HIDE DEF F
    <2>1. PICK g : Solves(g, N, Readers, r, F)
      BY <1>1, <1>2, RecursionSolved
    <2> QED
      BY <2>1 DEF Solves
  <1>4. \A i \in 1..N : g[i] = ReadChar(g[i - 1], text[i])
    <2> SUFFICES ASSUME NEW i \in 1..N PROVE g[i] = ReadChar(g[i - 1], text[i])
      OBVIOUS
    <2>1. <<i, g[i - 1]>> \in (1..N) \X Readers
      BY <1>1, <1>3
    <2> QED
      BY <1>3, <2>1
  <1>5. g = Body(g)
    <2>1. ASSUME NEW i \in 0..N
          PROVE  g[i] = IF i = 0 THEN r ELSE ReadChar(g[i - 1], text[i])
      <3>1. CASE i = 0
        BY <1>3, <3>1, Zenon
      <3>2. CASE i # 0
        <4>1. i \in 1..N
          BY <1>1, <3>2
        <4> QED
          BY <1>4, <3>2, <4>1, Zenon
      <3> QED
        BY <3>1, <3>2
    <2>2. g = [i \in 0..N |-> g[i]]
      BY <1>3
    <2> QED
      BY <2>1, <2>2, Zenon
  <1> DEFINE E == Readings(r, text)
  <1>6. E = CHOOSE f : f = Body(f)
    BY DEF Readings, N
  <1> HIDE DEF E
  <1>7. E = Body(E)
    <2> HIDE DEF Body
    <2> QED
      BY <1>5, <1>6
  <1>8. \A i \in 0..N : E[i] = IF i = 0 THEN r ELSE ReadChar(E[i - 1], text[i])
    <2>1. \A i \in 0..N : Body(E)[i] = IF i = 0 THEN r ELSE ReadChar(E[i - 1], text[i])
      BY Zenon
    <2> HIDE DEF Body
    <2> QED
      BY <1>7, <2>1, Zenon
  <1>9. E[0] = r /\ \A i \in 1..N : E[i] = ReadChar(E[i - 1], text[i])
    <2>1. 0 \in 0..N /\ \A i \in 1..N : i \in 0..N /\ i # 0
      BY <1>1
    <2> QED
      BY <1>8, <2>1, Zenon
  <1>10. \A i \in 0..N : E[i] \in Readers
    <2>1. E[0] \in Readers /\ \A i \in 1..N : E[i - 1] \in Readers => E[i] \in Readers
      BY <1>1, <1>9, ReadCharTypes
    <2> QED
      BY <1>1, <2>1, StaysIn
  <1> QED
    BY <1>9, <1>10 DEF E, N

\* What is read of a text that is joined from two.
LEMMA ReadJoined ==
    ASSUME NEW r \in Readers, NEW a \in Seq(Char), NEW b \in Seq(Char)
    PROVE  Read(r, a) \in Readers /\ Read(r, a \o b) = Read(Read(r, a), b)
  <1> DEFINE t == a \o b
             G == Readings(r, t)
             A == Readings(r, a)
             q == A[Len(a)]
             B == Readings(q, b)
             m == Len(a)
             n == Len(b)
  <1>1. t \in Seq(Char) /\ Len(t) = m + n /\ m \in Nat /\ n \in Nat
    OBVIOUS
  <1>2. /\ \A i \in 1..m : t[i] = a[i]
        /\ \A i \in 1..n : t[m + i] = b[i]
    BY Joined
  <1>3. /\ A[0] = r /\ q \in Readers
        /\ \A i \in 1..m : A[i] = ReadChar(A[i - 1], a[i])
    <2>1. m \in 0..m
      BY <1>1
    <2> QED
      BY <2>1, ReadingSteps
  <1> HIDE DEF t
  <1>4. G[0] = r /\ \A i \in 1 .. m + n : G[i] = ReadChar(G[i - 1], t[i])
    BY <1>1, ReadingSteps
  <1> HIDE DEF q
  <1>5. B[0] = q /\ \A i \in 1..n : B[i] = ReadChar(B[i - 1], b[i])
    BY <1>3, ReadingSteps
  <1> HIDE DEF G, A, B, m, n
  <1>6. G[m] = A[m]
    <2> DEFINE T == {i \in Nat : i <= m => G[i] = A[i]}
    <2>1. 0 \in T
      BY <1>3, <1>4
    <2>2. ASSUME NEW i \in T PROVE i + 1 \in T
      <3>1. i \in Nat /\ i + 1 \in Nat /\ (i + 1) - 1 = i
        OBVIOUS
      <3>2. CASE i + 1 <= m
        <4>1. i + 1 \in 1..m /\ i + 1 \in 1 .. m + n /\ G[i] = A[i]
          BY <1>1, <3>1, <3>2
        <4>2. /\ G[i + 1] = ReadChar(G[i], t[i + 1]) /\ A[i + 1] = ReadChar(A[i], a[i + 1])
              /\ t[i + 1] = a[i + 1]
          BY <1>2, <1>3, <1>4, <3>1, <4>1, Zenon
        <4> QED
          BY <3>1, <4>1, <4>2
      <3>3. CASE ~(i + 1 <= m)
        BY <3>1, <3>3
      <3> QED
        BY <3>2, <3>3
    <2>3. T = Nat
      <3>1. T \in SUBSET Nat
        OBVIOUS
      <3> HIDE DEF T
      <3> QED
        BY <2>1, <2>2, <3>1, NatSets
    <2> QED
      BY <1>1, <2>3
  <1>7. G[m + n] = B[n]
    <2> DEFINE T == {i \in Nat : i <= n => G[m + i] = B[i]}
    <2>1. 0 \in T
      <3>1. m + 0 = m /\ B[0] = A[m]
        BY <1>1, <1>5 DEF q, m
      <3> QED
        BY <1>6, <3>1
    <2>2. ASSUME NEW i \in T PROVE i + 1 \in T
      <3>1. i \in Nat /\ i + 1 \in Nat /\ (i + 1) - 1 = i /\ (m + (i + 1)) - 1 = m + i
        BY <1>1
      <3>2. CASE i + 1 <= n
        <4>1. i + 1 \in 1..n /\ m + (i + 1) \in 1 .. m + n /\ G[m + i] = B[i]
          BY <1>1, <3>1, <3>2
        <4>2. G[m + (i + 1)] = ReadChar(G[m + i], t[m + (i + 1)])
          BY <1>4, <3>1, <4>1, Zenon
        <4>3. B[i + 1] = ReadChar(B[i], b[i + 1]) /\ t[m + (i + 1)] = b[i + 1]
          BY <1>2, <1>5, <3>1, <4>1, Zenon
        <4> QED
          BY <3>1, <4>1, <4>2, <4>3
      <3>3. CASE ~(i + 1 <= n)
        BY <3>1, <3>3
      <3> QED
        BY <3>2, <3>3
    <2>3. T = Nat
      <3>1. T \in SUBSET Nat
        OBVIOUS
      <3> HIDE DEF T
      <3> QED
        BY <2>1, <2>2, <3>1, NatSets
    <2> QED
      BY <1>1, <2>3
  <1>8. Read(r, a) = q /\ Read(q, b) = B[n] /\ Read(r, t) = G[m + n]
    BY <1>1 DEF Read, q, A, B, G, m, n
  <1> QED
    BY <1>3, <1>7, <1>8 DEF t

\* One character.
LEMMA ReadOne ==
    ASSUME NEW r \in Readers, NEW c \in Char
    PROVE  Read(r, <<c>>) = ReadChar(r, c) /\ Read(r, << >>) = r
  <1>1. << >> \in Seq(Char) /\ Len(<< >>) = 0
    OBVIOUS
  <1>2. Read(r, << >>) = r
    BY <1>1, ReadingSteps DEF Read
  <1> DEFINE s == <<c>>
  <1>3. s \in Seq(Char) /\ Len(s) = 1 /\ s[1] = c
    OBVIOUS
  <1> HIDE DEF s
  <1>4. Readings(r, s)[1] = ReadChar(Readings(r, s)[0], s[1]) /\ Readings(r, s)[0] = r
    <2>1. 1 \in 1..Len(s) /\ 1 - 1 = 0
      BY <1>3
    <2>2. /\ Readings(r, s)[0] = r
          /\ \A i \in 1..Len(s) : Readings(r, s)[i] = ReadChar(Readings(r, s)[i - 1], s[i])
      BY <1>3, ReadingSteps, Zenon
    <2> DEFINE E == Readings(r, s)
    <2>3. E[1] = ReadChar(E[1 - 1], s[1])
      BY <2>1, <2>2, Zenon
    <2> QED
      BY <2>1, <2>2, <2>3, Zenon
  <1>5. Read(r, s) = ReadChar(r, c)
    BY <1>3, <1>4 DEF Read
  <1> QED
    BY <1>2, <1>5 DEF s

\* The elements that were read stay.
LEMMA ReadGrows ==
    ASSUME NEW r \in Readers, NEW text \in Seq(Char)
    PROVE  IsPrefix(r.got, Read(r, text).got)
  <1> DEFINE X == {q \in Readers : IsPrefix(r.got, q.got)}
             E == Readings(r, text)
  <1>1. r \in X
    <2>1. r.got \in Seq(Elements)
      BY DEF Readers
    <2>2. \A g \in Seq(Elements) : IsPrefix(g, g)
      BY DEF IsPrefix
    <2> QED
      BY <2>1, <2>2
  <1>2. ASSUME NEW q \in X, NEW c \in Char
        PROVE  ReadChar(q, c) \in X
    <2>1. /\ q \in Readers /\ r.got \in Seq(Elements) /\ q.got \in Seq(Elements)
          /\ q.element \in Elements /\ IsPrefix(r.got, q.got)
      BY DEF Readers
    <2>2. ReadChar(q, c).got \in {q.got, Append(q.got, q.element)}
      <3>1. CASE c \in Markup
        BY <2>1, <3>1 DEF ReadChar, ReadMarkup, Readers
      <3>2. CASE c \notin Markup
        BY <2>1, <3>2 DEF ReadChar, ReadText, Took, Lost, Readers
      <3> QED
        BY <3>1, <3>2
    <2>3. \A g, h \in Seq(Elements), e \in Elements : IsPrefix(g, h) => IsPrefix(g, Append(h, e))
      BY DEF IsPrefix
    <2> QED
      BY <2>1, <2>2, <2>3, ReadCharTypes
  <1>3. E[0] = r /\ \A i \in 1..Len(text) : E[i] = ReadChar(E[i - 1], text[i])
    BY ReadingSteps
  <1> HIDE DEF X, E
  <1>4. \A i \in 0..Len(text) : E[i] \in X
    <2>1. E[0] \in X /\ \A i \in 1..Len(text) : E[i - 1] \in X => E[i] \in X
      <3>1. \A i \in 1..Len(text) : text[i] \in Char
        OBVIOUS
      <3> QED
        BY <1>1, <1>2, <1>3, <3>1, Zenon
    <2>2. Len(text) \in Nat
      OBVIOUS
    <2> QED
      BY <2>1, <2>2, StaysIn
  <1>5. Read(r, text) \in X
    BY <1>4 DEF Read, E
  <1> QED
    BY <1>5 DEF X

\* A reader between characters, and an element with more of a text.
At(p, e, g) == [place |-> p, held |-> "none", element |-> e, got |-> g]
More(e, p, s) == [e EXCEPT ![p] = @ \o s]

\* Both are what they are to be.
LEMMA AtTypes ==
    ASSUME NEW p \in Places, NEW e \in Elements, NEW g \in Seq(Elements)
    PROVE  /\ At(p, e, g) \in Readers
           /\ At(p, e, g).place = p /\ At(p, e, g).held = "none"
           /\ At(p, e, g).element = e /\ At(p, e, g).got = g
  BY DEF At, Readers

\* More of a text, and still more.
LEMMA MoreTypes ==
    ASSUME NEW e \in Elements, NEW p \in Fields, NEW s \in Seq(Letters), NEW t \in Seq(Letters)
    PROVE  /\ More(e, p, s) \in Elements
           /\ More(More(e, p, s), p, t) = More(e, p, s \o t)
           /\ More(e, p, << >>) = e
  <1>1. e \in [Fields -> Seq(Letters)] /\ e[p] \in Seq(Letters)
    BY DEF Elements
  <1>2. /\ e[p] \o s \in Seq(Letters) /\ (e[p] \o s) \o t = e[p] \o (s \o t)
        /\ e[p] \o << >> = e[p]
    BY <1>1, ConcatAssociative, ConcatEmptySeq
  <1>3. More(e, p, s) \in Elements
    BY <1>1, <1>2 DEF More, Elements
  <1>4. More(More(e, p, s), p, t) = [e EXCEPT ![p] = (e[p] \o s) \o t]
    BY <1>1 DEF More
  <1>5. More(e, p, << >>) = e
    BY <1>1, <1>2 DEF More
  <1>6. More(e, p, s \o t) = [e EXCEPT ![p] = e[p] \o (s \o t)]
    BY DEF More
  <1> QED
    BY <1>2, <1>3, <1>4, <1>5, <1>6

\* What a character of a text does.
LEMMA TextSteps ==
    ASSUME NEW r, r.place \in Fields, NEW c, c \notin Markup
    PROVE  /\ r.held = "none" /\ c = "&" => ReadChar(r, c) = [r EXCEPT !.held = "&"]
           /\ r.held = "none" /\ c \notin {"&", "<", Quote} => ReadChar(r, c) = Took(r, c)
           /\ r.held = "&" /\ c \in EntityNames => ReadChar(r, c) = [r EXCEPT !.held = c]
           /\ r.held \in EntityNames /\ c = Semicolon => ReadChar(r, c) = Took(r, Meant(r.held))
  <1> DEFINE A == [r EXCEPT !.held = "&"]
             B == [r EXCEPT !.held = c]
             T == Took(r, c)
             M == Took(r, Meant(r.held))
             L == Lost(r)
             X == ReadChar(r, c)
             h == r.held
  <1>1. X = CASE h = "none" /\ c = "&"                    -> A
              [] h = "none" /\ c \notin {"&", "<", Quote} -> T
              [] h = "&" /\ c \in EntityNames             -> B
              [] h \in EntityNames /\ c = Semicolon       -> M
              [] OTHER                                    -> L
    BY Zenon DEF ReadChar, ReadText
  <1> HIDE DEF A, B, T, M, L, X, h
  <1>2. /\ h = "none" /\ c = "&" => X = A
        /\ h = "none" /\ c \notin {"&", "<", Quote} => X = T
        /\ h = "&" /\ c \in EntityNames => X = B
        /\ h \in EntityNames /\ c = Semicolon => X = M
    BY <1>1, EntityFacts
  <1> QED
    BY <1>2 DEF A, B, T, M, X, h

\* A character that is taken, whatever was held.
LEMMA TookAt ==
    ASSUME NEW p \in Fields, NEW e \in Elements, NEW g, NEW h, NEW c \in Letters
    PROVE  Took([place |-> p, held |-> h, element |-> e, got |-> g], c)
               = At(p, More(e, p, <<c>>), g)
  <1> DEFINE r == [place |-> p, held |-> h, element |-> e, got |-> g]
             x == [e EXCEPT ![p] = Append(e[p], c)]
  <1>1. r.place = p /\ r.element = e
    OBVIOUS
  <1>2. Took(r, c) = [r EXCEPT !.held = "none", !.element = x]
    BY <1>1 DEF Took
  <1>3. x = More(e, p, <<c>>)
    <2>1. e[p] \in Seq(Letters)
      BY DEF Elements
    <2>2. Append(e[p], c) = e[p] \o <<c>>
      BY <2>1, AppendIsConcat
    <2> QED
      BY <2>2 DEF More
  <1> HIDE DEF x
  <1>4. [r EXCEPT !.held = "none"] = [place |-> p, held |-> "none", element |-> e, got |-> g]
    OBVIOUS
  <1>5. [[r EXCEPT !.held = "none"] EXCEPT !.element = x] = At(p, x, g)
    <2>1. [[place |-> p, held |-> "none", element |-> e, got |-> g] EXCEPT !.element = x]
              = [place |-> p, held |-> "none", element |-> x, got |-> g]
      OBVIOUS
    <2> QED
      BY <1>4, <2>1, Zenon DEF At
  <1>6. [r EXCEPT !.held = "none", !.element = x] = [[r EXCEPT !.held = "none"] EXCEPT !.element = x]
    OBVIOUS
  <1> QED
    BY <1>2, <1>3, <1>5, <1>6

\* gdb reads a character of a text back from what is written for it.
LEMMA EntityRead ==
    ASSUME NEW p \in Fields, NEW e \in Elements, NEW g \in Seq(Elements), NEW c \in Plain
    PROVE  Read(At(p, e, g), Entity(c)) = At(p, More(e, p, <<c>>), g)
  <1> DEFINE H(x) == [place |-> p, held |-> x, element |-> e, got |-> g]
             n == Entities[c]
  <1>1. /\ c \in Char /\ c \notin Markup /\ c \in Letters
        /\ {"&", Semicolon} \cup EntityNames \subseteq Char
        /\ \A x \in {"&", Semicolon} \cup EntityNames : x \notin Markup
    <2>1. {"&", Semicolon} \cup EntityNames \subseteq Pieces
      BY EntityFacts DEF Pieces
    <2>2. \A x \in {"&", Semicolon} \cup EntityNames : x \notin Markup
      BY EntityFacts DEF Markup, Closing, Semicolon
    <2> QED
      BY <2>1, <2>2, CharAssumption DEF Plain, Letters
  <1>2. ASSUME NEW x \in {"none", "&"} \cup EntityNames
        PROVE  /\ H(x) \in Readers /\ H(x).place = p /\ H(x).held = x
               /\ Took(H(x), c) = At(p, More(e, p, <<c>>), g)
               /\ \A y : [H(x) EXCEPT !.held = y] = H(y)
    BY <1>1, TookAt DEF Readers, Places
  <1> HIDE DEF H
  <1>3. CASE c \notin DOMAIN Entities
    <2>1. c \notin {"&", "<", Quote}
      BY <1>3, EntityFacts
    <2>2. ReadChar(H("none"), c) = Took(H("none"), c)
      BY <1>1, <1>2, <2>1, TextSteps
    <2>3. Read(H("none"), <<c>>) = ReadChar(H("none"), c)
      BY <1>1, <1>2, ReadOne
    <2> QED
      BY <1>2, <1>3, <2>2, <2>3 DEF Entity, H, At
  <1>4. CASE c \in DOMAIN Entities
    <2>1. n \in EntityNames /\ Meant(n) = c
      BY <1>4, EntityFacts
    <2>2. n \in Char /\ n \notin Markup /\ "&" \in Char /\ Semicolon \in Char
      BY <1>1, <2>1
    <2>3. Entity(c) = <<"&">> \o (<<n>> \o <<Semicolon>>)
      BY <1>4 DEF Entity
    <2> HIDE DEF n
    <2>4. ReadChar(H("none"), "&") = H("&")
      BY <1>1, <1>2, TextSteps
    <2>5. ReadChar(H("&"), n) = H(n)
      BY <1>1, <1>2, <2>1, <2>2, TextSteps
    <2>6. ReadChar(H(n), Semicolon) = Took(H(n), c)
      BY <1>1, <1>2, <2>1, TextSteps
    <2> DEFINE a == <<"&">>
               b == <<n>>
               d == <<Semicolon>>
    <2>7. a \in Seq(Char) /\ b \in Seq(Char) /\ d \in Seq(Char)
      BY <2>2
    <2>8. Read(H("none"), a) = H("&") /\ Read(H("&"), b) = H(n) /\ Read(H(n), d) = Took(H(n), c)
      BY <1>2, <2>1, <2>2, <2>4, <2>5, <2>6, ReadOne
    <2> HIDE DEF a, b, d
    <2>9. b \o d \in Seq(Char)
      BY <2>7
    <2>10. Read(H("none"), a \o (b \o d)) = Read(H("&"), b \o d)
      <3>1. H("none") \in Readers
        BY <1>2
      <3>2. Read(H("none"), a \o (b \o d)) = Read(Read(H("none"), a), b \o d)
        BY <2>7, <2>9, <3>1, ReadJoined
      <3> QED
        BY <2>8, <3>2
    <2>11. Read(H("&"), b \o d) = Took(H(n), c)
      BY <1>2, <2>7, <2>8, ReadJoined
    <2> QED
      BY <1>2, <2>1, <2>3, <2>10, <2>11 DEF a, b, d, H, At
  <1> QED
    BY <1>3, <1>4

\* What the markup does.
LEMMA MarkupRead ==
    ASSUME NEW p \in Places, NEW e \in Elements, NEW g \in Seq(Elements), NEW c \in Markup
    PROVE  Read(At(p, e, g), <<c>>) =
               LET q == LedTo(p, c)
               IN  At(q, IF q = "id" THEN NoElement ELSE e,
                         IF q = "list" /\ c = "</thread>" THEN Append(g, e) ELSE g)
  <1> DEFINE r == At(p, e, g)
             q == LedTo(p, c)
             f == IF q = "id" THEN NoElement ELSE e
             h == IF q = "list" /\ c = "</thread>" THEN Append(g, e) ELSE g
  <1>1. /\ r \in Readers /\ r.place = p /\ r.held = "none" /\ r.element = e /\ r.got = g
        /\ r = [place |-> p, held |-> "none", element |-> e, got |-> g]
    BY AtTypes DEF At
  <1> HIDE DEF r
  <1>2. ReadChar(r, c) = [r EXCEPT !.place = q, !.element = f, !.got = h]
    BY <1>1, Zenon DEF ReadChar, ReadMarkup
  <1> HIDE DEF q, f, h
  <1>3. [r EXCEPT !.place = q, !.element = f, !.got = h]
            = [place |-> q, held |-> "none", element |-> f, got |-> h]
    <2>1. [[place |-> p, held |-> "none", element |-> e, got |-> g] EXCEPT !.place = q]
              = [place |-> q, held |-> "none", element |-> e, got |-> g]
      OBVIOUS
    <2>2. [[place |-> q, held |-> "none", element |-> e, got |-> g] EXCEPT !.element = f]
              = [place |-> q, held |-> "none", element |-> f, got |-> g]
      OBVIOUS
    <2>3. [[place |-> q, held |-> "none", element |-> f, got |-> g] EXCEPT !.got = h]
              = [place |-> q, held |-> "none", element |-> f, got |-> h]
      OBVIOUS
    <2>4. [r EXCEPT !.place = q, !.element = f, !.got = h]
              = [[[r EXCEPT !.place = q] EXCEPT !.element = f] EXCEPT !.got = h]
      OBVIOUS
    <2> QED
      BY <1>1, <2>1, <2>2, <2>3, <2>4, Zenon
  <1>4. Read(r, <<c>>) = ReadChar(r, c)
    <2>1. c \in Char
      BY CharAssumption DEF Pieces
    <2> QED
      BY <1>1, <2>1, ReadOne
  <1>5. Read(r, <<c>>) = At(q, f, h)
    BY <1>2, <1>3, <1>4, Zenon DEF At
  <1> QED
    BY <1>5, Zenon DEF r, q, f, h

\* The way through a document.
LEMMA Ways ==
    /\ LedTo("start", "<threads>") = "list" /\ LedTo("list", "<thread") = "id"
    /\ LedTo("id", "core=") = "core"        /\ LedTo("core", "name=") = "name"
    /\ LedTo("name", Closing) = "info"      /\ LedTo("info", "</thread>") = "list"
    /\ LedTo("list", "</threads>") = "end"
  BY DEF LedTo, Closing

\* gdb reads a text back from what PutXMLEscapedString writes for it, in any
\* place and whatever it has read.
LEMMA EscapedRead ==
    ASSUME NEW a \in Seq(Char), NEW s \in Seq(Plain)
    PROVE  \E u \in Seq(Char) :
              /\ PutXMLEscapedString(Cut(a), s) = Cut(a \o u)
              /\ \A p \in Fields, e \in Elements, g \in Seq(Elements) :
                    Read(At(p, e, g), u) = At(p, More(e, p, s), g)
  <1> DEFINE E == Escaped(Cut(a), s)
             N == Len(s)
             Done(i, u) == /\ E[i] = Cut(a \o u)
                           /\ \A p \in Fields, e \in Elements, g \in Seq(Elements) :
                                 Read(At(p, e, g), u) = At(p, More(e, p, SubSeq(s, 1, i)), g)
             T == {i \in Nat : i <= N => \E u \in Seq(Char) : Done(i, u)}
  <1>1. /\ N \in Nat /\ s \in Seq(Char) /\ s \in Seq(Letters)
        /\ \A i \in 1..N : s[i] \in Plain /\ Entity(s[i]) \in Seq(Char)
    <2>1. s \in Seq(Char) /\ s \in Seq(Letters) /\ Plain \subseteq Char
      BY PlainTypes DEF Letters
    <2>2. \A i \in 1..N : s[i] \in Plain
      OBVIOUS
    <2> QED
      BY <2>1, <2>2, EntityTypes
  <1>2. E[0] = Cut(a) /\ \A i \in 1..N : E[i] = PutString(E[i - 1], Entity(s[i]))
    <2>1. Cut(a) \in Texts
      BY CutTypes
    <2> QED
      BY <1>1, <2>1, EscapedSteps
  <1> HIDE DEF E, N
  <1>3. 0 \in T
    <2>1. << >> \in Seq(Char) /\ a \o << >> = a
      BY ConcatEmptySeq
    <2>2. SubSeq(s, 1, 0) = << >>
      BY <1>1
    <2>3. ASSUME NEW p \in Fields, NEW e \in Elements, NEW g \in Seq(Elements)
          PROVE  Read(At(p, e, g), << >>) = At(p, More(e, p, << >>), g)
      <3>1. At(p, e, g) \in Readers
        BY AtTypes DEF Places
      <3>2. Read(At(p, e, g), << >>) = At(p, e, g)
        <4>1. "&" \in Char
          BY CharAssumption DEF Pieces
        <4> QED
          BY <3>1, <4>1, ReadOne
      <3>3. << >> \in Seq(Letters)
        OBVIOUS
      <3> QED
        BY <3>2, <3>3, MoreTypes
    <2>4. Done(0, << >>)
      BY <1>2, <2>1, <2>2, <2>3, Zenon
    <2> HIDE DEF Done
    <2> QED
      BY <2>1, <2>4
  <1>4. ASSUME NEW i \in T PROVE i + 1 \in T
    <2> SUFFICES ASSUME i + 1 <= N
                 PROVE  \E u \in Seq(Char) : Done(i + 1, u)
      OBVIOUS
    <2>1. i \in Nat /\ i <= N /\ i + 1 \in 1..N /\ (i + 1) - 1 = i
      BY <1>1
    <2>2. PICK u \in Seq(Char) : Done(i, u)
      BY <2>1
    <2> DEFINE c == s[i + 1]
               v == Entity(c)
               w == u \o v
    <2>3. c \in Plain /\ v \in Seq(Char)
      BY <1>1, <2>1
    <2>4. w \in Seq(Char) /\ a \o u \in Seq(Char)
      BY <2>2, <2>3
    <2>5. E[i + 1] = Cut(a \o w)
      <3>1. E[i + 1] = PutString(Cut(a \o u), v)
        BY <1>2, <2>1, <2>2
      <3>2. PutString(Cut(a \o u), v) = Cut((a \o u) \o v)
        BY <2>3, <2>4, CutPut
      <3>3. (a \o u) \o v = a \o w
        BY <2>2, <2>3, ConcatAssociative
      <3> QED
        BY <3>1, <3>2, <3>3
    <2>6. ASSUME NEW p \in Fields, NEW e \in Elements, NEW g \in Seq(Elements)
          PROVE  Read(At(p, e, g), w) = At(p, More(e, p, SubSeq(s, 1, i + 1)), g)
      <3> DEFINE x == SubSeq(s, 1, i)
                 f == More(e, p, x)
      <3>1. x \in Seq(Letters) /\ <<c>> \in Seq(Letters) /\ SubSeq(s, 1, i + 1) = x \o <<c>>
        <4>1. c \in Letters
          BY <2>3, PlainTypes DEF Letters
        <4>2. x \in Seq(Letters) /\ SubSeq(s, 1, i + 1) = Append(x, c)
          BY <1>1, <2>1 DEF N
        <4> HIDE DEF x, c
        <4>3. <<c>> \in Seq(Letters) /\ Append(x, c) = x \o <<c>>
          BY <4>1, <4>2, AppendIsConcat
        <4> QED
          BY <4>2, <4>3, Zenon
      <3>2. At(p, e, g) \in Readers
        BY AtTypes DEF Places
      <3> HIDE DEF x, c
      <3>3. f \in Elements /\ More(f, p, <<c>>) = More(e, p, x \o <<c>>)
        BY <3>1, MoreTypes
      <3>4. Read(At(p, e, g), u) = At(p, f, g)
        BY <2>2 DEF x
      <3>5. Read(At(p, e, g), w) = Read(Read(At(p, e, g), u), v)
        <4> HIDE DEF v
        <4> QED
          BY <2>2, <2>3, <3>2, ReadJoined
      <3> HIDE DEF f
      <3>6. Read(At(p, f, g), v) = At(p, More(f, p, <<c>>), g)
        BY <2>3, <3>3, EntityRead
      <3> QED
        BY <3>1, <3>3, <3>4, <3>5, <3>6 DEF x
    <2>7. Done(i + 1, w)
      BY <2>5, <2>6, Zenon
    <2> HIDE DEF Done, w
    <2> QED
      BY <2>4, <2>7
  <1>5. T = Nat
    <2>1. T \in SUBSET Nat
      OBVIOUS
    <2> HIDE DEF T
    <2> QED
      BY <1>3, <1>4, <2>1, NatSets
  <1>6. PICK u \in Seq(Char) : Done(N, u)
    <2> HIDE DEF Done
    <2>1. N \in T /\ N <= N
      <3> HIDE DEF T
      <3> QED
        BY <1>1, <1>5
    <2> QED
      BY <2>1, Zenon
  <1>7. SubSeq(s, 1, N) = s
    BY <1>1 DEF N
  <1> QED
    BY <1>6, <1>7 DEF PutXMLEscapedString, E, N

\* What is read and written behind a text that is joined from two.
LEMMA Behind ==
    ASSUME NEW a \in Seq(Char), NEW x \in Seq(Char), NEW y \in Seq(Char), NEW r \in Readers
    PROVE  /\ a \o x \in Seq(Char) /\ x \o y \in Seq(Char)
           /\ (a \o x) \o y = a \o (x \o y)
           /\ PutString(Cut(a \o x), y) = Cut(a \o (x \o y))
           /\ Read(r, x \o y) = Read(Read(r, x), y)
  <1>1. a \o x \in Seq(Char) /\ x \o y \in Seq(Char)
    OBVIOUS
  <1>2. (a \o x) \o y = a \o (x \o y)
    BY ConcatAssociative
  <1>3. PutString(Cut(a \o x), y) = Cut((a \o x) \o y)
    BY <1>1, CutPut
  <1> QED
    BY <1>1, <1>2, <1>3, ReadJoined

\* An element of the four texts.
LEMMA ElementBuilt ==
    ASSUME NEW a \in Seq(Letters), NEW b \in Seq(Letters), NEW c \in Seq(Letters),
           NEW d \in Seq(Letters)
    PROVE  /\ [id |-> a, core |-> b, name |-> c, info |-> d] \in Elements
           /\ More(More(More(More(NoElement, "id", a), "core", b), "name", c), "info", d)
                  = [id |-> a, core |-> b, name |-> c, info |-> d]
  <1> DEFINE e1 == More(NoElement, "id", a)
             e2 == More(e1, "core", b)
             e3 == More(e2, "name", c)
             e4 == More(e3, "info", d)
             D  == [id |-> a, core |-> b, name |-> c, info |-> d]
             n  == << >>
  <1>1. /\ n \in Seq(Letters)
        /\ n \o a = a /\ n \o b = b /\ n \o c = c /\ n \o d = d
    BY ConcatEmptySeq
  <1>2. NoElement = [field \in Fields |-> n]
    BY DEF NoElement
  <1> HIDE DEF n
  <1>3. /\ e1 \in [Fields -> Seq(Letters)]
        /\ e1["id"] = a /\ e1["core"] = n /\ e1["name"] = n /\ e1["info"] = n
    BY <1>1, <1>2 DEF More, Fields
  <1> HIDE DEF e1
  <1>4. /\ e2 \in [Fields -> Seq(Letters)]
        /\ e2["id"] = a /\ e2["core"] = b /\ e2["name"] = n /\ e2["info"] = n
    BY <1>1, <1>3 DEF More, Fields
  <1> HIDE DEF e2
  <1>5. /\ e3 \in [Fields -> Seq(Letters)]
        /\ e3["id"] = a /\ e3["core"] = b /\ e3["name"] = c /\ e3["info"] = n
    BY <1>1, <1>4 DEF More, Fields
  <1> HIDE DEF e3
  <1>6. /\ e4 \in [Fields -> Seq(Letters)]
        /\ e4["id"] = a /\ e4["core"] = b /\ e4["name"] = c /\ e4["info"] = d
    BY <1>1, <1>5 DEF More, Fields
  <1> HIDE DEF e4
  <1>7. /\ D \in [Fields -> Seq(Letters)]
        /\ D["id"] = a /\ D["core"] = b /\ D["name"] = c /\ D["info"] = d
    BY DEF Fields
  <1> HIDE DEF D
  <1>8. e4 = D
    <2>1. \A x \in Fields : e4[x] = D[x]
      BY <1>6, <1>7 DEF Fields
    <2> QED
      BY <1>6, <1>7, <2>1
  <1> QED
    BY <1>7, <1>8 DEF D, e4, e3, e2, e1, Elements

\* A character in front of a text.
LEMMA InFront ==
    ASSUME NEW a \in Seq(Char), NEW s \in Seq(Char)
    PROVE  Len(a) = 1 =>
              /\ a \o s \in Seq(Char) /\ Len(a \o s) = Len(s) + 1
              /\ (a \o s)[1] = a[1]
              /\ \A i \in 2 .. Len(s) + 1 : (a \o s)[i] = s[i - 1]
  <1> DEFINE t == a \o s
  <1>1. /\ t \in Seq(Char) /\ Len(t) = Len(a) + Len(s)
        /\ \A i \in 1..Len(a) : t[i] = a[i]
        /\ \A i \in 1..Len(s) : t[Len(a) + i] = s[i]
    BY Joined
  <1> HIDE DEF t
  <1> HAVE Len(a) = 1
  <1>2. Len(s) \in Nat /\ 1 \in 1..Len(a)
    OBVIOUS
  <1>3. \A i \in 2 .. Len(s) + 1 : i - 1 \in 1..Len(s) /\ 1 + (i - 1) = i
    OBVIOUS
  <1>4. \A i \in 2 .. Len(s) + 1 : t[i] = s[i - 1]
    BY <1>1, <1>3
  <1> QED
    BY <1>1, <1>2, <1>4 DEF t

\* The start of an element: its id and its core.
LEMMA HeadRead ==
    ASSUME NEW x \in Figures, NEW y \in Figures, NEW e \in Elements, NEW g \in Seq(Elements)
    PROVE  Read(At("list", e, g), <<"<thread", x, "core=", y, "name=">>)
               = At("name", More(More(NoElement, "id", <<x>>), "core", <<y>>), g)
  <1> DEFINE s1 == <<"<thread">>
             s2 == <<x>>
             s3 == <<"core=">>
             s4 == <<y>>
             s5 == <<"name=">>
             t4 == s4 \o s5
             t3 == s3 \o t4
             t2 == s2 \o t3
             e1 == More(NoElement, "id", s2)
             e2 == More(e1, "core", s4)
  <1>0. {"<thread", "core=", "name=", x, y} \subseteq Char
    BY CharAssumption, PlainTypes DEF Pieces, Markup
  <1>1. /\ s1 \in Seq(Char) /\ s2 \in Seq(Char) /\ s3 \in Seq(Char) /\ s4 \in Seq(Char)
        /\ s5 \in Seq(Char) /\ s2 \in Seq(Letters) /\ s4 \in Seq(Letters)
    BY <1>0 DEF Letters
  <1>2. <<"<thread", x, "core=", y, "name=">> = s1 \o t2
    <2> DEFINE head == <<"<thread", x, "core=", y, "name=">>
    <2>0. \A c \in Char : <<c>> \in Seq(Char) /\ Len(<<c>>) = 1 /\ <<c>>[1] = c
      OBVIOUS
    <2>1. /\ s1 \in Seq(Char) /\ Len(s1) = 1 /\ s1[1] = "<thread"
          /\ s2 \in Seq(Char) /\ Len(s2) = 1 /\ s2[1] = x
          /\ s3 \in Seq(Char) /\ Len(s3) = 1 /\ s3[1] = "core="
          /\ s4 \in Seq(Char) /\ Len(s4) = 1 /\ s4[1] = y
          /\ s5 \in Seq(Char) /\ Len(s5) = 1 /\ s5[1] = "name="
      BY <1>0, <2>0, Zenon
    <2> HIDE DEF s1, s2, s3, s4, s5
    <2>2. /\ t4 \in Seq(Char) /\ Len(t4) = 2
          /\ t4[1] = y /\ t4[2] = "name="
      <3>1. /\ t4 \in Seq(Char) /\ Len(t4) = Len(s5) + 1 /\ t4[1] = s4[1]
            /\ \A i \in 2 .. Len(s5) + 1 : t4[i] = s5[i - 1]
        BY <2>1, InFront
      <3> HIDE DEF t4
      <3> QED
        BY <2>1, <3>1
    <2> HIDE DEF t4
    <2>3. /\ t3 \in Seq(Char) /\ Len(t3) = 3
          /\ t3[1] = "core=" /\ t3[2] = y /\ t3[3] = "name="
      <3>1. /\ t3 \in Seq(Char) /\ Len(t3) = Len(t4) + 1 /\ t3[1] = s3[1]
            /\ \A i \in 2 .. Len(t4) + 1 : t3[i] = t4[i - 1]
        BY <2>1, <2>2, InFront
      <3> HIDE DEF t3
      <3> QED
        BY <2>1, <2>2, <3>1
    <2> HIDE DEF t3
    <2>4. /\ t2 \in Seq(Char) /\ Len(t2) = 4
          /\ t2[1] = x /\ t2[2] = "core=" /\ t2[3] = y /\ t2[4] = "name="
      <3>1. /\ t2 \in Seq(Char) /\ Len(t2) = Len(t3) + 1 /\ t2[1] = s2[1]
            /\ \A i \in 2 .. Len(t3) + 1 : t2[i] = t3[i - 1]
        BY <2>1, <2>3, InFront
      <3> HIDE DEF t2
      <3> QED
        BY <2>1, <2>3, <3>1
    <2> HIDE DEF t2
    <2> DEFINE t1 == s1 \o t2
    <2>5. /\ t1 \in Seq(Char) /\ Len(t1) = 5
          /\ t1[1] = "<thread" /\ t1[2] = x /\ t1[3] = "core=" /\ t1[4] = y /\ t1[5] = "name="
      <3>1. /\ t1 \in Seq(Char) /\ Len(t1) = Len(t2) + 1 /\ t1[1] = s1[1]
            /\ \A i \in 2 .. Len(t2) + 1 : t1[i] = t2[i - 1]
        BY <2>1, <2>4, InFront
      <3> HIDE DEF t1
      <3> QED
        BY <2>1, <2>4, <3>1
    <2> HIDE DEF t1
    <2>6. /\ head \in Seq(Char) /\ Len(head) = 5
          /\ head[1] = "<thread" /\ head[2] = x /\ head[3] = "core="
          /\ head[4] = y /\ head[5] = "name="
      BY <1>0
    <2> HIDE DEF head
    <2>7. \A i \in 1..5 : head[i] = t1[i]
      BY <2>5, <2>6
    <2>8. head = t1
      BY <2>5, <2>6, <2>7, SeqEqual
    <2> QED
      BY <2>8 DEF head, t1, t2, t3, t4, s1, s2, s3, s4, s5
  <1>3. x \in Plain /\ Entity(x) = s2 /\ y \in Plain /\ Entity(y) = s4
    BY PlainTypes DEF Figures, Entity
  <1> HIDE DEF s2, s4, t4, t3, t2
  <1>4. /\ NoElement \in Elements /\ e1 \in Elements /\ e2 \in Elements
        /\ {"list", "id", "core", "name"} \subseteq Places /\ {"id", "core"} \subseteq Fields
        /\ {"<thread", "core=", "name="} \subseteq Markup
    <2>1. NoElement \in Elements /\ {"id", "core"} \subseteq Fields
      BY StartTypes DEF Fields
    <2>2. e1 \in Elements
      BY <1>1, <2>1, MoreTypes
    <2>3. e2 \in Elements
      BY <1>1, <2>1, <2>2, MoreTypes
    <2> QED
      BY <2>1, <2>2, <2>3 DEF Places, Fields, Markup
  <1>5. Read(At("list", e, g), s1) = At("id", NoElement, g)
    BY <1>4, MarkupRead, Ways
  <1>6. Read(At("id", NoElement, g), s2) = At("id", e1, g)
    BY <1>3, <1>4, EntityRead DEF s2
  <1> HIDE DEF e1
  <1>7. Read(At("id", e1, g), s3) = At("core", e1, g)
    BY <1>4, MarkupRead, Ways
  <1>8. Read(At("core", e1, g), s4) = At("core", e2, g)
    BY <1>3, <1>4, EntityRead DEF s4
  <1> HIDE DEF e2
  <1>9. Read(At("core", e2, g), s5) = At("name", e2, g)
    BY <1>4, MarkupRead, Ways
  <1>10. /\ At("list", e, g) \in Readers /\ At("id", NoElement, g) \in Readers
         /\ At("id", e1, g) \in Readers /\ At("core", e1, g) \in Readers
         /\ At("core", e2, g) \in Readers
    BY <1>4, AtTypes
  <1> HIDE DEF s1, s3, s5
  <1>11. t4 \in Seq(Char) /\ Read(At("core", e1, g), t4) = At("name", e2, g)
    BY <1>1, <1>8, <1>9, <1>10, ReadJoined DEF t4
  <1>12. t3 \in Seq(Char) /\ Read(At("id", e1, g), t3) = At("name", e2, g)
    BY <1>1, <1>7, <1>10, <1>11, ReadJoined DEF t3
  <1>13. t2 \in Seq(Char) /\ Read(At("id", NoElement, g), t2) = At("name", e2, g)
    BY <1>1, <1>6, <1>10, <1>12, ReadJoined DEF t2
  <1>14. Read(At("list", e, g), s1 \o t2) = At("name", e2, g)
    BY <1>1, <1>5, <1>10, <1>13, ReadJoined
  <1> QED
    BY <1>2, <1>14, Zenon DEF e2, e1, s2, s4

\* What there is to read of one thread.
Element(snapshot, t) == [id |-> <<t.id>>, core |-> <<t.upir>>, name |-> ThreadName(t),
                         info |-> ThreadExtraInfo(snapshot, t)]

\* gdb reads a thread back from what PutThread writes for it.
LEMMA ThreadRead ==
    ASSUME NEW snapshot, NEW a \in Seq(Char), NEW t \in Threads
    PROVE  /\ Element(snapshot, t) \in Elements
           /\ \E u \in Seq(Char) :
                 /\ PutThread(snapshot, Cut(a), t) = Cut(a \o u)
                 /\ \A e \in Elements, g \in Seq(Elements) :
                       Read(At("list", e, g), u)
                           = At("list", Element(snapshot, t), Append(g, Element(snapshot, t)))
  <1> DEFINE head == <<"<thread", t.id, "core=", t.upir, "name=">>
             name == ThreadName(t)
             info == ThreadExtraInfo(snapshot, t)
             cl   == <<Closing>>
             en   == <<"</thread>">>
             e2   == More(More(NoElement, "id", <<t.id>>), "core", <<t.upir>>)
             e3   == More(e2, "name", name)
             D    == Element(snapshot, t)
  <1>1. t.id \in Figures /\ t.upir \in Figures /\ name \in Seq(Plain) /\ info \in Seq(Plain)
    BY NamedTypes, InfoTypes
  <1>2. /\ <<t.id>> \in Seq(Letters) /\ <<t.upir>> \in Seq(Letters)
        /\ name \in Seq(Letters) /\ info \in Seq(Letters)
    BY <1>1, PlainTypes DEF Letters
  <1>3. head \in Seq(Char) /\ cl \in Seq(Char) /\ en \in Seq(Char)
    <2>1. {"<thread", "core=", "name=", Closing, "</thread>", t.id, t.upir} \subseteq Char
      BY <1>1, CharAssumption, PlainTypes DEF Pieces, Markup
    <2> QED
      BY <2>1
  <1>4. D \in Elements /\ More(e3, "info", info) = D
    BY <1>2, ElementBuilt, Zenon DEF Element
  <1>5. e2 \in Elements /\ e3 \in Elements
    <2>1. NoElement \in Elements /\ {"id", "core", "name"} \subseteq Fields
      BY StartTypes DEF Fields
    <2>2. More(NoElement, "id", <<t.id>>) \in Elements
      BY <1>2, <2>1, MoreTypes
    <2>3. e2 \in Elements
      BY <1>2, <2>1, <2>2, MoreTypes
    <2> HIDE DEF e2
    <2> QED
      BY <1>2, <2>1, <2>3, MoreTypes
  <1>6. \A e \in Elements, g \in Seq(Elements) : Read(At("list", e, g), head) = At("name", e2, g)
    BY <1>1, HeadRead
  <1> HIDE DEF head, name, info, e2
  <1>7. PICK u1 \in Seq(Char) :
           /\ PutXMLEscapedString(Cut(a \o head), name) = Cut((a \o head) \o u1)
           /\ \A p \in Fields, e \in Elements, g \in Seq(Elements) :
                 Read(At(p, e, g), u1) = At(p, More(e, p, name), g)
    <2>1. a \o head \in Seq(Char)
      BY <1>3
    <2> QED
      BY <1>1, <2>1, EscapedRead
  <1> DEFINE x1 == head \o u1
             x2 == x1 \o cl
  <1>8. x1 \in Seq(Char) /\ x2 \in Seq(Char) /\ a \o x2 \in Seq(Char)
    BY <1>3, <1>7
  <1>9. PICK u2 \in Seq(Char) :
           /\ PutXMLEscapedString(Cut(a \o x2), info) = Cut((a \o x2) \o u2)
           /\ \A p \in Fields, e \in Elements, g \in Seq(Elements) :
                 Read(At(p, e, g), u2) = At(p, More(e, p, info), g)
    <2> HIDE DEF x2
    <2> QED
      BY <1>1, <1>8, EscapedRead
  <1> DEFINE x3 == x2 \o u2
             x4 == x3 \o en
  <1>10. x3 \in Seq(Char) /\ x4 \in Seq(Char)
    BY <1>3, <1>8, <1>9
  <1> HIDE DEF cl, en, x1, x2, x3, x4, e3, D
  <1>11. PutThread(snapshot, Cut(a), t) = Cut(a \o x4)
    <2>1. PutString(Cut(a), head) = Cut(a \o head)
      BY <1>3, CutPut
    <2>2. PutXMLEscapedString(Cut(a \o head), name) = Cut(a \o x1)
      <3>1. (a \o head) \o u1 = a \o x1
        BY <1>3, <1>7, ConcatAssociative DEF x1
      <3> QED
        BY <1>7, <3>1
    <2>3. PutString(Cut(a \o x1), cl) = Cut(a \o x2)
      BY <1>3, <1>8, Behind, StartTypes DEF x2
    <2>4. PutXMLEscapedString(Cut(a \o x2), info) = Cut(a \o x3)
      <3>1. (a \o x2) \o u2 = a \o x3
        BY <1>8, <1>9, ConcatAssociative DEF x3
      <3> QED
        BY <1>9, <3>1
    <2>5. PutString(Cut(a \o x3), en) = Cut(a \o x4)
      BY <1>3, <1>10, Behind, StartTypes DEF x4
    <2> QED
      BY <2>1, <2>2, <2>3, <2>4, <2>5, Zenon DEF PutThread, head, name, info, cl, en
  <1>12. ASSUME NEW e \in Elements, NEW g \in Seq(Elements)
         PROVE  Read(At("list", e, g), x4) = At("list", D, Append(g, D))
    <2> DEFINE r == At("list", e, g)
    <2>1. /\ {"name", "info"} \subseteq Fields /\ {"list", "name", "info"} \subseteq Places
          /\ Closing \in Markup /\ "</thread>" \in Markup
      BY DEF Places, Fields, Markup
    <2>2. r \in Readers
      BY <2>1, AtTypes
    <2>3. Read(r, head) = At("name", e2, g)
      BY <1>6
    <2>4. Read(At("name", e2, g), u1) = At("name", e3, g)
      BY <1>5, <1>7, <2>1 DEF e3
    <2>5. Read(At("name", e3, g), cl) = At("info", e3, g)
      BY <1>5, <2>1, MarkupRead, Ways DEF cl
    <2>6. Read(At("info", e3, g), u2) = At("info", D, g)
      BY <1>4, <1>5, <1>9, <2>1
    <2>7. Read(At("info", D, g), en) = At("list", D, Append(g, D))
      BY <1>4, <2>1, MarkupRead, Ways DEF en
    <2> HIDE DEF r
    <2>8. Read(r, x1) = At("name", e3, g)
      BY <1>3, <1>7, <2>2, <2>3, <2>4, ReadJoined DEF x1
    <2>9. Read(r, x2) = At("info", e3, g)
      BY <1>3, <1>8, <2>2, <2>5, <2>8, ReadJoined DEF x2
    <2>10. Read(r, x3) = At("info", D, g)
      BY <1>8, <1>9, <2>2, <2>6, <2>9, ReadJoined DEF x3
    <2>11. Read(r, x4) = At("list", D, Append(g, D))
      BY <1>3, <1>10, <2>2, <2>7, <2>10, ReadJoined DEF x4
    <2> QED
      BY <2>11 DEF r
  <1> QED
    BY <1>4, <1>10, <1>11, <1>12 DEF D

\* What there is to read of a snapshot, thread by thread.
LEMMA DescribedTypes ==
    ASSUME NEW snapshot \in Snapshots
    PROVE  LET N == Len(snapshot.threads)
               D == Described(snapshot)
           IN  /\ D \in Seq(Elements) /\ Len(D) = N
               /\ \A k \in 1..N : D[k] = Element(snapshot, snapshot.threads[k])
  <1> DEFINE N == Len(snapshot.threads)
             D == Described(snapshot)
  <1>1. N \in Nat /\ \A k \in 1..N : snapshot.threads[k] \in Threads
    BY SnapshotTypes
  <1>2. D = [k \in 1..N |-> Element(snapshot, snapshot.threads[k])]
    BY Zenon DEF Described, Element
  <1>3. \A k \in 1..N : Element(snapshot, snapshot.threads[k]) \in Elements
    <2>1. << >> \in Seq(Char)
      OBVIOUS
    <2> QED
      BY <1>1, <2>1, ThreadRead
  <1> HIDE DEF N, D
  <1>4. D \in Seq(Elements) /\ Len(D) = N
    BY <1>1, <1>2, <1>3
  <1>5. \A k \in 1..N : D[k] = Element(snapshot, snapshot.threads[k])
    BY <1>2
  <1> QED
    BY <1>4, <1>5 DEF N, D

\* What the buffer holds after each thread is the start of a text in which gdb
\* reads the threads up to this one.
LEMMA ListedRead ==
    ASSUME NEW snapshot \in Snapshots
    PROVE  \A k \in 0..Len(snapshot.threads) :
              \E w \in Seq(Char), e \in Elements :
                 /\ Listed(snapshot)[k] = Cut(w) /\ Len(w) >= 1 /\ w[1] = "<threads>"
                 /\ Read(NothingRead, w) = At("list", e, SubSeq(Described(snapshot), 1, k))
  <1> DEFINE N == Len(snapshot.threads)
             E == Listed(snapshot)
             D == Described(snapshot)
             Done(k, w, e) == /\ E[k] = Cut(w) /\ Len(w) >= 1 /\ w[1] = "<threads>"
                              /\ Read(NothingRead, w) = At("list", e, SubSeq(D, 1, k))
             T == {k \in Nat : k <= N => \E w \in Seq(Char), e \in Elements : Done(k, w, e)}
  <1>1. N \in Nat /\ \A k \in 1..N : snapshot.threads[k] \in Threads
    BY SnapshotTypes
  <1>2. /\ D \in Seq(Elements) /\ Len(D) = N
        /\ \A k \in 1..N : D[k] = Element(snapshot, snapshot.threads[k])
    BY DescribedTypes
  <1>3. /\ E[0] = PutString(<< >>, <<"<threads>">>)
        /\ \A k \in 1..N : E[k] = PutThread(snapshot, E[k - 1], snapshot.threads[k])
    BY ListedSteps
  <1>4. /\ NothingRead = At("start", NoElement, << >>) /\ NothingRead \in Readers
        /\ NoElement \in Elements
    BY StartTypes DEF NothingRead, At
  <1> HIDE DEF N, E, D
  <1>5. 0 \in T
    <2> DEFINE w == <<"<threads>">>
               n == << >>
    <2>1. w \in Seq(Char) /\ Len(w) = 1 /\ w[1] = "<threads>"
      <3>1. "<threads>" \in Char
        BY CharAssumption DEF Pieces, Markup
      <3> QED
        BY <3>1
    <2>2. n \in Seq(Char) /\ n \in Seq(Elements) /\ Len(n) = 0
      OBVIOUS
    <2>3. SubSeq(D, 1, 0) = n
      BY <1>2
    <2>4. Read(NothingRead, w) = At("list", NoElement, n)
      <3>1. "start" \in Places /\ "<threads>" \in Markup
        BY DEF Places, Markup
      <3> QED
        BY <1>4, <2>2, <3>1, MarkupRead, Ways
    <2> HIDE DEF w
    <2>5. E[0] = Cut(w)
      <3>1. Cut(n) = n
        <4>1. Min2(0, ThreadCap - 2) = 0
          BY BufferAssumption DEF Min2
        <4> QED
          BY <2>2, <4>1 DEF Cut
      <3>2. n \o w = w
        BY <2>1, ConcatEmptySeq
      <3>3. E[0] = PutString(n, w)
        BY <1>3 DEF w
      <3> HIDE DEF n
      <3>4. PutString(Cut(n), w) = Cut(n \o w)
        BY <2>1, <2>2, CutPut
      <3> QED
        BY <3>1, <3>2, <3>3, <3>4
    <2>6. Done(0, w, NoElement)
      <3>1. Len(w) >= 1
        BY <2>1
      <3> QED
        BY <2>1, <2>3, <2>4, <2>5, <3>1, Zenon
    <2> HIDE DEF Done
    <2> QED
      BY <1>4, <2>1, <2>6
  <1>6. ASSUME NEW k \in T PROVE k + 1 \in T
    <2> SUFFICES ASSUME k + 1 <= N
                 PROVE  \E w \in Seq(Char), e \in Elements : Done(k + 1, w, e)
      OBVIOUS
    <2>1. k \in Nat /\ k <= N /\ k + 1 \in 1..N /\ (k + 1) - 1 = k
      BY <1>1
    <2>2. PICK w \in Seq(Char), e \in Elements : Done(k, w, e)
      BY <2>1
    <2> DEFINE t == snapshot.threads[k + 1]
               d == Element(snapshot, t)
               g == SubSeq(D, 1, k)
    <2>3. t \in Threads
      BY <1>1, <2>1
    <2> HIDE DEF t
    <2>4. d \in Elements
      BY <2>2, <2>3, ThreadRead
    <2>5. PICK u \in Seq(Char) :
             /\ PutThread(snapshot, Cut(w), t) = Cut(w \o u)
             /\ \A f \in Elements, h \in Seq(Elements) :
                   Read(At("list", f, h), u) = At("list", d, Append(h, d))
      BY <2>2, <2>3, ThreadRead
    <2>6. w \o u \in Seq(Char) /\ Len(w \o u) >= 1 /\ (w \o u)[1] = "<threads>"
      <3>1. w \in Seq(Char) /\ u \in Seq(Char) /\ Len(w) >= 1 /\ w[1] = "<threads>"
        BY <2>2, <2>5
      <3>2. /\ w \o u \in Seq(Char) /\ Len(w \o u) = Len(w) + Len(u)
            /\ \A i \in 1..Len(w) : (w \o u)[i] = w[i]
        BY <3>1, Joined
      <3>3. Len(w) \in Nat /\ Len(u) \in Nat
        BY <3>1
      <3>4. 1 \in 1..Len(w)
        BY <3>1, <3>3
      <3>5. (w \o u)[1] = w[1]
        BY <3>2, <3>4, Zenon
      <3> DEFINE v == w \o u
      <3>6. v \in Seq(Char) /\ Len(v) = Len(w) + Len(u) /\ v[1] = w[1]
        BY <3>2, <3>5, Zenon
      <3> HIDE DEF v
      <3>7. v \in Seq(Char) /\ Len(v) >= 1 /\ v[1] = "<threads>"
        BY <3>1, <3>3, <3>6
      <3> QED
        BY <3>7 DEF v
    <2>7. E[k + 1] = Cut(w \o u)
      BY <1>3, <2>1, <2>2, <2>5 DEF t
    <2>8. Read(NothingRead, w \o u) = At("list", d, SubSeq(D, 1, k + 1))
      <3>1. Read(NothingRead, w \o u) = Read(Read(NothingRead, w), u)
        BY <1>4, <2>2, <2>5, ReadJoined
      <3>2. g \in Seq(Elements) /\ SubSeq(D, 1, k + 1) = Append(g, d)
        <4>1. d = D[k + 1]
          BY <1>2, <2>1 DEF t
        <4> HIDE DEF d
        <4> QED
          BY <1>2, <2>1, <4>1
      <3> HIDE DEF g
      <3>3. Read(At("list", e, g), u) = At("list", d, Append(g, d))
        BY <2>2, <2>5, <3>2
      <3> QED
        BY <2>2, <3>1, <3>2, <3>3 DEF g
    <2>9. Done(k + 1, w \o u, d)
      BY <2>6, <2>7, <2>8, Zenon
    <2> HIDE DEF Done, d
    <2> QED
      BY <2>4, <2>6, <2>9
  <1>7. T = Nat
    <2>1. T \in SUBSET Nat
      OBVIOUS
    <2> HIDE DEF T
    <2> QED
      BY <1>5, <1>6, <2>1, NatSets
  <1>8. ASSUME NEW k \in 0..N
        PROVE  \E w \in Seq(Char), e \in Elements : Done(k, w, e)
    <2> HIDE DEF Done
    <2>1. k \in T /\ k <= N
      <3> HIDE DEF T
      <3> QED
        BY <1>1, <1>7
    <2> QED
      BY <2>1, Zenon
  <1> QED
    BY <1>8, Zenon DEF N, E, D

\* gdb reads in the document of a snapshot nothing but its threads, in their
\* order, each as it is; and all of them, between the two ends, if the document
\* is shorter than what the buffer has room for.
THEOREM DocumentRead ==
    ASSUME NEW snapshot \in Snapshots
    PROVE  LET text == ThreadDocument(snapshot)
           IN  /\ IsPrefix(ReadElements(text), Described(snapshot))
               /\ Len(text) < ThreadCap - 2 =>
                     /\ Len(ReadElements(text)) = Len(snapshot.threads)
                     /\ Head(text) = "<threads>" /\ Last(text) = "</threads>"
  <1> DEFINE n    == Len(snapshot.threads)
             D    == Described(snapshot)
             en   == <<"</threads>">>
             text == ThreadDocument(snapshot)
  <1>1. n \in Nat /\ D \in Seq(Elements) /\ Len(D) = n
    BY SnapshotTypes, DescribedTypes
  <1>2. PICK w \in Seq(Char), e \in Elements :
           /\ Listed(snapshot)[n] = Cut(w) /\ Len(w) >= 1 /\ w[1] = "<threads>"
           /\ Read(NothingRead, w) = At("list", e, SubSeq(D, 1, n))
    <2>1. n \in 0..n
      BY <1>1
    <2> QED
      BY <2>1, ListedRead
  <1>3. en \in Seq(Char) /\ Len(en) = 1 /\ en[1] = "</threads>"
    <2>1. "</threads>" \in Char
      BY CharAssumption DEF Pieces, Markup
    <2> QED
      BY <2>1
  <1>4. SubSeq(D, 1, n) = D
    <2> HIDE DEF D, n
    <2> QED
      BY <1>1
  <1> DEFINE full == w \o en
  <1>5. /\ full \in Seq(Char) /\ Len(full) = Len(w) + 1 /\ full[1] = "<threads>"
        /\ full[Len(full)] = "</threads>"
    <2> HIDE DEF en
    <2>1. /\ full \in Seq(Char) /\ Len(full) = Len(w) + Len(en)
          /\ \A i \in 1..Len(w) : full[i] = w[i]
          /\ \A i \in 1..Len(en) : full[Len(w) + i] = en[i]
      BY <1>2, <1>3, Joined
    <2> HIDE DEF full
    <2>2. Len(w) \in Nat /\ 1 \in 1..Len(w) /\ 1 \in 1..Len(en)
      BY <1>2, <1>3
    <2> QED
      BY <1>2, <1>3, <2>1, <2>2
  <1>6. text = Cut(full)
    <2> HIDE DEF en
    <2>1. PutString(Cut(w), en) = Cut(w \o en)
      BY <1>2, <1>3, CutPut
    <2> QED
      BY <1>2, <2>1, Zenon DEF ThreadDocument, en
  <1>7. Read(NothingRead, full).got = D
    <2>1. Read(NothingRead, full) = Read(Read(NothingRead, w), en)
      <3> HIDE DEF en
      <3> QED
        BY <1>2, <1>3, StartTypes, ReadJoined
    <2>2. "list" \in Places /\ "</threads>" \in Markup
      BY DEF Places, Markup
    <2>3. Read(At("list", e, D), en) = At("end", e, D)
      BY <1>1, <1>2, <2>2, MarkupRead, Ways
    <2> HIDE DEF full, en, D, n
    <2>4. Read(NothingRead, w) = At("list", e, D)
      BY <1>2, <1>4
    <2>5. At("end", e, D).got = D
      BY DEF At
    <2> QED
      BY <2>1, <2>3, <2>4, <2>5, Zenon
  <1> HIDE DEF full, text, D, n
  <1>8. PICK rest \in Seq(Char) : full = text \o rest
    BY <1>5, <1>6, CutTypes
  <1>9. text \in Seq(Char) /\ (Len(text) < ThreadCap - 2 => text = full)
    BY <1>5, <1>6, CutTypes DEF Texts
  <1>10. IsPrefix(ReadElements(text), D)
    <2> DEFINE q == Read(NothingRead, text)
    <2>1. q \in Readers /\ Read(NothingRead, full) = Read(q, rest)
      BY <1>8, <1>9, StartTypes, ReadJoined
    <2> HIDE DEF q
    <2>2. IsPrefix(q.got, Read(q, rest).got)
      BY <2>1, ReadGrows
    <2> QED
      BY <1>7, <2>1, <2>2 DEF ReadElements, q
  <1>11. ASSUME Len(text) < ThreadCap - 2
         PROVE  /\ Len(ReadElements(text)) = n
                /\ Head(text) = "<threads>" /\ Last(text) = "</threads>"
    <2>1. text = full
      BY <1>9, <1>11
    <2>2. ReadElements(text) = D
      BY <1>7, <2>1 DEF ReadElements
    <2>3. Len(full) \in Nat /\ full # << >>
      BY <1>2, <1>5
    <2>4. Head(full) = full[1] /\ Last(full) = full[Len(full)]
      BY <1>5, <2>3 DEF Last
    <2> QED
      BY <1>1, <1>5, <2>1, <2>2, <2>4
  <1> QED
    BY <1>10, <1>11, Zenon DEF text, D, n

-----------------------------------------------------------------------------
(* Reading a document in pages.                                            *)

\* The lengths gdb asks for: it leaves room for the mark and the frame around a
\* page, and asks for less than what would wrap when it is doubled.
GdbLengths == Lengths \subseteq 1 .. Cap - 5 /\ LibLengths \subseteq 1 .. Word \div 2 - 1

PagerTypes == /\ kind \in {"features", "threads", "libraries"}
              /\ size \in Nat /\ last \in Nat
              /\ image \in Seq(Nat)
              /\ phase \in {"idle", "reading", "complete"}
              /\ phase = "reading" =>
                    len \in IF kind = "libraries" THEN LibLengths ELSE Lengths

\* What was read is the start of the document, and all of it at the end.
IInv == PagerTypes /\ WholeDocument /\ Len(image) <= size

\* A page brings something or is the last one.
Advances == phase = "reading" => Len(image') > Len(image) \/ phase' = "complete"

\* A page that starts where the last one ended.
LEMMA NextPage ==
    ASSUME NEW o \in Nat, NEW n \in Nat
    PROVE  /\ Positions(0, o) \o Positions(o, n) = Positions(0, o + n)
           /\ Positions(0, o) \in Seq(Nat) /\ Positions(o, n) \in Seq(Nat)
           /\ Len(Positions(0, o)) = o
  <1> DEFINE s == Positions(0, o)
             t == Positions(o, n)
             u == Positions(0, o + n)
  <1>1. s \in Seq(Nat) /\ Len(s) = o /\ \A i \in 1..o : s[i] = i
    BY DEF Positions
  <1>2. t \in Seq(Nat) /\ Len(t) = n /\ \A i \in 1..n : t[i] = o + i
    BY DEF Positions
  <1>3. u \in Seq(Nat) /\ Len(u) = o + n /\ \A i \in 1 .. o + n : u[i] = i
    BY DEF Positions
  <1> HIDE DEF s, t, u
  <1>4. /\ s \o t \in Seq(Nat) /\ Len(s \o t) = o + n
        /\ \A i \in 1..o : (s \o t)[i] = s[i]
        /\ \A i \in 1..n : (s \o t)[o + i] = t[i]
    <2>1. /\ s \o t \in Seq(Nat) /\ Len(s \o t) = Len(s) + Len(t)
          /\ \A i \in 1..Len(s) : (s \o t)[i] = s[i]
          /\ \A i \in 1..Len(t) : (s \o t)[Len(s) + i] = t[i]
      <3>1. s \in Seq(Nat) /\ t \in Seq(Nat)
        BY <1>1, <1>2
      <3> QED
        BY <3>1, Joined
    <2> QED
      BY <1>1, <1>2, <2>1, Zenon
  <1>5. ASSUME NEW i \in 1 .. o + n
        PROVE  (s \o t)[i] = u[i]
    <2>1. CASE i <= o
      BY <1>1, <1>3, <1>4, <2>1
    <2>2. CASE ~(i <= o)
      <3>1. i - o \in 1..n /\ o + (i - o) = i
        BY <2>2
      <3>2. (s \o t)[i] = t[i - o] /\ t[i - o] = o + (i - o)
        BY <1>2, <1>4, <3>1, Zenon
      <3> QED
        BY <1>3, <3>1, <3>2
    <2> QED
      BY <2>1, <2>2
  <1>6. s \o t = u
    BY <1>3, <1>4, <1>5, SeqEqual
  <1> QED
    BY <1>1, <1>2, <1>6 DEF s, t, u

\* The length the code uses for a library page fits the buffer twice.
LEMMA ClampFits ==
    ASSUME GdbLengths, len \in LibLengths
    PROVE  Clamp \in Nat /\ Clamp >= 1 /\ 2 * Clamp <= Cap - 5
  <1> USE CapAssumption DEF GdbLengths
  <1>1. len \in Nat /\ len >= 1 /\ len <= Word \div 2 - 1
    OBVIOUS
  <1>2. (len * 2) % Word = len * 2
    <2>1. len * 2 < Word
      BY <1>1
    <2>2. \A a \in Nat, w \in Nat : a < w => a % w = a
      OBVIOUS
    <2> QED
      BY <1>1, <2>1, <2>2
  <1>3. CASE len * 2 + 1 > Cap - 4
    <2>1. Clamp = (Cap - 4) \div 2 - 1
      BY <1>2, <1>3 DEF Clamp
    <2> QED
      BY <2>1
  <1>4. CASE ~(len * 2 + 1 > Cap - 4)
    <2>1. Clamp = len
      BY <1>2, <1>4 DEF Clamp
    <2> QED
      BY <1>1, <1>4, <2>1
  <1> QED
    BY <1>3, <1>4

\* A page that is read whole moves the invariant on.
LEMMA TakeSound ==
    ASSUME IInv, phase = "reading", NEW n \in Nat, Len(image) + n <= size,
           NEW mark, mark = "l" => Len(image) + n = size, mark = "l" \/ n >= 1,
           Take(mark, Positions(Len(image), n)), last' \in Nat, last' < Cap
    PROVE  IInv' /\ Advances
  <1> DEFINE o == Len(image)
  <1>1. o \in Nat /\ image = Positions(0, o) /\ size \in Nat
    BY DEF IInv, PagerTypes, WholeDocument
  <1> HIDE DEF o
  <1>2. image' = Positions(0, o + n)
    BY <1>1, NextPage DEF Take, o
  <1>3. image' \in Seq(Nat) /\ Len(image') = o + n
    <2>1. o + n \in Nat
      BY <1>1
    <2> QED
      BY <1>2, <2>1, NextPage
  <1>4. /\ size' = size /\ kind' = kind /\ len' = len
        /\ phase' = IF mark = "l" THEN "complete" ELSE "reading"
    BY DEF Take
  <1>5. PagerTypes'
    BY <1>3, <1>4 DEF IInv, PagerTypes
  <1>6. WholeDocument'
    BY <1>2, <1>3, <1>4 DEF WholeDocument, o
  <1>7. Advances
    BY <1>1, <1>3, <1>4 DEF Advances, o
  <1> QED
    BY <1>3, <1>4, <1>5, <1>6, <1>7 DEF IInv, o

\* A page of target.xml or of the threads is left out by nothing and marked 'l' only
\* when it is the last one.
LEMMA ReadPageSound ==
    ASSUME GdbLengths, IInv, phase = "reading", kind # "libraries", ReadPage
    PROVE  IInv' /\ Advances
  <1> DEFINE o == Len(image)
             n == Page(o, len)
             kept == IF BufferFits(n) THEN Min2(n, Cap - 5) ELSE 0
  <1>1. /\ o \in Nat /\ size \in Nat /\ o <= size /\ last \in Nat /\ last < Cap /\ last' = last
        /\ len \in 1 .. Cap - 5
    <2>1. /\ size \in Nat /\ o <= size /\ last \in Nat /\ last < Cap /\ last' = last
          /\ image \in Seq(Nat) /\ len \in Lengths
      BY DEF IInv, PagerTypes, WholeDocument, ReadPage
    <2>2. len \in 1 .. Cap - 5
      BY <2>1 DEF GdbLengths
    <2> QED
      BY <2>1, <2>2
  <1>2. CASE o >= size
    <2>1. Take("l", << >>)
      BY <1>2 DEF ReadPage
    <2>2. << >> = Positions(o, 0)
      BY DEF Positions
    <2>3. o + 0 = size
      BY <1>1, <1>2
    <2> QED
      BY <1>1, <2>1, <2>2, <2>3, TakeSound
  <1>3. CASE ~(o >= size)
    <2>1. n \in Nat /\ 1 <= n /\ n <= len /\ o + n <= size /\ (n # len => o + n = size) /\ n <= Cap - 5
      <3> HIDE DEF o
      <3>1. len \in Nat /\ 1 <= len /\ len <= Cap - 5 /\ size - o \in Nat /\ 1 <= size - o
        BY <1>1, <1>3, CapAssumption
      <3>2. n = IF len <= size - o THEN len ELSE size - o
        BY DEF Page, Min2
      <3> HIDE DEF n
      <3> QED
        BY <1>1, <3>1, <3>2, CapAssumption
    <2>2. kept = n
      BY <1>1, <2>1, CapAssumption DEF BufferFits, Min2
    <2>3. Take(PageMark(n), Positions(o, kept))
      BY <1>3 DEF ReadPage
    <2> HIDE DEF n, kept
    <2>4. PageMark(n) = "l" => o + n = size
      BY <2>1 DEF PageMark
    <2> QED
      BY <1>1, <2>1, <2>2, <2>3, <2>4, TakeSound
  <1> QED
    BY <1>2, <1>3

\* A page of the libraries is not longer than its doubled length allows.
LEMMA ReadLibrariesSound ==
    ASSUME GdbLengths, IInv, ReadLibraries
    PROVE  IInv' /\ Advances
  <1> DEFINE o == Len(image)
             n == Page(o, Clamp)
             kept == Min2(n, (Cap - 5) \div 2)
             mark == IF o + n >= size THEN "l" ELSE "m"
  <1>1. /\ phase = "reading" /\ o \in Nat /\ size \in Nat /\ o <= size
        /\ last' = Clamp /\ Take(mark, Positions(o, kept)) /\ len \in LibLengths
    BY DEF IInv, PagerTypes, ReadLibraries
  <1>2. Clamp \in Nat /\ Clamp >= 1 /\ 2 * Clamp <= Cap - 5
    BY <1>1, ClampFits
  <1>3. n \in Nat /\ n <= Clamp /\ o + n <= size
    BY <1>1, <1>2 DEF Page, Min2
  <1>4. kept = n
    BY <1>2, <1>3, CapAssumption DEF Min2
  <1>5. (mark = "l" => o + n = size) /\ (mark = "l" \/ n >= 1)
    BY <1>1, <1>2, <1>3 DEF Page, Min2
  <1>6. last' \in Nat /\ last' < Cap
    BY <1>1, <1>2, CapAssumption
  <1> HIDE DEF n, kept, mark
  <1> QED
    BY <1>1, <1>3, <1>4, <1>5, <1>6, TakeSound

\* A new document has a size, and nothing of it was read.
LEMMA OpenSound == ASSUME IInv, Open PROVE IInv'
  <1>1. size' \in Nat
    <2>1. CASE kind' = "threads"
      <3>1. snap' \in Snapshots /\ size' = Len(ThreadDocument(snap'))
        BY <2>1 DEF Open
      <3>2. ThreadDocument(snap') \in Seq(Char)
        BY <3>1, DocumentFits DEF Texts
      <3> QED
        BY <3>1, <3>2
    <2>2. CASE kind' # "threads"
      BY <2>2, LengthAssumption DEF Open
    <2> QED
      BY <2>1, <2>2
  <1>2. /\ kind' \in {"features", "threads", "libraries"} /\ last' = last
        /\ len' \in (IF kind' = "libraries" THEN LibLengths ELSE Lengths)
        /\ image' = << >> /\ phase' = "reading"
    BY DEF Open
  <1>3. << >> = Positions(0, 0) /\ Len(<< >>) = 0 /\ << >> \in Seq(Nat)
    BY DEF Positions
  <1>4. PagerTypes'
    BY <1>1, <1>2, <1>3 DEF IInv, PagerTypes
  <1>5. WholeDocument'
    BY <1>2, <1>3 DEF IInv, WholeDocument
  <1> QED
    BY <1>1, <1>2, <1>3, <1>4, <1>5 DEF IInv

\* The invariant holds, and no page is empty but the last one.
LEMMA PagesSound ==
    ASSUME GdbLengths
    PROVE  /\ Init => IInv
           /\ IInv /\ [Next]_vars => IInv'
           /\ IInv /\ Next => Advances
  <1>1. Init => IInv
    <2>1. << >> = Positions(0, 0) /\ Len(<< >>) = 0 /\ << >> \in Seq(Nat)
      BY DEF Positions
    <2> QED
      BY <2>1, CapAssumption DEF Init, IInv, PagerTypes, WholeDocument
  <1>2. ASSUME IInv, Next PROVE IInv' /\ Advances
    <2>1. CASE Open
      BY <1>2, <2>1, OpenSound DEF Open, Advances
    <2>2. CASE ReadFeatures
      BY <1>2, <2>2, GdbLengths, ReadPageSound DEF ReadFeatures
    <2>3. CASE ReadThreads
      BY <1>2, <2>3, GdbLengths, ReadPageSound DEF ReadThreads
    <2>4. CASE ReadLibraries
      BY <1>2, <2>4, GdbLengths, ReadLibrariesSound
    <2> QED
      BY <1>2, <2>1, <2>2, <2>3, <2>4 DEF Next
  <1>3. ASSUME IInv, UNCHANGED vars PROVE IInv'
    BY <1>3 DEF vars, IInv, PagerTypes, WholeDocument
  <1> QED
    BY <1>1, <1>2, <1>3

LEMMA IInvHolds == ASSUME GdbLengths PROVE Spec => []IInv
  <1>1. (Init => IInv) /\ (IInv /\ [Next]_vars => IInv')
    BY GdbLengths, PagesSound
  <1> QED
    BY <1>1, PTL DEF Spec

\* With the lengths gdb asks for it gets every document whole.
THEOREM DocumentsWhole == ASSUME GdbLengths PROVE Spec => []WholeDocument
  <1>1. IInv => WholeDocument
    BY DEF IInv
  <1>2. Spec => []IInv
    BY GdbLengths, IInvHolds
  <1> QED
    BY <1>1, <1>2, PTL

\* Every page brings gdb something of the document or ends the reading, so that
\* it never asks for the same page again: the safety half of ReadingEnds.
THEOREM PagesAdvance == ASSUME GdbLengths PROVE Spec => [][Advances]_vars
  <1>1. IInv /\ [Next]_vars => [Advances]_vars
    BY GdbLengths, PagesSound
  <1>2. Spec => []IInv
    BY GdbLengths, IInvHolds
  <1> QED
    BY <1>1, <1>2, PTL DEF Spec

-----------------------------------------------------------------------------
(* The list of threads, read in pages.                                     *)

\* The document that gdb reads is about a snapshot of the threads.
OfSnapshot == kind = "threads" => snap \in Snapshots /\ size = Len(ThreadDocument(snap))

LEMMA OfSnapshotHolds == Spec => []OfSnapshot
  <1>1. Init => OfSnapshot
    BY DEF Init, OfSnapshot
  <1>2. OfSnapshot /\ [Next]_vars => OfSnapshot'
    <2> SUFFICES ASSUME OfSnapshot, [Next]_vars PROVE OfSnapshot'
      OBVIOUS
    <2>1. CASE Open
      BY <2>1, Zenon DEF Open, OfSnapshot
    <2>2. CASE ReadFeatures \/ ReadThreads \/ ReadLibraries
      <3>1. kind' = kind /\ snap' = snap /\ size' = size
        BY <2>2, Zenon DEF ReadFeatures, ReadThreads, ReadLibraries, ReadPage, Take
      <3> QED
        BY <3>1, Zenon DEF OfSnapshot
    <2>3. CASE UNCHANGED vars
      BY <2>3, Zenon DEF vars, OfSnapshot
    <2> QED
      BY <2>1, <2>2, <2>3 DEF Next
  <1> QED
    BY <1>1, <1>2, PTL DEF Spec

\* However long the pages that gdb asks for, it reads every thread back as it
\* is; a list that is too long for the buffer loses threads at its end.
THEOREM ThreadsAreReadBack == ASSUME GdbLengths PROVE Spec => []ThreadsReadBack
  <1>1. IInv /\ OfSnapshot => ThreadsReadBack
    <2> SUFFICES ASSUME IInv, OfSnapshot, kind = "threads", phase = "complete"
                 PROVE  LET document == ThreadDocument(snap)
                            text == [i \in 1..Len(image) |-> document[image[i]]]
                            got  == ReadElements(text)
                        IN  /\ IsPrefix(got, Described(snap))
                            /\ Len(text) < ThreadCap - 2 =>
                                  /\ Len(got) = Len(snap.threads)
                                  /\ Head(text) = "<threads>" /\ Last(text) = "</threads>"
      BY Zenon DEF ThreadsReadBack
    <2> DEFINE document == ThreadDocument(snap)
               text == [i \in 1..Len(image) |-> document[image[i]]]
    <2>1. snap \in Snapshots /\ size = Len(document)
      BY DEF OfSnapshot
    <2>2. document \in Seq(Char)
      BY <2>1, DocumentFits DEF Texts
    <2> HIDE DEF document
    <2>3. Len(image) = Len(document) /\ \A i \in 1..Len(image) : image[i] = i
      <3>1. Len(image) = size /\ image = Positions(0, Len(image)) /\ Len(image) \in Nat
        BY DEF IInv, PagerTypes, WholeDocument
      <3>2. \A i \in 1..Len(image) : Positions(0, Len(image))[i] = 0 + i
        BY DEF Positions
      <3>3. \A i \in 1..Len(image) : image[i] = 0 + i
        BY <3>1, <3>2, Zenon
      <3> QED
        BY <2>1, <3>1, <3>3
    <2>4. text = document
      <3>1. \A i \in 1..Len(document) : document[image[i]] = document[i]
        BY <2>3
      <3>2. document = [i \in 1..Len(document) |-> document[i]]
        BY <2>2
      <3> QED
        BY <2>3, <3>1, <3>2
    <2> QED
      BY <2>1, <2>4, DocumentRead, Zenon DEF document
  <1>2. Spec => []IInv
    BY GdbLengths, IInvHolds
  <1> QED
    BY <1>1, <1>2, OfSnapshotHolds, PTL

=============================================================================
