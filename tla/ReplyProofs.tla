---------------------------- MODULE ReplyProofs ----------------------------
(***************************************************************************)
(* Theorems about Reply, for every capacity and every set of characters:   *)
(* no reply is dropped, a reply is the fields that had room for it, and    *)
(* gdb reads exactly these out of its frame.                               *)
(***************************************************************************)
EXTENDS Reply, NatRecursion

-----------------------------------------------------------------------------
(* The fields and the buffer.                                              *)

\* While a reply is built the buffer holds, up to the offset, the fields put
\* so far, and an index taken in between is that of a shorter reply.
Holds(t, n) == Len(t) = n /\ \A i \in 0 .. n - 1 : out[i] = t[i + 1]

InBuffer == open => /\ Holds(text, offset)
                    /\ saved.index <= offset
                    /\ Holds(saved.text, saved.index)

IInv == TypeOK /\ ReplyIsSent /\ ReplyIsWhatWasPut /\ InBuffer

Field(f) == f \in Seq(1..127) /\ Len(f) \in Nat \ {0}

\* The elements of a sequence over a set are in the set.
LEMMA ElementOf == ASSUME NEW S, NEW s \in Seq(S), NEW i \in 1..Len(s)
                   PROVE  s[i] \in S
  OBVIOUS

\* A field that fits is stored whole, in front of the margin, and what was
\* stored before it stays.
LEMMA StoreSound ==
    ASSUME IInv, open, NEW f, Field(f), Fits(Len(f)), Store(f),
           UNCHANGED <<open, saved, packet, sends>>
    PROVE  IInv'
  <1> USE CapAssumption DEF IInv, Field, Fits, Room
  <1>1. /\ offset' = offset + Len(f) /\ text' = text \o f
        /\ out' = [i \in 0 .. Cap - 1 |->
                     IF i \in offset .. offset + Len(f) - 1
                     THEN f[i - offset + 1] ELSE out[i]]
    BY DEF Store
  <1>2. offset \in 0..Cap-4 /\ Len(text) = offset /\ text \in Seq(1..127)
    BY DEF TypeOK, ReplyIsSent, InBuffer, Holds
  <1>3. offset' \in 0..Cap-4 /\ text' \in Seq(1..127) /\ Len(text') = offset'
    <2>1. offset + Len(f) <= Cap - 4
      OBVIOUS
    <2>2. text \o f \in Seq(1..127) /\ Len(text \o f) = offset + Len(f)
      BY <1>2
    <2> QED
      BY <1>1, <1>2, <2>1, <2>2
  <1>4. out' \in [0 .. Cap - 1 -> 0..127]
    <2>1. ASSUME NEW i \in offset .. offset + Len(f) - 1
          PROVE  f[i - offset + 1] \in 0..127
      <3>1. i - offset + 1 \in 1..Len(f)
        BY <1>2
      <3>2. f[i - offset + 1] \in 1..127
        BY <3>1, ElementOf, Zenon DEF Field
      <3> QED
        BY <3>2
    <2>2. \A i \in 0 .. Cap - 1 : out[i] \in 0..127
      BY DEF TypeOK
    <2> QED
      BY <1>1, <2>1, <2>2
  <1>5. TypeOK'
    BY <1>3, <1>4 DEF TypeOK
  <1>6. ReplyIsSent'
    BY <1>3 DEF ReplyIsSent
  <1>7. ReplyIsWhatWasPut'
    BY DEF ReplyIsWhatWasPut
  <1>8. ASSUME NEW i \in Nat, i < offset'
        PROVE  out'[i] = text'[i + 1]
    <2> HIDE DEF IInv, Field, Fits, Room
    <2>0. f \in Seq(1..127) /\ Len(f) \in Nat
      BY DEF Field
    <2>1. i \in 0 .. Cap - 1 /\ i \in Int /\ offset \in Nat
      <3>1. Cap \in Nat /\ offset \in Nat /\ offset' \in 0 .. Cap - 4
        BY <1>2, <1>3
      <3> QED
        BY <1>8, <3>1
    <2>2. out'[i] = IF i \in offset .. offset + Len(f) - 1
                    THEN f[i - offset + 1] ELSE out[i]
      BY <1>1, <2>1
    <2>3. text'[i + 1] = (text \o f)[i + 1] /\ i + 1 \in 1 .. Len(text) + Len(f)
      BY <1>1, <1>2, <1>8, <2>0
    <2>4. text'[i + 1] = IF i + 1 <= Len(text) THEN text[i + 1]
                         ELSE f[i + 1 - Len(text)]
      BY <1>2, <2>0, <2>3
    <2>5. CASE i < offset
      <3>1. out[i] = text[i + 1]
        BY <1>2, <2>1, <2>5 DEF IInv, InBuffer, Holds
      <3> QED
        BY <1>2, <2>0, <2>1, <2>2, <2>4, <2>5, <3>1
    <2>6. CASE i >= offset
      <3>1. i \in offset .. offset + Len(f) - 1
        BY <1>1, <1>8, <2>0, <2>1, <2>6
      <3>2. i + 1 - Len(text) = i - offset + 1 /\ ~(i + 1 <= Len(text))
        BY <1>2, <2>1, <2>6
      <3> QED
        BY <2>2, <2>4, <3>1, <3>2
    <2> QED
      BY <2>1, <2>5, <2>6
  <1>9. saved'.index <= offset' /\ Holds(saved.text, saved.index)'
    <2> HIDE DEF IInv, Field, Fits, Room
    <2>1. saved' = saved /\ saved.index \in 0 .. Cap - 4 /\ saved.index <= offset
      BY DEF IInv, TypeOK, InBuffer, Room
    <2>2. Holds(saved.text, saved.index)
      BY DEF IInv, InBuffer
    <2>3. offset <= offset'
      BY <1>1, <1>2 DEF Field
    <2>4. \A i \in 0 .. saved.index - 1 : out'[i] = out[i]
      BY <1>1, <1>2, <2>1
    <2> QED
      BY <1>2, <1>3, <2>1, <2>2, <2>3, <2>4 DEF Holds
  <1>10. Holds(text, offset)'
    <2> HIDE DEF IInv, Field, Fits, Room
    <2>1. \A i \in 0 .. offset' - 1 : i \in Nat /\ i < offset'
      <3>1. \A n \in Nat : \A i \in 0 .. n - 1 : i \in Nat /\ i < n
        OBVIOUS
      <3>2. offset' \in Nat
        BY <1>3
      <3> QED
        BY <3>1, <3>2, Zenon
    <2>2. \A i \in 0 .. offset' - 1 : out'[i] = text'[i + 1]
      BY <1>8, <2>1
    <2> QED
      BY <1>3, <2>2 DEF Holds
  <1> QED
    BY <1>5, <1>6, <1>7, <1>9, <1>10 DEF InBuffer

\* The fill behind the offset changes nothing of the reply.
LEMMA FillSound ==
    ASSUME IInv, open, Fill, UNCHANGED <<open, text, saved, packet, sends>>
    PROVE  IInv'
  <1> USE CapAssumption DEF IInv, Room
  <1>1. /\ offset' = offset /\ offset \in 0..Cap-4
        /\ out' = [i \in 0 .. Cap - 1 |->
                     IF i \in offset .. Cap - 4 - 1 THEN 102 ELSE out[i]]
    BY DEF Fill, TypeOK, ReplyIsSent
  <1>2. TypeOK' /\ ReplyIsSent' /\ ReplyIsWhatWasPut'
    BY <1>1 DEF TypeOK, ReplyIsSent, ReplyIsWhatWasPut
  <1>3. \A i \in 0 .. offset - 1 : out'[i] = out[i]
    BY <1>1
  <1>4. InBuffer'
    BY <1>1, <1>3 DEF InBuffer, Holds, TypeOK
  <1> QED
    BY <1>2, <1>4

\* The string in the buffer ends at the offset, for no field holds a 0.
LEMMA SentString ==
    ASSUME IInv, open
    PROVE  CString(Terminated) = text
  <1> USE CapAssumption DEF IInv, Room
  <1> DEFINE b == Terminated
  <1>1. /\ offset \in 0 .. Cap - 4 /\ text \in Seq(1..127) /\ Len(text) = offset
        /\ \A i \in 0 .. offset - 1 : out[i] = text[i + 1]
        /\ out \in [0 .. Cap - 1 -> 0..127]
    BY DEF TypeOK, ReplyIsSent, InBuffer, Holds
  <1>2. b[offset] = 0 /\ \A i \in 0 .. offset - 1 : b[i] = text[i + 1] /\ b[i] # 0
    <2>1. \A i \in 0 .. offset - 1 : text[i + 1] \in 1..127
      <3>1. \A i \in 0 .. offset - 1 : i + 1 \in 1..Len(text)
        BY <1>1
      <3> QED
        BY <1>1, <3>1, ElementOf, Zenon
    <2>2. \A i \in 0 .. offset - 1 : i \in 0 .. Cap - 1 /\ i # offset
      BY <1>1
    <2>3. \A i \in 0 .. offset - 1 : b[i] = out[i]
      BY <1>1, <2>2 DEF Terminated
    <2>4. b[offset] = 0
      BY <1>1 DEF Terminated
    <2> HIDE DEF b
    <2>5. \A i \in 0 .. offset - 1 : b[i] = text[i + 1]
      BY <1>1, <2>3
    <2> QED
      BY <2>1, <2>4, <2>5
  <1>3. ASSUME NEW e \in 0 .. Cap - 1, b[e] = 0, \A j \in 0 .. e - 1 : b[j] # 0
        PROVE  e = offset
    BY <1>1, <1>2, <1>3
  <1> DEFINE end == CHOOSE i \in 0 .. Cap - 1 : b[i] = 0 /\ \A j \in 0 .. i - 1 : b[j] # 0
  <1>4. end = offset
    <2> HIDE DEF b
    <2>1. \E i \in 0 .. Cap - 1 : b[i] = 0 /\ \A j \in 0 .. i - 1 : b[j] # 0
      BY <1>1, <1>2
    <2> QED
      BY <2>1, <1>3
  <1>5. CString(b) = [i \in 1..offset |-> b[i - 1]]
    BY <1>4 DEF CString
  <1>6. [i \in 1..offset |-> b[i - 1]] = [i \in 1..offset |-> text[i]]
    BY <1>1, <1>2
  <1>7. text = [i \in 1..offset |-> text[i]]
    BY <1>1
  <1> QED
    BY <1>5, <1>6, <1>7

\* Every operation keeps the invariant.
THEOREM ReplyInductive == Spec => []IInv
  <1> USE CapAssumption
  <1>1. Init => IInv
    BY DEF Init, IInv, TypeOK, ReplyIsSent, ReplyIsWhatWasPut, InBuffer, Room
  <1>2. IInv /\ [Next]_vars => IInv'
    <2> SUFFICES ASSUME IInv, [Next]_vars
                 PROVE  IInv'
      OBVIOUS
    <2>1. CASE ResetIOOffsets
      <3>1. TypeOK'
        <4>1. out' \in [0 .. Cap - 1 -> 0..127]
          BY <2>1 DEF ResetIOOffsets
        <4>2. /\ offset' = 0 /\ open' = FALSE /\ text' = << >> /\ packet' = << >>
              /\ saved' = [index |-> 0, text |-> << >>] /\ sends' = "none"
          BY <2>1 DEF ResetIOOffsets
        <4>3. << >> \in Seq(1..127) /\ saved' \in [index : 0..Room, text : Seq(1..127)]
          BY <4>2 DEF Room
        <4>4. open' \in BOOLEAN
          BY <4>2, Zenon
        <4>5. offset' \in 0 .. Cap - 3 /\ text' \in Seq(1..127) /\ packet' \in Seq(1..127)
          BY <4>2, <4>3
        <4> QED
          BY <4>1, <4>2, <4>3, <4>4, <4>5 DEF TypeOK
      <3> QED
        BY <2>1, <3>1 DEF ResetIOOffsets, IInv, ReplyIsSent, ReplyIsWhatWasPut,
                          InBuffer
    <2>2. CASE IOInit
      BY <2>2 DEF IOInit, IInv, TypeOK, ReplyIsSent, ReplyIsWhatWasPut, InBuffer,
                  Holds, Room
    <2>3. CASE IOCurrentIndex
      <3>1. /\ open /\ saved' = [index |-> offset, text |-> text]
            /\ UNCHANGED <<offset, out, open, text, packet, sends>>
        BY <2>3 DEF IOCurrentIndex
      <3>2. offset \in 0..Room /\ text \in Seq(1..127)
        BY <3>1 DEF IInv, TypeOK, ReplyIsSent, Room
      <3>3. saved' \in [index : 0..Room, text : Seq(1..127)]
        BY <3>1, <3>2
      <3>4. TypeOK'
        BY <3>1, <3>3 DEF IInv, TypeOK
      <3>5. InBuffer'
        BY <3>1, <3>2 DEF IInv, InBuffer, Holds
      <3> QED
        BY <3>1, <3>4, <3>5 DEF IInv, ReplyIsSent, ReplyIsWhatWasPut
    <2>4. CASE IORestoreIndex
      BY <2>4 DEF IORestoreIndex, IInv, TypeOK, ReplyIsSent, ReplyIsWhatWasPut,
                  InBuffer, Holds, Room
    <2>5. CASE IOSendEx
      <3>1. offset <= Room /\ offset \in Nat
        BY <2>5 DEF IOSendEx, IInv, TypeOK, ReplyIsSent
      <3>2. /\ open' = FALSE /\ out' = Terminated /\ offset' = offset + 1
            /\ packet' = CString(Terminated) /\ sends' = "sent"
            /\ UNCHANGED <<text, saved>>
        BY <2>5, <3>1 DEF IOSendEx, Room
      <3>3. packet' = text'
        BY <2>5, <3>2, SentString DEF IOSendEx
      <3>4. out' \in [0 .. Cap - 1 -> 0..127]
        BY <3>2 DEF Terminated, IInv, TypeOK
      <3>5. TypeOK'
        <4>1. text \in Seq(1..127) /\ offset' \in 0 .. Cap - 3
          BY <3>1, <3>2 DEF IInv, TypeOK, Room
        <4>2. open' \in BOOLEAN
          BY <3>2, Zenon
        <4> QED
          BY <3>2, <3>3, <3>4, <4>1, <4>2 DEF IInv, TypeOK
      <3> QED
        BY <3>2, <3>3, <3>5 DEF IInv, ReplyIsSent, ReplyIsWhatWasPut, InBuffer
    <2>6. ASSUME NEW c \in Symbols \cup Digits, IOPutChar(c)
          PROVE  IInv'
      <3>1. Field(<<c>>) /\ Len(<<c>>) = 1
        BY SymbolAssumption DEF Field
      <3>2. CASE Fits(1)
        BY <2>6, <3>1, <3>2, StoreSound DEF IOPutChar
      <3>3. CASE ~Fits(1)
        BY <2>6, <3>3 DEF IOPutChar, IInv, TypeOK, ReplyIsSent, ReplyIsWhatWasPut,
                          InBuffer, Holds
      <3> QED
        BY <3>2, <3>3
    <2>7. ASSUME NEW d \in Digits, IOPutCharAsHex(d)
          PROVE  IInv'
      <3>1. Field(<<d, d>>) /\ Len(<<d, d>>) = 2
        BY SymbolAssumption DEF Field
      <3>2. CASE Fits(2)
        BY <2>7, <3>1, <3>2, StoreSound DEF IOPutCharAsHex
      <3>3. CASE ~Fits(2)
        BY <2>7, <3>3 DEF IOPutCharAsHex, IInv, TypeOK, ReplyIsSent,
                          ReplyIsWhatWasPut, InBuffer, Holds
      <3> QED
        BY <3>2, <3>3
    <2>8. ASSUME NEW n \in {2, 4, 8}, NEW d \in Digits, IOPutHex(n, d)
          PROVE  IInv'
      <3> DEFINE field == [i \in 1..n |-> d]
      <3>1. Field(field) /\ Len(field) = n
        BY SymbolAssumption DEF Field
      <3>2. CASE Fits(n)
        <4>1. Store(field) /\ open /\ UNCHANGED <<open, saved, packet, sends>>
          BY <2>8, <3>2 DEF IOPutHex
        <4> QED
          BY <3>1, <3>2, <4>1, StoreSound
      <3>3. CASE ~Fits(n)
        BY <2>8, <3>3, FillSound DEF IOPutHex
      <3> QED
        BY <3>2, <3>3
    <2>9. CASE UNCHANGED vars
      BY <2>9 DEF vars, IInv, TypeOK, ReplyIsSent, ReplyIsWhatWasPut, InBuffer, Holds
    <2> QED
      BY <2>1, <2>2, <2>3, <2>4, <2>5, <2>6, <2>7, <2>8, <2>9 DEF Next
  <1> QED
    BY <1>1, <1>2, PTL DEF Spec

\* The variables of the model keep their types, the offset its bound.
THEOREM BufferTypes == Spec => []TypeOK
  <1>1. IInv => TypeOK
    BY DEF IInv
  <1> QED
    BY <1>1, ReplyInductive, PTL

\* MasterAgent_IOSendEx never finds the offset behind the margin.
THEOREM RepliesAreSent == Spec => []ReplyIsSent
  <1>1. IInv => ReplyIsSent
    BY DEF IInv
  <1> QED
    BY <1>1, ReplyInductive, PTL

\* The string given to MasterAgent_PutPacket is the fields that had room.
THEOREM RepliesAreWhatWasPut == Spec => []ReplyIsWhatWasPut
  <1>1. IInv => ReplyIsWhatWasPut
    BY DEF IInv
  <1> QED
    BY <1>1, ReplyInductive, PTL

-----------------------------------------------------------------------------
(* The frame of a packet.                                                  *)

Codes == 1..127

\* What no frame has between '$' and '#': the characters that mean something.
Clean == Codes \ {Hash, Dollar, Star}

\* An escape is one clean character or two, from which the first can be told.
LEMMA EscapeShape ==
    ASSUME NEW c \in Codes
    PROVE  /\ Escape(c) \in Seq(Clean)
           /\ c \in Special => /\ Escape(c) = <<Brace, Flip(c)>> /\ Len(Escape(c)) = 2
                               /\ Flip(Flip(c)) = c
           /\ c \notin Special => /\ Escape(c) = <<c>> /\ Len(Escape(c)) = 1
                                  /\ c # Brace
  <1> USE DEF Codes, Clean, Special, Hash, Dollar, Star, Brace
  <1>1. CASE c \in Special
    <2>1. /\ c = 35 => Flip(c) = 3 /\ Flip(3) = c
          /\ c = 36 => Flip(c) = 4 /\ Flip(4) = c
          /\ c = 42 => Flip(c) = 10 /\ Flip(10) = c
          /\ c = 125 => Flip(c) = 93 /\ Flip(93) = c
      BY DEF Flip
    <2>2. Flip(c) \in Clean /\ Flip(Flip(c)) = c /\ Brace \in Clean
      BY <1>1, <2>1
    <2>3. Escape(c) = <<Brace, Flip(c)>>
      BY <1>1 DEF Escape
    <2> QED
      BY <1>1, <2>2, <2>3
  <1>2. CASE c \notin Special
    <2>1. c \in Clean
      BY <1>2
    <2>2. Escape(c) = <<c>>
      BY <1>2 DEF Escape
    <2> QED
      BY <1>2, <2>1, <2>2
  <1> QED
    BY <1>1, <1>2

\* Written is what its recursion says.
LEMMA WrittenSteps ==
    ASSUME NEW p \in Seq(Codes)
    PROVE  /\ Written(p)[0] = << >>
           /\ \A i \in 1..Len(p) : Written(p)[i] = Written(p)[i - 1] \o Escape(p[i])
  <1> DEFINE N == Len(p)
             X == Seq(Clean)
             F == [q \in (1..N) \X X |-> q[2] \o Escape(p[q[1]])]
             Body1(f) == [i \in 0..N |-> IF i = 0 THEN << >> ELSE f[i - 1] \o Escape(p[i])]
  <1>1. N \in Nat /\ << >> \in X
    OBVIOUS
  <1>2. \A i \in 1..N : Escape(p[i]) \in X
    <2>1. \A i \in 1..N : p[i] \in Codes
      OBVIOUS
    <2> QED
      BY <2>1, EscapeShape
  <1>3. F \in [(1..N) \X X -> X]
    <2> HIDE DEF N
    <2>1. ASSUME NEW q \in (1..N) \X X PROVE q[2] \o Escape(p[q[1]]) \in X
      BY <1>2, <2>1
    <2> QED
      BY <2>1
  <1>4. PICK g : g \in [0..N -> X] /\ g[0] = << >> /\ \A i \in 1..N : g[i] = F[<<i, g[i - 1]>>]
    <2> HIDE DEF N, X, F
    <2> DEFINE x0 == << >>
    <2>1. x0 \in X
      BY <1>1
    <2> HIDE DEF x0
    <2>2. PICK g : Solves(g, N, X, x0, F)
      BY <1>1, <1>3, <2>1, RecursionSolved
    <2> QED
      BY <2>2 DEF x0, Solves
  <1>5. \A i \in 1..N : g[i] = g[i - 1] \o Escape(p[i])
    <2> HIDE DEF N
    <2> SUFFICES ASSUME NEW i \in 1..N PROVE g[i] = g[i - 1] \o Escape(p[i])
      OBVIOUS
    <2>1. i - 1 \in 0..N
      BY <1>1
    <2>2. <<i, g[i - 1]>> \in (1..N) \X X
      BY <1>4, <2>1
    <2> QED
      BY <1>4, <2>2
  <1>6. g = Body1(g)
    <2> HIDE DEF N
    <2>1. ASSUME NEW i \in 0..N
          PROVE  g[i] = IF i = 0 THEN << >> ELSE g[i - 1] \o Escape(p[i])
      <3>1. CASE i = 0
        BY <1>4, <3>1, Zenon
      <3>2. CASE i # 0
        <4>1. i \in 1..N
          BY <1>1, <3>2
        <4> QED
          BY <1>5, <3>2, <4>1, Zenon
      <3> QED
        BY <3>1, <3>2
    <2>2. g = [i \in 0..N |-> g[i]]
      BY <1>4
    <2> QED
      BY <2>1, <2>2, Zenon
  <1>7. Written(p) = CHOOSE f : f = Body1(f)
    BY DEF Written
  <1>8. Written(p) = Body1(Written(p))
    <2> HIDE DEF Body1
    <2> QED
      BY <1>6, <1>7
  <1> HIDE DEF N
  <1>9. ASSUME NEW i \in 0..N
        PROVE  Written(p)[i] = IF i = 0 THEN << >> ELSE Written(p)[i - 1] \o Escape(p[i])
    <2> DEFINE W == Written(p)
    <2> HIDE DEF W
    <2>1. W = Body1(W)
      BY <1>8 DEF W
    <2>2. Body1(W)[i] = IF i = 0 THEN << >> ELSE W[i - 1] \o Escape(p[i])
      OBVIOUS
    <2> HIDE DEF Body1
    <2> QED
      BY <2>1, <2>2 DEF W
  <1>10. 0 \in 0..N /\ \A i \in 1..N : i \in 0..N /\ i # 0
    BY <1>1
  <1> QED
    BY <1>9, <1>10 DEF N

\* Decoded is what its recursion says.
LEMMA DecodedSteps ==
    ASSUME NEW s \in Seq(Codes)
    PROVE  /\ Decoded(s)[0] = [text |-> << >>, escape |-> FALSE]
           /\ \A i \in 1..Len(s) : Decoded(s)[i] = Decode(Decoded(s)[i - 1], s[i])
  <1> DEFINE N == Len(s)
             X == [text : Seq(Nat), escape : BOOLEAN]
             start == [text |-> << >>, escape |-> FALSE]
             F == [q \in (1..N) \X X |-> Decode(q[2], s[q[1]])]
             Body1(f) == [i \in 0..N |-> IF i = 0 THEN start ELSE Decode(f[i - 1], s[i])]
  <1>1. N \in Nat /\ start \in X
    OBVIOUS
  <1>2. ASSUME NEW r \in X, NEW c \in Codes
        PROVE  Decode(r, c) \in X
    <2>1. c \in Nat /\ Flip(c) \in Nat
      <3>1. c \in 1..127
        BY DEF Codes
      <3>2. CASE c < 32
        <4>1. c \div 32 = 0 /\ 0 % 2 = 0
          BY <3>1, <3>2
        <4> QED
          BY <3>1, <4>1 DEF Flip
      <3>3. CASE c >= 32
        BY <3>1, <3>3 DEF Flip
      <3> QED
        BY <3>1, <3>2, <3>3
    <2>2. r.text \in Seq(Nat) /\ r.escape \in BOOLEAN
      OBVIOUS
    <2>3. Append(r.text, c) \in Seq(Nat) /\ Append(r.text, Flip(c)) \in Seq(Nat)
      BY <2>1, <2>2
    <2> QED
      BY <2>2, <2>3 DEF Decode
  <1>3. F \in [(1..N) \X X -> X]
    <2>1. \A i \in 1..N : s[i] \in Codes
      OBVIOUS
    <2> HIDE DEF N, X
    <2>2. ASSUME NEW q \in (1..N) \X X PROVE Decode(q[2], s[q[1]]) \in X
      BY <1>2, <2>1, <2>2
    <2> QED
      BY <2>2
  <1> HIDE DEF N, X, start
  <1>4. PICK g : g \in [0..N -> X] /\ g[0] = start /\ \A i \in 1..N : g[i] = F[<<i, g[i - 1]>>]
    <2> HIDE DEF F
    <2>1. PICK g : Solves(g, N, X, start, F)
      BY <1>1, <1>3, RecursionSolved
    <2> QED
      BY <2>1 DEF Solves
  <1>5. \A i \in 1..N : g[i] = Decode(g[i - 1], s[i])
    <2> SUFFICES ASSUME NEW i \in 1..N PROVE g[i] = Decode(g[i - 1], s[i])
      OBVIOUS
    <2>1. i - 1 \in 0..N
      BY <1>1
    <2>2. <<i, g[i - 1]>> \in (1..N) \X X
      BY <1>4, <2>1
    <2> QED
      BY <1>4, <2>2
  <1>6. g = Body1(g)
    <2>1. ASSUME NEW i \in 0..N
          PROVE  g[i] = IF i = 0 THEN start ELSE Decode(g[i - 1], s[i])
      <3>1. CASE i = 0
        BY <1>4, <3>1, Zenon
      <3>2. CASE i # 0
        <4>1. i \in 1..N
          BY <1>1, <3>2
        <4> QED
          BY <1>5, <3>2, <4>1, Zenon
      <3> QED
        BY <3>1, <3>2
    <2>2. g = [i \in 0..N |-> g[i]]
      BY <1>4
    <2> QED
      BY <2>1, <2>2, Zenon
  <1>7. Decoded(s) = CHOOSE f : f = Body1(f)
    BY DEF Decoded, N, start
  <1>8. Decoded(s) = Body1(Decoded(s))
    <2> HIDE DEF Body1
    <2> QED
      BY <1>6, <1>7
  <1>9. ASSUME NEW i \in 0..N
        PROVE  Decoded(s)[i] = IF i = 0 THEN start ELSE Decode(Decoded(s)[i - 1], s[i])
    <2> DEFINE D == Decoded(s)
    <2> HIDE DEF D
    <2>1. D = Body1(D)
      BY <1>8 DEF D
    <2>2. Body1(D)[i] = IF i = 0 THEN start ELSE Decode(D[i - 1], s[i])
      OBVIOUS
    <2> HIDE DEF Body1
    <2> QED
      BY <2>1, <2>2 DEF D
  <1>10. 0 \in 0..N /\ \A i \in 1..N : i \in 0..N /\ i # 0
    BY <1>1
  <1> QED
    BY <1>9, <1>10 DEF N, start

\* The payload is free of what would end or compress the frame, and at most
\* twice as long as the packet.
LEMMA WrittenClean ==
    ASSUME NEW p \in Seq(Codes)
    PROVE  \A n \in 0..Len(p) : Written(p)[n] \in Seq(Clean) /\ Len(Written(p)[n]) <= 2 * n
  <1> DEFINE N == Len(p)
             W == Written(p)
             T == {n \in Nat : n <= N => W[n] \in Seq(Clean) /\ Len(W[n]) <= 2 * n}
  <1>1. W[0] = << >> /\ \A i \in 1..N : W[i] = W[i - 1] \o Escape(p[i])
    BY WrittenSteps
  <1>2. \A i \in 1..N : Escape(p[i]) \in Seq(Clean) /\ Len(Escape(p[i])) \in 1..2
    <2>1. ASSUME NEW i \in 1..N PROVE Escape(p[i]) \in Seq(Clean) /\ Len(Escape(p[i])) \in 1..2
      <3>1. p[i] \in Codes
        OBVIOUS
      <3> QED
        BY <3>1, EscapeShape
    <2> QED
      BY <2>1
  <1>3. N \in Nat
    OBVIOUS
  <1> HIDE DEF N, W
  <1>4. 0 \in T
    <2>1. << >> \in Seq(Clean) /\ Len(<< >>) <= 2 * 0
      OBVIOUS
    <2>2. W[0] \in Seq(Clean) /\ Len(W[0]) <= 2 * 0
      BY <1>1, <2>1, Zenon
    <2> QED
      BY <2>2
  <1>5. ASSUME NEW n \in T
        PROVE  n + 1 \in T
    <2>1. n \in Nat /\ n + 1 \in Nat /\ (n + 1) - 1 = n
      OBVIOUS
    <2>2. CASE n + 1 <= N
      <3>1. n + 1 \in 1..N
        BY <2>1, <2>2, <1>3
      <3>2. W[n] \in Seq(Clean) /\ Len(W[n]) <= 2 * n
        BY <2>1, <2>2, <1>3
      <3>3. W[n + 1] = W[n] \o Escape(p[n + 1])
        BY <1>1, <2>1, <3>1
      <3>4. Escape(p[n + 1]) \in Seq(Clean) /\ Len(Escape(p[n + 1])) \in 1..2
        BY <1>2, <3>1
      <3>5. W[n + 1] \in Seq(Clean) /\ Len(W[n + 1]) <= 2 * (n + 1)
        <4> DEFINE e == Escape(p[n + 1])
                   w == W[n]
        <4>1. /\ w \in Seq(Clean) /\ Len(w) \in Nat /\ Len(w) <= 2 * n
              /\ e \in Seq(Clean) /\ Len(e) \in 1..2
          BY <3>2, <3>4
        <4> HIDE DEF e, w
        <4>2. w \o e \in Seq(Clean) /\ Len(w \o e) = Len(w) + Len(e)
          BY <4>1
        <4>3. Len(w) + Len(e) <= 2 * (n + 1)
          <5>1. \A a, b \in Nat : a <= 2 * n /\ b <= 2 => a + b <= 2 * (n + 1)
            BY <2>1
          <5>2. Len(e) \in Nat /\ Len(e) <= 2
            <6>1. \A b \in 1..2 : b \in Nat /\ b <= 2
              OBVIOUS
            <6> QED
              BY <4>1, <6>1, Zenon
          <5> QED
            BY <4>1, <5>1, <5>2, Zenon
        <4>4. w \o e \in Seq(Clean) /\ Len(w \o e) <= 2 * (n + 1)
          BY <4>2, <4>3
        <4> QED
          BY <3>3, <4>4 DEF e, w
      <3> QED
        BY <2>1, <3>5
    <2>3. CASE ~(n + 1 <= N)
      BY <2>1, <2>3
    <2> QED
      BY <2>2, <2>3
  <1>6. T = Nat
    <2>1. T \in SUBSET Nat
      OBVIOUS
    <2> HIDE DEF T
    <2> QED
      BY <1>4, <1>5, <2>1, NatSets
  <1> QED
    BY <1>3, <1>6 DEF N, W

\* What was written stays at the start of what is written.
LEMMA WrittenPrefix ==
    ASSUME NEW p \in Seq(Codes), NEW n \in 0..Len(p)
    PROVE  /\ Len(Written(p)[n]) <= Len(Payload(p))
           /\ \A j \in 1..Len(Written(p)[n]) : Payload(p)[j] = Written(p)[n][j]
  <1> DEFINE N == Len(p)
             W == Written(p)
             Start(m) == /\ Len(W[m]) <= Len(W[N])
                         /\ \A j \in 1..Len(W[m]) : W[N][j] = W[m][j]
             T == {k \in Nat : k <= N => Start(N - k)}
  <1>1. \A i \in 1..N : W[i] = W[i - 1] \o Escape(p[i])
    BY WrittenSteps
  <1>2. \A i \in 0..N : W[i] \in Seq(Clean)
    BY WrittenClean
  <1>3. \A i \in 1..N : Escape(p[i]) \in Seq(Clean)
    <2>1. \A i \in 1..N : p[i] \in Codes
      OBVIOUS
    <2> QED
      BY <2>1, EscapeShape
  <1>4. N \in Nat
    OBVIOUS
  <1> HIDE DEF N, W
  <1>5. ASSUME NEW i \in 1..N, Start(i)
        PROVE  Start(i - 1)
    <2> DEFINE w == W[i - 1]
               e == Escape(p[i])
               v == W[i]
    <2>1. w \in Seq(Clean) /\ e \in Seq(Clean) /\ v = w \o e
      <3>1. i \in 1..N /\ i - 1 \in 0..N
        BY <1>4
      <3> QED
        BY <1>1, <1>2, <1>3, <3>1, Zenon
    <2> HIDE DEF w, e, v
    <2>2. /\ Len(w) \in Nat /\ Len(v) \in Nat /\ Len(w) <= Len(v)
          /\ \A j \in 1..Len(w) : v[j] = w[j]
      BY <2>1
    <2>3. Len(v) <= Len(W[N]) /\ \A j \in 1..Len(v) : W[N][j] = v[j]
      BY <1>5 DEF v
    <2>4. Len(W[N]) \in Nat
      BY <1>2, <1>4
    <2>5. Len(w) <= Len(W[N]) /\ \A j \in 1..Len(w) : W[N][j] = w[j]
      BY <2>2, <2>3, <2>4
    <2> QED
      BY <2>5 DEF w
  <1>6. 0 \in T
    <2>1. Len(W[N]) \in Nat /\ N - 0 = N
      BY <1>2, <1>4
    <2> QED
      BY <2>1
  <1>7. ASSUME NEW k \in T
        PROVE  k + 1 \in T
    <2> HIDE DEF Start
    <2>1. k \in Nat /\ k + 1 \in Nat /\ (k <= N => Start(N - k))
      OBVIOUS
    <2>2. CASE k + 1 <= N
      <3>1. N - k \in 1..N /\ (N - k) - 1 = N - (k + 1) /\ k <= N
        BY <1>4, <2>1, <2>2
      <3>2. Start((N - k) - 1)
        BY <1>5, <2>1, <3>1
      <3> QED
        BY <2>1, <3>1, <3>2
    <2>3. CASE ~(k + 1 <= N)
      BY <2>1, <2>3
    <2> QED
      BY <2>2, <2>3
  <1>8. T = Nat
    <2>1. T \in SUBSET Nat
      OBVIOUS
    <2> HIDE DEF T
    <2> QED
      BY <1>6, <1>7, <2>1, NatSets
  <1>9. Start(n)
    <2> HIDE DEF Start
    <2>1. n \in Nat /\ N - n \in Nat /\ N - n <= N /\ N - (N - n) = n
      BY <1>4 DEF N
    <2>2. N - n \in T
      BY <1>8, <2>1
    <2> QED
      BY <2>1, <2>2
  <1> QED
    BY <1>9 DEF Start, N, W, Payload

\* Reading the payload gives the packet back.
LEMMA UnescapePayload ==
    ASSUME NEW p \in Seq(Codes)
    PROVE  Unescape(Payload(p)) = p
  <1> DEFINE N == Len(p)
             W == Written(p)
             P == Payload(p)
             D == Decoded(P)
             Read(k) == [text |-> SubSeq(p, 1, k), escape |-> FALSE]
             T == {k \in Nat : k <= N => D[Len(W[k])] = Read(k)}
  <1>1. W[0] = << >> /\ \A i \in 1..N : W[i] = W[i - 1] \o Escape(p[i])
    BY WrittenSteps
  <1>2. N \in Nat /\ P = W[N] /\ P \in Seq(Codes) /\ Len(P) \in Nat
    <2>1. N \in Nat /\ P = W[N]
      BY DEF Payload
    <2>2. P \in Seq(Clean)
      <3>1. N \in 0..Len(p)
        BY <2>1
      <3> QED
        BY <2>1, <3>1, WrittenClean, Zenon
    <2>3. Clean \subseteq Codes
      BY DEF Clean
    <2> QED
      BY <2>1, <2>2, <2>3
  <1>3. D[0] = [text |-> << >>, escape |-> FALSE] /\ \A i \in 1..Len(P) : D[i] = Decode(D[i - 1], P[i])
    BY <1>2, DecodedSteps
  <1>4. ASSUME NEW k \in 1..N, D[Len(W[k - 1])] = Read(k - 1)
        PROVE  D[Len(W[k])] = Read(k)
    <2> DEFINE c == p[k]
               e == Escape(c)
               w == W[k - 1]
               L == Len(w)
    <2>1. c \in Codes /\ k \in 0..N /\ k - 1 \in 0..N
      BY <1>2
    <2>2. w \in Seq(Clean) /\ L \in Nat /\ e \in Seq(Clean) /\ W[k] = w \o e
      <3>1. w \in Seq(Clean)
        BY <2>1, WrittenClean, Zenon
      <3>2. e \in Seq(Clean)
        BY <2>1, EscapeShape, Zenon
      <3>3. W[k] = w \o e
        BY <1>1, Zenon
      <3> HIDE DEF w
      <3> QED
        BY <3>1, <3>2, <3>3
    <2>3. Len(W[k]) <= Len(P) /\ \A j \in 1..Len(W[k]) : P[j] = W[k][j]
      BY <2>1, WrittenPrefix
    <2>4. Append(SubSeq(p, 1, k - 1), c) = SubSeq(p, 1, k)
      BY <1>2
    <2> HIDE DEF N, W, P, D, c, e, w, L
    <2>5. \A j \in 1..Len(e) : L + j \in 1..Len(P) /\ P[L + j] = e[j]
      <3> SUFFICES ASSUME NEW j \in 1..Len(e)
                   PROVE  L + j \in 1..Len(P) /\ P[L + j] = e[j]
        OBVIOUS
      <3> DEFINE v == W[k]
      <3>1. v = w \o e
        BY <2>2
      <3> HIDE DEF v
      <3>2. Len(v) = L + Len(e) /\ v[L + j] = e[j] /\ L + j \in 1..Len(v)
        BY <2>2, <3>1 DEF L
      <3>3. Len(v) <= Len(P) /\ P[L + j] = v[L + j]
        BY <2>3, <3>2 DEF v
      <3> QED
        BY <1>2, <2>2, <3>2, <3>3
    <2>6. Len(W[k]) = L + Len(e)
      BY <2>2 DEF L
    <2>7. D[L] = [text |-> SubSeq(p, 1, k - 1), escape |-> FALSE]
      BY <1>4 DEF L, w
    <2>8. CASE c \in Special
      <3>1. e = <<Brace, Flip(c)>> /\ Len(e) = 2 /\ Flip(Flip(c)) = c
        BY <2>1, <2>8, EscapeShape DEF e
      <3>2. P[L + 1] = Brace /\ P[L + 2] = Flip(c) /\ {L + 1, L + 2} \subseteq 1..Len(P)
        BY <2>5, <3>1
      <3>3. D[L + 1] = Decode(D[L], Brace)
        BY <1>3, <2>2, <3>2
      <3>4. D[L + 2] = Decode(D[L + 1], Flip(c))
        BY <1>3, <2>2, <3>2
      <3>5. D[L + 1] = [text |-> SubSeq(p, 1, k - 1), escape |-> TRUE]
        BY <2>7, <3>3 DEF Decode
      <3>6. D[L + 2] = [text |-> Append(SubSeq(p, 1, k - 1), c), escape |-> FALSE]
        BY <3>1, <3>4, <3>5 DEF Decode
      <3> QED
        BY <2>4, <2>6, <3>1, <3>6
    <2>9. CASE c \notin Special
      <3>1. e = <<c>> /\ Len(e) = 1 /\ c # Brace
        BY <2>1, <2>9, EscapeShape DEF e
      <3>2. P[L + 1] = c /\ L + 1 \in 1..Len(P)
        BY <2>5, <3>1
      <3>3. D[L + 1] = Decode(D[L], c)
        BY <1>3, <2>2, <3>2
      <3>4. D[L + 1] = [text |-> Append(SubSeq(p, 1, k - 1), c), escape |-> FALSE]
        BY <2>7, <3>1, <3>3 DEF Decode
      <3> QED
        BY <2>4, <2>6, <3>1, <3>4
    <2> QED
      BY <2>8, <2>9
  <1>5. SubSeq(p, 1, 0) = << >> /\ SubSeq(p, 1, N) = p
    OBVIOUS
  <1> HIDE DEF N, W, P, D, Read
  <1>6. 0 \in T
    <2>1. Len(<< >>) = 0
      OBVIOUS
    <2> QED
      BY <1>1, <1>3, <1>5, <2>1 DEF Read
  <1>7. ASSUME NEW k \in T
        PROVE  k + 1 \in T
    <2>1. k \in Nat /\ k + 1 \in Nat /\ (k + 1) - 1 = k
      OBVIOUS
    <2>2. CASE k + 1 <= N
      <3>1. k + 1 \in 1..N /\ k <= N
        BY <1>2, <2>1, <2>2
      <3>2. D[Len(W[(k + 1) - 1])] = Read((k + 1) - 1)
        BY <2>1, <3>1
      <3>3. D[Len(W[k + 1])] = Read(k + 1)
        BY <1>4, <3>1, <3>2
      <3> QED
        BY <2>1, <3>3
    <2>3. CASE ~(k + 1 <= N)
      BY <2>1, <2>3
    <2> QED
      BY <2>2, <2>3
  <1>8. T = Nat
    <2>1. T \in SUBSET Nat
      OBVIOUS
    <2> HIDE DEF T
    <2> QED
      BY <1>6, <1>7, <2>1, NatSets
  <1>9. D[Len(P)] = Read(N)
    BY <1>2, <1>8
  <1>10. Unescape(P) = Read(N).text
    BY <1>9 DEF Unescape, D
  <1> QED
    BY <1>5, <1>10 DEF Read, P

\* F is P with d in front and x, y, z behind.
Encloses(F, d, P, x, y, z) ==
    /\ Len(F) = Len(P) + 4 /\ F[1] = d /\ Head(F) = d
    /\ \A i \in 1..Len(P) : F[i + 1] = P[i]
    /\ F[Len(P) + 2] = x
    /\ SubSeq(F, 2, Len(P) + 1) = P
    /\ SubSeq(F, Len(P) + 3, Len(F)) = <<y, z>>

\* Where the elements of a sequence with one in front and three behind are.
LEMMA Enclosed ==
    ASSUME NEW S, NEW d \in S, NEW P \in Seq(S), NEW x \in S, NEW y \in S, NEW z \in S
    PROVE  Encloses(<<d>> \o P \o <<x, y, z>>, d, P, x, y, z)
  <1> DEFINE F == <<d>> \o P \o <<x, y, z>>
  <1> DEFINE L == Len(P)
             D == <<d>>
             G == D \o P
             E == <<x, y, z>>
  <1>1. D \in Seq(S) /\ Len(D) = 1 /\ D[1] = d
    OBVIOUS
  <1>2. E \in Seq(S) /\ Len(E) = 3 /\ E[1] = x /\ E[2] = y /\ E[3] = z
    OBVIOUS
  <1>3. L \in Nat /\ L = Len(P) /\ F = G \o E
    OBVIOUS
  <1> HIDE DEF D, E, L, F
  <1>4. G \in Seq(S) /\ Len(G) = L + 1 /\ G[1] = d /\ \A i \in 1..L : G[i + 1] = P[i]
    <2>1. /\ G \in Seq(S) /\ Len(G) = Len(D) + Len(P)
          /\ \A i \in 1..Len(D) : G[i] = D[i]
          /\ \A i \in 1..Len(P) : G[Len(D) + i] = P[i]
      <3>1. D \in Seq(S)
        BY <1>1
      <3> QED
        BY <3>1, Joined
    <2> HIDE DEF G
    <2>2. \A i \in 1..L : 1 + i = i + 1
      OBVIOUS
    <2>3. 1 + L = L + 1 /\ 1 \in 1..1
      BY <1>3
    <2> QED
      BY <1>1, <1>3, <2>1, <2>2, <2>3, Zenon
  <1> HIDE DEF G
  <1>6. /\ F \in Seq(S) /\ Len(F) = Len(G) + 3
        /\ \A i \in 1..Len(G) : F[i] = G[i]
        /\ \A i \in 1..3 : F[Len(G) + i] = E[i]
    <2>1. /\ G \o E \in Seq(S) /\ Len(G \o E) = Len(G) + Len(E)
          /\ \A i \in 1..Len(G) : (G \o E)[i] = G[i]
          /\ \A i \in 1..Len(E) : (G \o E)[Len(G) + i] = E[i]
      <3>1. G \in Seq(S) /\ E \in Seq(S)
        BY <1>2, <1>4
      <3> QED
        BY <3>1, Joined
    <2> QED
      BY <1>2, <1>3, <2>1, Zenon
  <1>7. /\ Len(F) = L + 4 /\ \A i \in 1 .. L + 1 : F[i] = G[i]
        /\ F[L + 2] = x /\ F[L + 3] = y /\ F[L + 4] = z
    <2>1. F[(L + 1) + 1] = x /\ F[(L + 1) + 2] = y /\ F[(L + 1) + 3] = z
      BY <1>2, <1>4, <1>6
    <2>2. (L + 1) + 1 = L + 2 /\ (L + 1) + 2 = L + 3 /\ (L + 1) + 3 = L + 4
      BY <1>3
    <2> QED
      BY <1>4, <1>6, <2>1, <2>2, Zenon
  <1>8. F[1] = d /\ Head(F) = d /\ \A i \in 1..L : F[i + 1] = P[i]
    BY <1>3, <1>4, <1>6, <1>7
  <1>9. SubSeq(F, 2, L + 1) = P
    <2> DEFINE M == SubSeq(F, 2, L + 1)
    <2>1. M \in Seq(S) /\ Len(M) = L /\ \A i \in 1..L : M[i] = F[i + 1]
      BY <1>3, <1>6, <1>7
    <2> HIDE DEF M
    <2>2. M = P
      BY <1>3, <1>8, <2>1, SeqEqual
    <2> QED
      BY <2>2 DEF M
  <1>10. SubSeq(F, L + 3, Len(F)) = <<y, z>>
    <2> DEFINE u == SubSeq(F, L + 3, Len(F))
               v == <<y, z>>
    <2>1. v[1] = y /\ v[2] = z /\ v \in Seq(S) /\ Len(v) = 2
      OBVIOUS
    <2>2. u \in Seq(S) /\ Len(u) = 2 /\ u[1] = y /\ u[2] = z
      <3>1. Len(F) = L + 4 /\ L \in Nat
        BY <1>3, <1>7
      <3>2. u \in Seq(S) /\ Len(u) = 2
        BY <1>6, <3>1
      <3>3. u[1] = F[L + 3] /\ u[2] = F[L + 4]
        BY <1>6, <3>1
      <3> QED
        BY <1>7, <3>2, <3>3
    <2> HIDE DEF u, v
    <2>3. \A i \in 1..Len(u) : u[i] = v[i]
      <3>1. \A i \in 1..2 : i = 1 \/ i = 2
        OBVIOUS
      <3> QED
        BY <2>1, <2>2, <3>1, Zenon
    <2>4. u = v
      BY <2>1, <2>2, <2>3, SeqEqual
    <2> QED
      BY <2>4 DEF u, v
  <1> QED
    BY <1>3, <1>6, <1>7, <1>8, <1>9, <1>10 DEF Encloses, F

\* What Frame puts where.
LEMMA FrameShape ==
    ASSUME NEW p \in Seq(Codes)
    PROVE  /\ Payload(p) \in Seq(Clean) /\ Len(Payload(p)) <= 2 * Len(p)
           /\ Len(Frame(p)) = Len(Payload(p)) + 4
           /\ Frame(p)[1] = Dollar /\ Head(Frame(p)) = Dollar
           /\ \A i \in 1..Len(Payload(p)) : Frame(p)[i + 1] = Payload(p)[i]
           /\ Frame(p)[Len(Payload(p)) + 2] = Hash
           /\ SubSeq(Frame(p), 2, Len(Payload(p)) + 1) = Payload(p)
           /\ SubSeq(Frame(p), Len(Payload(p)) + 3, Len(Frame(p)))
                  = <<HexChar(ByteSum(Payload(p)) \div 16), HexChar(ByteSum(Payload(p)) % 16)>>
  <1> DEFINE P == Payload(p)
             a == HexChar(ByteSum(P) \div 16)
             b == HexChar(ByteSum(P) % 16)
             S == Clean \cup {Dollar, Hash, a, b}
  <1>1. P \in Seq(Clean) /\ Len(P) <= 2 * Len(p)
    <2>1. Len(p) \in 0..Len(p)
      OBVIOUS
    <2> QED
      BY <2>1, WrittenClean, Zenon DEF Payload
  <1>2. Frame(p) = <<Dollar>> \o P \o <<Hash, a, b>>
    BY DEF Frame, Checksum
  <1> HIDE DEF P, a, b
  <1>3. P \in Seq(S) /\ {Dollar, Hash, a, b} \subseteq S
    BY <1>1
  <1>4. Encloses(Frame(p), Dollar, P, Hash, a, b)
    <2>1. Dollar \in S /\ Hash \in S /\ a \in S /\ b \in S /\ P \in Seq(S)
      BY <1>3
    <2> HIDE DEF S
    <2>2. Encloses(<<Dollar>> \o P \o <<Hash, a, b>>, Dollar, P, Hash, a, b)
      BY <2>1, Enclosed
    <2> QED
      BY <1>2, <2>2, Zenon
  <1> QED
    BY <1>1, <1>4 DEF Encloses, P, a, b

\* gdb finds a frame well formed, and the packet in it.
THEOREM FrameReadsBack ==
    ASSUME NEW p \in Seq(Codes)
    PROVE  /\ WellFormed(Frame(p)) /\ Unescape(Body(Frame(p))) = p
           /\ Len(Frame(p)) <= 2 * Len(p) + 4
  <1> DEFINE P == Payload(p)
             F == Frame(p)
             L == Len(P)
             Ends(i) == F[i] = Hash /\ \A j \in 1 .. i - 1 : F[j] # Hash
             end == CHOOSE i \in 1..Len(F) : Ends(i)
  <1>1. /\ P \in Seq(Clean) /\ L <= 2 * Len(p)
        /\ Len(F) = L + 4 /\ F[1] = Dollar /\ Head(F) = Dollar
        /\ \A i \in 1..L : F[i + 1] = P[i]
        /\ F[L + 2] = Hash /\ SubSeq(F, 2, L + 1) = P
        /\ SubSeq(F, L + 3, Len(F))
               = <<HexChar(ByteSum(P) \div 16), HexChar(ByteSum(P) % 16)>>
    BY FrameShape
  <1>2. Unescape(P) = p /\ Len(p) \in Nat
    BY UnescapePayload
  <1> HIDE DEF P, F
  <1>3. L \in Nat /\ \A i \in 1..L : P[i] \in Clean
    BY <1>1
  <1>4. Ends(L + 2) /\ L + 2 \in 1..Len(F)
    <2>1. ASSUME NEW j \in 1 .. L + 1 PROVE F[j] # Hash
      <3>1. CASE j = 1
        BY <1>1, <3>1 DEF Dollar, Hash
      <3>2. CASE j # 1
        <4>1. j - 1 \in 1..L /\ (j - 1) + 1 = j
          BY <1>3, <3>2
        <4>2. F[j] = P[j - 1] /\ P[j - 1] \in Clean
          BY <1>1, <1>3, <4>1
        <4> QED
          BY <4>2 DEF Clean
      <3> QED
        BY <3>1, <3>2
    <2>2. (L + 2) - 1 = L + 1
      BY <1>3
    <2> QED
      BY <1>1, <1>3, <2>1, <2>2
  <1>5. ASSUME NEW i \in 1..Len(F), Ends(i)
        PROVE  i = L + 2
    <2>1. i \in Nat /\ 1 <= i /\ i <= L + 4
      BY <1>1, <1>3
    <2>2. ~(i < L + 2)
      <3>1. i < L + 2 => i \in 1 .. (L + 2) - 1
        BY <1>3, <2>1
      <3> QED
        BY <1>4, <1>5, <3>1
    <2>3. ~(i > L + 2)
      <3>1. i > L + 2 => L + 2 \in 1 .. i - 1
        BY <1>3, <2>1
      <3> QED
        BY <1>4, <1>5, <3>1
    <2> QED
      BY <1>3, <2>1, <2>2, <2>3
  <1>6. end = L + 2
    <2> HIDE DEF Ends
    <2> QED
      BY <1>4, <1>5
  <1>7. Body(F) = P
    <2>1. Body(F) = SubSeq(F, 2, end - 1)
      BY DEF Body
    <2> HIDE DEF end
    <2>2. end - 1 = L + 1
      BY <1>3, <1>6
    <2> QED
      BY <1>1, <2>1, <2>2
  <1>8. {Dollar, Star} \cap {P[i] : i \in 1..L} = {}
    BY <1>3 DEF Clean
  <1>9. WellFormed(F)
    BY <1>1, <1>7, <1>8 DEF WellFormed
  <1>10. Len(F) <= 2 * Len(p) + 4
    BY <1>1, <1>2, <1>3
  <1> QED
    BY <1>2, <1>7, <1>9, <1>10 DEF F

-----------------------------------------------------------------------------
(* The frame of a reply.                                                   *)

\* A reply that was sent is no longer than what IOSendEx accepts.
PacketFits == packet \in Seq(Codes) /\ Len(packet) <= Room

\* Only IOSendEx gives PutPacket a new string, which is no longer than the offset.
LEMMA PacketFitsStep == IInv /\ PacketFits /\ [Next]_vars => PacketFits'
  <1> USE CapAssumption DEF Room, Codes
  <1> SUFFICES ASSUME IInv, PacketFits, [Next]_vars
               PROVE  PacketFits'
    OBVIOUS
  <1>1. CASE ResetIOOffsets
    <2>1. << >> \in Seq(Codes) /\ Len(<< >>) = 0
      OBVIOUS
    <2> QED
      BY <1>1, <2>1 DEF ResetIOOffsets, PacketFits
  <1>2. CASE IOSendEx
    <2>1. /\ offset <= Room /\ packet' = CString(out') /\ out' = Terminated
      <3>1. open /\ offset <= Room /\ offset \in Nat
        BY <1>2 DEF IOSendEx, IInv, ReplyIsSent, TypeOK
      <3>2. ~(offset > Room)
        BY <3>1
      <3> QED
        BY <1>2, <3>1, <3>2 DEF IOSendEx
    <2>2. packet' = text
      BY <1>2, <2>1, SentString DEF IOSendEx
    <2>3. text \in Seq(1..127) /\ Len(text) = offset
      BY <1>2 DEF IOSendEx, IInv, TypeOK, InBuffer, Holds
    <2> QED
      BY <2>1, <2>2, <2>3 DEF PacketFits
  <1>3. CASE UNCHANGED packet
    BY <1>3 DEF PacketFits
  <1> QED
    BY <1>1, <1>2, <1>3 DEF Next, vars, IOInit, IOCurrentIndex, IORestoreIndex,
                            IOPutChar, IOPutCharAsHex, IOPutHex

\* gdb reads the fields that had room out of a well-formed frame, and the frame
\* fits sWritePacketBuffer.
THEOREM FramesCarryReplies == Spec => []FrameCarriesReply
  <1>1. Init => PacketFits
    <2>1. << >> \in Seq(Codes) /\ Len(<< >>) = 0
      OBVIOUS
    <2> QED
      BY <2>1, CapAssumption DEF Init, PacketFits, Room
  <1>2. IInv /\ PacketFits => FrameCarriesReply
    <2> SUFFICES ASSUME IInv, PacketFits
                 PROVE  FrameCarriesReply
      OBVIOUS
    <2>1. /\ WellFormed(Frame(packet)) /\ Unescape(Body(Frame(packet))) = packet
          /\ Len(Frame(packet)) <= 2 * Len(packet) + 4
      BY FrameReadsBack DEF PacketFits
    <2>2. Len(Frame(packet)) + 1 <= 2 * Cap + 4
      <3>1. Len(packet) \in Nat /\ Len(packet) <= Cap - 4 /\ Len(Frame(packet)) \in Nat
        <4>1. packet \in Seq(Codes) /\ Len(packet) <= Room
          BY DEF PacketFits
        <4>2. Payload(packet) \in Seq(Clean) /\ Len(Frame(packet)) = Len(Payload(packet)) + 4
          BY <4>1, FrameShape
        <4> QED
          BY <4>1, <4>2 DEF Room
      <3> QED
        BY <2>1, <3>1, CapAssumption
    <2>3. sends = "sent" /\ ~open => packet = text
      BY DEF IInv, ReplyIsWhatWasPut
    <2> QED
      BY <2>1, <2>2, <2>3 DEF FrameCarriesReply
  <1> QED
    BY <1>1, <1>2, PacketFitsStep, ReplyInductive, PTL DEF Spec

=============================================================================
