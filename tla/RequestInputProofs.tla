-------------------------- MODULE RequestInputProofs --------------------------
(***************************************************************************)
(* Proofs about RequestInput, for any number of clients, sizes of buffers  *)
(* and lengths of requests, as long as no request in the extended encoding *)
(* is reset: nothing is lost, hidden or mixed up in the buffers, and       *)
(* Dispatch is given the requests that were sent.                          *)
(***************************************************************************)
EXTENDS RequestInput, SequenceTheorems, FiniteSetTheorems, TLAPS

W == [req : Nat, k : Nat, v : Nat]

\* What a client's buffer holds after its last request.
After(s, c) == IF s.input[c] = None THEN <<>> ELSE Advance(BufferOf(s, c)).data

\* How many bytes of a cut word it holds after that.
PartOf(s, c) == IF s.input[c] = None THEN 0 ELSE BufferOf(s, c).part

\* The sequence of words is that of the requests: request i starts after
\* offset off[i].
Encodes(ws, rs) ==
  \E off \in [1 .. Len(rs) + 1 -> Nat] :
    /\ off[1] = 0 /\ off[Len(rs) + 1] = Len(ws)
    /\ \A i, j \in 1 .. Len(rs) + 1 : i <= j => off[i] <= off[j]
    /\ \A i \in 1 .. Len(rs) :
         /\ off[i + 1] = off[i] + rs[i].len
         /\ \A k \in 1 .. rs[i].len : ws[off[i] + k] = Words(rs[i])[k]

\* The first words of a request as they are in the buffer, see Connect.
FirstWords(st, r) == IF st = "prefix" THEN [Words(r) EXCEPT ![1].v = Prefix] ELSE Words(r)

\* The words ws are the requests rs, of a connection that is as far as st.
Stored(st, ws, rs) ==
  IF rs = <<>> THEN ws = <<>>
  ELSE \E rest \in Seq(W) : /\ ws = FirstWords(st, Head(rs)) \o rest
                            /\ Encodes(rest, Tail(rs))

\* The same, with a whole request at its start.
Whole(ws, isBig) ==
  /\ Len(ws) >= 1
  /\ Len(ws) >= ws[1].v
  /\ ws[1].v > 0 \/ (isBig /\ Len(ws) >= 2 /\ Len(ws) >= ws[2].v)

\* The buffers in themselves.
Fits(b) ==
  b.last <= Len(b.data) /\ bufcnt(b) <= b.size /\ (b.part = 0 \/ bufcnt(b) < b.size)

BuffersOK(s) ==
  /\ s \in InputType
  /\ \A i, j \in 1 .. Len(s.free) : s.free[i] = s.free[j] => i = j
  /\ \A i \in 1 .. Len(s.free) : LET b == s.buffer[s.free[i]] IN Fits(b) /\ Empty(b)
  /\ \A c \in Clients : s.input[c] # None =>
       /\ Fits(BufferOf(s, c))
       /\ \A i \in 1 .. Len(s.free) : s.free[i] # s.input[c]
       /\ \A d \in Clients : s.input[d] = s.input[c] => d = c
  /\ s.available # None => s.input[s.available] # None /\ Empty(BufferOf(s, s.available))

\* For client d nothing has changed.
SameFor(t, s, d) ==
  t.input[d] = s.input[d] /\ (s.input[d] # None => BufferOf(t, d) = BufferOf(s, d))

\* The requests of a connection that have not been executed.
Numbered(c) ==
  /\ sent[c] \in Seq(Request)
  /\ \A i \in 1 .. Len(sent[c]) : sent[c][i].id <= count[c]
  /\ \A i, j \in 1 .. Len(sent[c]) : sent[c][i].id = sent[c][j].id => i = j
  /\ c \notin big => \A i \in 1 .. Len(sent[c]) : ~sent[c][i].big
  /\ \A i \in 1 .. Len(sent[c]) : sent[c][i].big => sent[c][i].len > 1
  /\ stage[c] = "prefix" =>
       sent[c] # <<>> /\ ~Head(sent[c]).big /\ Head(sent[c]).len >= Prefix

\* A client that is being served.
Served(c) ==
  LET b == BufferOf(in, c)
  IN  /\ in.input[c] # None /\ sent[c] # <<>>
      /\ running.words = SubSeq(b.data, 1, b.last)
      /\ IF stage[c] = "prefix"
         THEN b.last = Prefix /\ Stored("prefix", b.data \o socket[c], sent[c])
         ELSE /\ running.words = Contents(Head(sent[c]))
              /\ Stored("open", After(in, c) \o socket[c], Tail(sent[c]))

Connection(c) ==
  /\ Numbered(c)
  /\ c \in withInput <=> Whole(After(in, c), c \in big)
  /\ IF running.client = c THEN Served(c)
     ELSE Stored(stage[c], After(in, c) \o socket[c], sent[c])

NoConnection(c) ==
  /\ After(in, c) = <<>> /\ c \notin withInput \cup big \cup eof /\ running.client # c
  /\ socket[c] = <<>> /\ sent[c] = <<>> /\ count[c] = 0 /\ taken[c] = 0

Types ==
  /\ BuffersOK(in)
  /\ withInput \subseteq Clients /\ big \subseteq Clients /\ eof \subseteq Clients
  /\ stage \in [Clients -> Stages] /\ req_len \in [Clients -> Nat]
  /\ socket \in [Clients -> Seq(W)] /\ sent \in [Clients -> Seq(Request)]
  /\ count \in [Clients -> Nat] /\ taken \in [Clients -> Nat]
  /\ running = Nobody \/ running.client \in Clients

InOrder(c) == IF stage[c] = "closed" THEN NoConnection(c) ELSE Connection(c)

\* The bytes of a word that is cut are those that have been read of it.
InStep == \A c \in Clients : PartOf(in, c) = taken[c]

Inv == Types /\ (\A c \in Clients : InOrder(c)) /\ InStep

-----------------------------------------------------------------------------
(* Sequences and the requests in them.                                     *)

\* What is before and after a cut elsewhere in the same sequence.
LEMMA CutPrefix ==
  ASSUME NEW a \in Seq(W), NEW b \in Seq(W), NEW c \in Seq(W), NEW d \in Seq(W),
         a \o b = c \o d, Len(a) >= Len(c)
  PROVE  /\ SubSeq(a, 1, Len(c)) = c
         /\ SubSeq(a, Len(c) + 1, Len(a)) \o b = d
         /\ \A i \in 1 .. Len(c) : a[i] = c[i]
<1> DEFINE n == Len(c)
           e == SubSeq(a, n + 1, Len(a))
           ab == a \o b
<1>1. Len(a) \in Nat /\ Len(b) \in Nat /\ n \in Nat /\ Len(d) \in Nat
  BY LenProperties
<1>2. /\ Len(ab) = Len(a) + Len(b) /\ Len(ab) = n + Len(d)
      /\ \A i \in 1 .. Len(ab) : ab[i] = IF i <= Len(a) THEN a[i] ELSE b[i - Len(a)]
      /\ \A i \in 1 .. Len(ab) : ab[i] = IF i <= n THEN c[i] ELSE d[i - n]
  BY ConcatProperties
<1> HIDE DEF ab
<1>3. \A i \in 1 .. n : a[i] = c[i]
  BY <1>1, <1>2
<1>4. SubSeq(a, 1, n) = c
  <2>1. /\ SubSeq(a, 1, n) \in Seq(W) /\ Len(SubSeq(a, 1, n)) = n
        /\ \A i \in 1 .. n : SubSeq(a, 1, n)[i] = a[i]
    BY <1>1, SubSeqProperties, ElementOfSeq
  <2> QED BY <2>1, <1>3, SeqEqual
<1>5. /\ e \in Seq(W) /\ Len(e) = Len(a) - n
      /\ \A i \in 1 .. Len(e) : e[i] = a[n + i]
  <2>1. \A i \in n + 1 .. Len(a) : a[i] \in W
    BY <1>1, ElementOfSeq
  <2> QED BY <1>1, <2>1, SubSeqProperties
<1> HIDE DEF e
<1>6. e \o b = d
  <2>1. /\ e \o b \in Seq(W) /\ Len(e \o b) = Len(e) + Len(b)
        /\ \A i \in 1 .. Len(e) + Len(b) :
             (e \o b)[i] = IF i <= Len(e) THEN e[i] ELSE b[i - Len(e)]
    BY <1>5, ConcatProperties
  <2>2. Len(e \o b) = Len(d)
    BY <1>1, <1>2, <1>5, <2>1
  <2>3. ASSUME NEW i \in 1 .. Len(d) PROVE (e \o b)[i] = d[i]
    <3>1. i + n \in 1 .. Len(ab) /\ ~(i + n <= n) /\ i + n - n = i
      BY <1>1, <1>2
    <3>2. ab[i + n] = d[i]
      BY <1>2, <3>1
    <3>3. CASE i <= Len(e)
      BY <1>1, <1>2, <1>5, <2>1, <3>1, <3>2, <3>3
    <3>4. CASE ~(i <= Len(e))
      <4>1. i + n - Len(a) = i - Len(e) /\ ~(i + n <= Len(a))
        BY <1>1, <1>5, <3>4
      <4> QED BY <1>1, <1>2, <1>5, <2>1, <2>2, <3>1, <3>2, <3>4, <4>1
    <3> QED BY <3>3, <3>4
  <2> QED BY <2>1, <2>2, <2>3, SeqEqual
<1> QED BY <1>3, <1>4, <1>6 DEF e

\* Words moved from one sequence to the end of another.
LEMMA MoveWords ==
  ASSUME NEW a \in Seq(W), NEW b \in Seq(W), NEW n \in 0 .. Len(b)
  PROVE  /\ SubSeq(b, 1, n) \in Seq(W) /\ Len(SubSeq(b, 1, n)) = n
         /\ SubSeq(b, n + 1, Len(b)) \in Seq(W)
         /\ (a \o SubSeq(b, 1, n)) \o SubSeq(b, n + 1, Len(b)) = a \o b
<1>1. Len(b) \in Nat /\ n \in Nat
  BY LenProperties
<1>2. /\ SubSeq(b, 1, n) \in Seq(W) /\ Len(SubSeq(b, 1, n)) = n
      /\ SubSeq(b, n + 1, Len(b)) \in Seq(W)
  BY <1>1, SubSeqProperties, ElementOfSeq
<1> DEFINE p == SubSeq(b, 1, n)
           q == SubSeq(b, n + 1, Len(b))
<1>3. p \o q = b
  <2>1. 1 \in 1 .. Len(b) + 1 /\ n \in 1 - 1 .. Len(b) /\ Len(b) \in n .. Len(b)
    BY <1>1
  <2>2. p \o q = SubSeq(b, 1, Len(b))
    BY <2>1, ConcatAdjacentSubSeq, Zenon
  <2> QED BY <2>2, SubSeqFull
<1>4. p \in Seq(W) /\ q \in Seq(W)
  BY <1>2
<1> HIDE DEF p, q
<1>5. (a \o p) \o q = a \o (p \o q)
  BY <1>4, ConcatAssociative
<1> QED BY <1>2, <1>3, <1>5 DEF p, q

LEMMA SubSeqType ==
  ASSUME NEW S, NEW s \in Seq(S), NEW m \in Nat \ {0}, NEW n \in Nat, n <= Len(s)
  PROVE  /\ SubSeq(s, m, n) \in Seq(S)
         /\ Len(SubSeq(s, m, n)) = IF m <= n THEN n - m + 1 ELSE 0
         /\ \A i \in 1 .. Len(SubSeq(s, m, n)) : SubSeq(s, m, n)[i] = s[m + i - 1]
<1>1. \A i \in m .. n : s[i] \in S
  BY ElementOfSeq, LenProperties
<1> QED BY <1>1, SubSeqProperties

\* The last words of a sequence, less some more.
LEMMA SubSeqTwice ==
  ASSUME NEW S, NEW s \in Seq(S), NEW m \in 0 .. Len(s), NEW n \in 0 .. Len(s) - m
  PROVE  LET t == SubSeq(s, m + 1, Len(s))
         IN  SubSeq(t, n + 1, Len(t)) = SubSeq(s, m + n + 1, Len(s))
<1> DEFINE t == SubSeq(s, m + 1, Len(s))
           u == SubSeq(t, n + 1, Len(t))
           w == SubSeq(s, m + n + 1, Len(s))
<1>1. Len(s) \in Nat /\ m \in Nat /\ n \in Nat
  BY LenProperties
<1>2. t \in Seq(S) /\ Len(t) = Len(s) - m /\ \A i \in 1 .. Len(t) : t[i] = s[m + i]
  BY <1>1, SubSeqType
<1> HIDE DEF t
<1>3. u \in Seq(S) /\ Len(u) = Len(t) - n /\ \A i \in 1 .. Len(u) : u[i] = t[n + i]
  BY <1>1, <1>2, SubSeqType
<1>4. w \in Seq(S) /\ Len(w) = Len(s) - m - n /\ \A i \in 1 .. Len(w) : w[i] = s[m + n + i]
  BY <1>1, SubSeqType
<1> HIDE DEF u, w
<1>5. \A i \in 1 .. Len(u) : u[i] = w[i]
  BY <1>1, <1>2, <1>3, <1>4
<1>6. u = w
  BY <1>1, <1>2, <1>3, <1>4, <1>5, SeqEqual
<1> QED BY <1>6 DEF t, u, w

LEMMA WordsOf ==
  ASSUME NEW r \in Request
  PROVE  /\ r.len \in 1 .. MAXBUFSIZE /\ r.len \in Nat /\ r.id \in Nat
         /\ Words(r) \in Seq(W) /\ Len(Words(r)) = r.len
         /\ \A k \in 1 .. r.len : Words(r)[k] = IF k = 1 THEN Header(r)
                            ELSE Word(r, k, IF r.big /\ k = 2 THEN r.len ELSE 1)
         /\ Header(r) \in W /\ Header(r).v = (IF r.big THEN 0 ELSE r.len)
         /\ Header(r).req = r.id
<1>1. r.len \in 1 .. MAXBUFSIZE /\ r.len \in Nat /\ r.id \in Nat /\ r.big \in BOOLEAN
  BY SizesAssumption, BoundsAssumption DEF Request
<1>2. Words(r) \in [1 .. r.len -> W]
  BY <1>1 DEF Words, Header, Word, W
<1>3. Words(r) \in Seq(W) /\ Len(Words(r)) = r.len
  BY <1>1, <1>2
<1> QED BY <1>1, <1>3 DEF Words, Header, Word, W

LEMMA FirstWordsOf ==
  ASSUME NEW r \in Request, NEW st
  PROVE  /\ FirstWords(st, r) \in Seq(W) /\ Len(FirstWords(st, r)) = r.len
         /\ FirstWords(st, r)[1].v = IF st = "prefix" THEN Prefix ELSE IF r.big THEN 0 ELSE r.len
         /\ \A k \in 2 .. r.len : FirstWords(st, r)[k] = Words(r)[k]
<1>1. CASE st # "prefix"
  BY <1>1, WordsOf DEF FirstWords
<1>2. CASE st = "prefix"
  <2> DEFINE e == [Words(r)[1] EXCEPT !.v = Prefix]
  <2>1. e \in W /\ e.v = Prefix
    <3>1. Words(r)[1] \in W
      BY WordsOf, ElementOfSeq
    <3> QED BY <3>1 DEF W, Prefix
  <2>2. FirstWords(st, r) = [Words(r) EXCEPT ![1] = e]
    BY <1>2 DEF FirstWords
  <2> HIDE DEF e
  <2> QED BY <1>2, <2>1, <2>2, WordsOf, ExceptSeq
<1> QED BY <1>1, <1>2

LEMMA ContentsOf ==
  ASSUME NEW r \in Request, r.big => r.len > 1
  PROVE  /\ Contents(r) \in Seq(W)
         /\ Len(Contents(r)) = IF r.big THEN r.len - 1 ELSE r.len
         /\ Contents(r)[1] = Header(r)
         /\ r.big => Contents(r) = <<Header(r)>> \o SubSeq(Words(r), 3, r.len)
         /\ ~r.big => Contents(r) = Words(r)
<1>1. CASE ~r.big
  BY <1>1, WordsOf DEF Contents
<1>2. CASE r.big
  <2> DEFINE t == SubSeq(Words(r), 3, r.len)
  <2>1. t \in Seq(W) /\ Len(t) = r.len - 2
    BY <1>2, WordsOf, SubSeqType
  <2>2. <<Header(r)>> \in Seq(W) /\ Len(<<Header(r)>>) = 1
    BY WordsOf
  <2>3. Contents(r) = <<Header(r)>> \o t
    BY <1>2 DEF Contents
  <2> HIDE DEF t
  <2> QED BY <1>2, <2>1, <2>2, <2>3, WordsOf, ConcatProperties DEF t
<1> QED BY <1>1, <1>2

LEMMA EncodesNone ==
  /\ Encodes(<<>>, <<>>)
  /\ \A ws \in Seq(W) : Encodes(ws, <<>>) => ws = <<>>
<1>1. Encodes(<<>>, <<>>)
  <2> DEFINE off == [i \in 1 .. 1 |-> 0]
             none == <<>>
  <2>1. off \in [1 .. 1 -> Nat] /\ off[1] = 0 /\ Len(none) = 0 /\ Len(none) + 1 = 1
    OBVIOUS
  <2>2. \A i, j \in 1 .. 1 : i <= j => off[i] <= off[j]
    BY <2>1
  <2>3. \A i : i \notin 1 .. 0
    OBVIOUS
  <2> HIDE DEF off, none
  <2>4. Encodes(none, none)
    BY <2>1, <2>2, <2>3 DEF Encodes
  <2> QED BY <2>4 DEF none
<1>2. \A ws \in Seq(W) : Encodes(ws, <<>>) => ws = <<>>
  <2> SUFFICES ASSUME NEW ws \in Seq(W), Encodes(ws, <<>>) PROVE ws = <<>>
    OBVIOUS
  <2>1. Len(ws) = 0
    BY DEF Encodes
  <2> QED BY <2>1, EmptySeq
<1> QED BY <1>1, <1>2

\* A sequence of requests is the first one, and the others.
LEMMA EncodesSplit ==
  ASSUME NEW ws \in Seq(W), NEW rs \in Seq(Request), rs # <<>>, Encodes(ws, rs)
  PROVE  \E rest \in Seq(W) : ws = Words(Head(rs)) \o rest /\ Encodes(rest, Tail(rs))
<1> DEFINE h == Head(rs)
           n == h.len
           t == Tail(rs)
           rest == SubSeq(ws, n + 1, Len(ws))
<1>1. /\ h \in Request /\ t \in Seq(Request) /\ Len(t) = Len(rs) - 1
      /\ Len(rs) \in Nat /\ Len(t) \in Nat /\ 1 \in 1 .. Len(rs)
  BY HeadTailProperties, EmptySeq, LenProperties
<1>2. h = rs[1]
  OBVIOUS
<1>3. \A i \in 1 .. Len(t) : t[i] = rs[i + 1]
  BY HeadTailProperties
<1>4. PICK off \in [1 .. Len(rs) + 1 -> Nat] :
        /\ off[1] = 0 /\ off[Len(rs) + 1] = Len(ws)
        /\ \A i, j \in 1 .. Len(rs) + 1 : i <= j => off[i] <= off[j]
        /\ \A i \in 1 .. Len(rs) :
             /\ off[i + 1] = off[i] + rs[i].len
             /\ \A k \in 1 .. rs[i].len : ws[off[i] + k] = Words(rs[i])[k]
  BY DEF Encodes
<1>5. /\ n \in Nat /\ n > 0 /\ Words(h) \in Seq(W) /\ Len(Words(h)) = n
      /\ Len(ws) \in Nat
  BY <1>1, WordsOf, LenProperties
<1> HIDE DEF h, n, t
<1>6. off[2] = n /\ off[1] = 0 /\ \A k \in 1 .. n : ws[k] = Words(h)[k]
  <2>1. /\ off[1 + 1] = off[1] + rs[1].len
        /\ \A k \in 1 .. rs[1].len : ws[off[1] + k] = Words(rs[1])[k]
    BY <1>1, <1>4
  <2>2. off[1] = 0
    BY <1>4
  <2>3. rs[1].len = n
    BY <1>2 DEF n
  <2> QED BY <1>2, <1>5, <2>1, <2>2, <2>3
<1>7. n <= Len(ws)
  <2>1. 2 \in 1 .. Len(rs) + 1 /\ Len(rs) + 1 \in 1 .. Len(rs) + 1 /\ 2 <= Len(rs) + 1
    BY <1>1
  <2>2. off[2] <= off[Len(rs) + 1]
    BY <1>4, <2>1
  <2>3. off[Len(rs) + 1] = Len(ws)
    BY <1>4
  <2> QED BY <1>6, <2>2, <2>3
<1>8. /\ rest \in Seq(W) /\ Len(rest) = Len(ws) - n
      /\ \A i \in 1 .. Len(rest) : rest[i] = ws[n + i]
  BY <1>5, <1>7, SubSeqType
<1> HIDE DEF rest
<1>9. ws = Words(h) \o rest
  <2> DEFINE hr == Words(h) \o rest
  <2>1. /\ hr \in Seq(W) /\ Len(hr) = Len(Words(h)) + Len(rest)
        /\ \A i \in 1 .. Len(Words(h)) + Len(rest) :
             hr[i] = IF i <= Len(Words(h)) THEN Words(h)[i] ELSE rest[i - Len(Words(h))]
    BY <1>5, <1>8, ConcatProperties
  <2> HIDE DEF hr
  <2>2. Len(hr) = Len(ws) /\ Len(rest) \in Nat
    BY <1>5, <1>7, <1>8, <2>1
  <2>3. ASSUME NEW i \in 1 .. Len(ws) PROVE ws[i] = hr[i]
    <3>1. CASE i <= n
      <4>1. i \in 1 .. n
        BY <1>5, <3>1
      <4>2. hr[i] = Words(h)[i]
        BY <1>5, <2>1, <2>2, <3>1
      <4> QED BY <1>6, <4>1, <4>2
    <3>2. CASE ~(i <= n)
      <4>1. i - n \in 1 .. Len(rest) /\ n + (i - n) = i
        BY <1>5, <1>7, <1>8, <3>2
      <4>2. rest[i - n] = ws[i]
        BY <1>8, <4>1
      <4> QED BY <1>5, <2>1, <2>2, <3>2, <4>2
    <3> QED BY <3>1, <3>2
  <2> QED BY <2>1, <2>2, <2>3, SeqEqual DEF hr
<1>10. Encodes(rest, t)
  <2> DEFINE o == [i \in 1 .. Len(t) + 1 |-> off[i + 1] - n]
  <2>1. ASSUME NEW i \in 1 .. Len(t) + 1
        PROVE  /\ i + 1 \in 1 .. Len(rs) + 1 /\ off[i + 1] \in Nat /\ off[i + 1] >= n
               /\ off[i + 1] - n \in Nat
    <3>1. i + 1 \in 1 .. Len(rs) + 1 /\ 2 \in 1 .. Len(rs) + 1 /\ 2 <= i + 1
      BY <1>1
    <3>2. off[2] <= off[i + 1]
      BY <1>4, <3>1
    <3>3. off[i + 1] \in Nat
      BY <3>1
    <3> QED BY <1>5, <1>6, <3>1, <3>2, <3>3
  <2>2. o \in [1 .. Len(t) + 1 -> Nat]
    BY <2>1
  <2>3. \A i \in 1 .. Len(t) + 1 : o[i] = off[i + 1] - n
    OBVIOUS
  <2> HIDE DEF o
  <2>4. o[1] = 0
    <3>1. o[1] = off[1 + 1] - n
      BY <1>1, <2>3
    <3> QED BY <1>5, <1>6, <3>1
  <2>5. o[Len(t) + 1] = Len(rest)
    <3>1. Len(t) + 1 \in 1 .. Len(t) + 1 /\ Len(t) + 1 + 1 = Len(rs) + 1
      BY <1>1
    <3>2. o[Len(t) + 1] = off[Len(rs) + 1] - n
      BY <2>3, <3>1
    <3>3. off[Len(rs) + 1] = Len(ws)
      BY <1>4
    <3> QED BY <1>8, <3>2, <3>3
  <2>6. ASSUME NEW i \in 1 .. Len(t) + 1, NEW j \in 1 .. Len(t) + 1, i <= j
        PROVE  o[i] <= o[j]
    <3>1. i + 1 \in 1 .. Len(rs) + 1 /\ j + 1 \in 1 .. Len(rs) + 1 /\ i + 1 <= j + 1
      BY <1>1, <2>6
    <3>2. off[i + 1] <= off[j + 1] /\ off[i + 1] \in Nat /\ off[j + 1] \in Nat
      BY <1>4, <3>1
    <3>3. o[i] = off[i + 1] - n /\ o[j] = off[j + 1] - n
      BY <2>3
    <3> QED BY <1>5, <3>2, <3>3
  <2>7. ASSUME NEW i \in 1 .. Len(t)
        PROVE  /\ o[i + 1] = o[i] + t[i].len
               /\ \A k \in 1 .. t[i].len : rest[o[i] + k] = Words(t[i])[k]
    <3> DEFINE m == t[i].len
               x == off[i + 1]
               y == off[i + 1 + 1]
    <3>1. /\ i + 1 \in 1 .. Len(rs) /\ i \in 1 .. Len(t) + 1 /\ i + 1 \in 1 .. Len(t) + 1
          /\ Len(t) + 1 \in 1 .. Len(t) + 1 /\ i + 1 <= Len(t) + 1
      BY <1>1
    <3>2. t[i] = rs[i + 1] /\ t[i] \in Request
      BY <1>1, <1>3, ElementOfSeq
    <3>3. m \in Nat
      BY <3>2, WordsOf
    <3>4. y = x + m /\ \A k \in 1 .. m : ws[x + k] = Words(t[i])[k]
      BY <1>4, <3>1, <3>2
    <3>5. o[i] = x - n /\ x \in Nat /\ x >= n /\ o[i + 1] = y - n /\ y \in Nat
      BY <2>1, <2>3, <3>1
    <3>6. o[i + 1] <= Len(rest)
      BY <2>5, <2>6, <3>1
    <3> HIDE DEF m, x, y
    <3>7. o[i + 1] = o[i] + m
      BY <1>5, <3>3, <3>4, <3>5
    <3>8. ASSUME NEW k \in 1 .. m PROVE rest[o[i] + k] = Words(t[i])[k]
      <4>1. o[i] + k \in 1 .. Len(rest)
        BY <1>5, <1>8, <3>3, <3>5, <3>6, <3>7
      <4>2. n + (o[i] + k) = x + k
        BY <1>5, <3>3, <3>5
      <4>3. rest[o[i] + k] = ws[n + (o[i] + k)]
        BY <1>8, <4>1
      <4> QED BY <3>4, <4>2, <4>3
    <3> QED BY <3>7, <3>8 DEF m
  <2> QED BY <2>2, <2>4, <2>5, <2>6, <2>7 DEF Encodes
<1> QED BY <1>8, <1>9, <1>10 DEF h, t

LEMMA EncodesJoin ==
  ASSUME NEW rest \in Seq(W), NEW rs \in Seq(Request), rs # <<>>, Encodes(rest, Tail(rs))
  PROVE  Encodes(Words(Head(rs)) \o rest, rs)
<1> DEFINE h == Head(rs)
           n == h.len
           t == Tail(rs)
           ws == Words(h) \o rest
<1>1. /\ h \in Request /\ t \in Seq(Request) /\ Len(t) = Len(rs) - 1
      /\ Len(rs) \in Nat /\ Len(t) \in Nat /\ 1 \in 1 .. Len(rs)
  BY HeadTailProperties, EmptySeq, LenProperties
<1>2. h = rs[1]
  OBVIOUS
<1>3. \A i \in 1 .. Len(t) : t[i] = rs[i + 1]
  BY HeadTailProperties
<1>4. PICK off \in [1 .. Len(t) + 1 -> Nat] :
        /\ off[1] = 0 /\ off[Len(t) + 1] = Len(rest)
        /\ \A i, j \in 1 .. Len(t) + 1 : i <= j => off[i] <= off[j]
        /\ \A i \in 1 .. Len(t) :
             /\ off[i + 1] = off[i] + t[i].len
             /\ \A k \in 1 .. t[i].len : rest[off[i] + k] = Words(t[i])[k]
  BY DEF Encodes
<1>5. /\ n \in Nat /\ n > 0 /\ Words(h) \in Seq(W) /\ Len(Words(h)) = n
      /\ Len(rest) \in Nat
  BY <1>1, WordsOf, LenProperties
<1> HIDE DEF h, n, t
<1>6. /\ ws \in Seq(W) /\ Len(ws) = n + Len(rest)
      /\ \A i \in 1 .. n : ws[i] = Words(h)[i]
      /\ \A i \in 1 .. Len(rest) : ws[n + i] = rest[i]
  <2>1. /\ ws \in Seq(W) /\ Len(ws) = Len(Words(h)) + Len(rest)
        /\ \A i \in 1 .. Len(Words(h)) + Len(rest) :
             ws[i] = IF i <= Len(Words(h)) THEN Words(h)[i] ELSE rest[i - Len(Words(h))]
    BY <1>5, ConcatProperties
  <2> HIDE DEF ws
  <2>2. \A i \in 1 .. n : ws[i] = Words(h)[i]
    BY <1>5, <2>1
  <2>3. ASSUME NEW i \in 1 .. Len(rest) PROVE ws[n + i] = rest[i]
    <3>1. n + i \in 1 .. n + Len(rest) /\ ~(n + i <= n) /\ n + i - n = i
      BY <1>5
    <3> QED BY <1>5, <2>1, <3>1
  <2> QED BY <1>5, <2>1, <2>2, <2>3
<1> HIDE DEF ws
<1> DEFINE o == [i \in 1 .. Len(rs) + 1 |-> IF i = 1 THEN 0 ELSE off[i - 1] + n]
<1>7. o \in [1 .. Len(rs) + 1 -> Nat]
  <2>1. ASSUME NEW i \in 1 .. Len(rs) + 1, i # 1 PROVE off[i - 1] + n \in Nat
    <3>1. i - 1 \in 1 .. Len(t) + 1
      BY <1>1, <2>1
    <3>2. off[i - 1] \in Nat
      BY <3>1
    <3> QED BY <1>5, <3>2
  <2> QED BY <2>1
<1>8. o[1] = 0
  BY <1>1
<1>9. ASSUME NEW i \in 1 .. Len(t) + 1
      PROVE  i + 1 \in 1 .. Len(rs) + 1 /\ o[i + 1] = off[i] + n /\ off[i] \in Nat
  <2>1. i + 1 \in 1 .. Len(rs) + 1 /\ i + 1 # 1 /\ i + 1 - 1 = i
    BY <1>1
  <2> QED BY <2>1
<1> HIDE DEF o
<1>10. o[Len(rs) + 1] = Len(ws)
  <2>1. Len(t) + 1 = Len(rs) /\ Len(t) + 1 \in 1 .. Len(t) + 1
    BY <1>1
  <2>2. o[Len(rs) + 1] = off[Len(t) + 1] + n
    BY <1>9, <2>1
  <2>3. off[Len(t) + 1] = Len(rest)
    BY <1>4
  <2> QED BY <1>5, <1>6, <2>2, <2>3
<1>11. ASSUME NEW i \in 1 .. Len(rs) + 1, NEW j \in 1 .. Len(rs) + 1, i <= j
       PROVE  o[i] <= o[j]
  <2>1. CASE i = 1
    <3>1. o[j] \in Nat
      BY <1>7
    <3> QED BY <1>8, <2>1, <3>1
  <2>2. CASE i # 1
    <3>1. /\ i - 1 \in 1 .. Len(t) + 1 /\ j - 1 \in 1 .. Len(t) + 1 /\ i - 1 <= j - 1
          /\ i - 1 + 1 = i /\ j - 1 + 1 = j
      BY <1>1, <1>11, <2>2
    <3>2. off[i - 1] <= off[j - 1]
      BY <1>4, <3>1
    <3>3. /\ o[i] = off[i - 1] + n /\ o[j] = off[j - 1] + n
          /\ off[i - 1] \in Nat /\ off[j - 1] \in Nat
      BY <1>9, <3>1
    <3> QED BY <1>5, <3>2, <3>3
  <2> QED BY <2>1, <2>2
<1>12. ASSUME NEW i \in 1 .. Len(rs)
       PROVE  /\ o[i + 1] = o[i] + rs[i].len
              /\ \A k \in 1 .. rs[i].len : ws[o[i] + k] = Words(rs[i])[k]
  <2>1. CASE i = 1
    <3>1. 1 \in 1 .. Len(t) + 1
      BY <1>1
    <3>2. o[1 + 1] = off[1] + n /\ off[1] = 0
      BY <1>4, <1>9, <3>1
    <3>3. rs[1].len = n
      BY <1>2 DEF n
    <3> QED BY <1>2, <1>5, <1>6, <1>8, <2>1, <3>2, <3>3
  <2>2. CASE i # 1
    <3> DEFINE j == i - 1
               m == rs[i].len
    <3>1. /\ j \in 1 .. Len(t) /\ i = j + 1 /\ j \in 1 .. Len(t) + 1 /\ i \in 1 .. Len(t) + 1
          /\ Len(t) + 1 \in 1 .. Len(t) + 1 /\ i <= Len(t) + 1
      BY <1>1, <2>2
    <3> HIDE DEF j
    <3>2. t[j] = rs[i] /\ rs[i] \in Request
      BY <1>3, <3>1, ElementOfSeq
    <3>3. off[i] = off[j] + m /\ \A k \in 1 .. m : rest[off[j] + k] = Words(rs[i])[k]
      BY <1>4, <3>1, <3>2
    <3>4. o[i] = off[j] + n /\ o[i + 1] = off[i] + n /\ off[i] \in Nat /\ off[j] \in Nat
      BY <1>9, <3>1
    <3>5. off[i] <= Len(rest)
      BY <1>4, <3>1
    <3>6. m \in Nat
      BY <3>2, WordsOf
    <3> HIDE DEF m
    <3>7. ASSUME NEW k \in 1 .. m PROVE ws[o[i] + k] = Words(rs[i])[k]
      <4>1. off[j] + k \in 1 .. Len(rest)
        BY <1>5, <3>3, <3>4, <3>5, <3>6
      <4>2. o[i] + k = n + (off[j] + k)
        BY <1>5, <3>4, <3>6
      <4> QED BY <1>6, <3>3, <4>1, <4>2
    <3>8. o[i + 1] = o[i] + m
      BY <1>5, <3>3, <3>4, <3>6
    <3> QED BY <3>7, <3>8 DEF m
  <2> QED BY <2>1, <2>2
<1>13. Encodes(ws, rs)
  BY <1>7, <1>8, <1>10, <1>11, <1>12 DEF Encodes
<1> QED BY <1>13 DEF ws, h

\* A request is sent.
LEMMA EncodesAppend ==
  ASSUME NEW ws \in Seq(W), NEW rs \in Seq(Request), NEW r \in Request, Encodes(ws, rs)
  PROVE  Encodes(ws \o Words(r), Append(rs, r))
<1> DEFINE n == Len(rs)
           us == Append(rs, r)
           vs == ws \o Words(r)
           m == r.len
<1>1. /\ us \in Seq(Request) /\ Len(us) = n + 1 /\ us[n + 1] = r
      /\ \A i \in 1 .. n : us[i] = rs[i]
  BY AppendProperties
<1>2. n \in Nat /\ Len(ws) \in Nat /\ m \in Nat /\ Words(r) \in Seq(W) /\ Len(Words(r)) = m
  BY LenProperties, WordsOf
<1>3. PICK off \in [1 .. n + 1 -> Nat] :
        /\ off[1] = 0 /\ off[n + 1] = Len(ws)
        /\ \A i, j \in 1 .. n + 1 : i <= j => off[i] <= off[j]
        /\ \A i \in 1 .. n :
             /\ off[i + 1] = off[i] + rs[i].len
             /\ \A k \in 1 .. rs[i].len : ws[off[i] + k] = Words(rs[i])[k]
  BY DEF Encodes
<1>4. /\ vs \in Seq(W) /\ Len(vs) = Len(ws) + m
      /\ \A i \in 1 .. Len(ws) : vs[i] = ws[i]
      /\ \A i \in 1 .. m : vs[Len(ws) + i] = Words(r)[i]
  <2>1. /\ vs \in Seq(W) /\ Len(vs) = Len(ws) + Len(Words(r))
        /\ \A i \in 1 .. Len(ws) + Len(Words(r)) :
             vs[i] = IF i <= Len(ws) THEN ws[i] ELSE Words(r)[i - Len(ws)]
    BY <1>2, ConcatProperties
  <2> HIDE DEF vs, m
  <2>2. \A i \in 1 .. Len(ws) : vs[i] = ws[i]
    BY <1>2, <2>1
  <2>3. ASSUME NEW i \in 1 .. m PROVE vs[Len(ws) + i] = Words(r)[i]
    <3>1. /\ Len(ws) + i \in 1 .. Len(ws) + m /\ ~(Len(ws) + i <= Len(ws))
          /\ Len(ws) + i - Len(ws) = i
      BY <1>2
    <3> QED BY <1>2, <2>1, <3>1
  <2> QED BY <1>2, <2>1, <2>2, <2>3
<1> HIDE DEF n, us, vs, m
<1> DEFINE o == [i \in 1 .. n + 2 |-> IF i = n + 2 THEN Len(ws) + m ELSE off[i]]
<1>5. o \in [1 .. n + 2 -> Nat] /\ o[n + 2] = Len(ws) + m
  <2>1. ASSUME NEW i \in 1 .. n + 2, i # n + 2 PROVE off[i] \in Nat
    <3>1. i \in 1 .. n + 1
      BY <1>2, <2>1
    <3> QED BY <3>1
  <2> QED BY <1>2, <2>1
<1>6. ASSUME NEW i \in 1 .. n + 1 PROVE i \in 1 .. n + 2 /\ o[i] = off[i] /\ off[i] \in Nat
  <2>1. i \in 1 .. n + 2 /\ i # n + 2
    BY <1>2
  <2> QED BY <2>1
<1> HIDE DEF o
<1>7. o[1] = 0 /\ o[n + 1] = Len(ws)
  <2>1. 1 \in 1 .. n + 1 /\ n + 1 \in 1 .. n + 1
    BY <1>2
  <2> QED BY <1>3, <1>6, <2>1
<1>8. ASSUME NEW i \in 1 .. n + 2, NEW j \in 1 .. n + 2, i <= j
      PROVE  o[i] <= o[j]
  <2>1. CASE j \in 1 .. n + 1
    <3>1. i \in 1 .. n + 1
      BY <1>2, <1>8, <2>1
    <3>2. off[i] <= off[j]
      BY <1>3, <1>8, <2>1, <3>1
    <3> QED BY <1>6, <2>1, <3>1, <3>2
  <2>2. CASE j = n + 2 /\ i = n + 2
    BY <1>2, <1>5, <2>2
  <2>3. CASE j = n + 2 /\ i \in 1 .. n + 1
    <3>1. n + 1 \in 1 .. n + 1 /\ i <= n + 1
      BY <1>2, <2>3
    <3>2. off[i] <= off[n + 1] /\ off[n + 1] = Len(ws)
      BY <1>3, <2>3, <3>1
    <3>3. o[i] = off[i] /\ off[i] \in Nat
      BY <1>6, <2>3
    <3> QED BY <1>2, <1>5, <2>3, <3>2, <3>3
  <2>4. (j \in 1 .. n + 1 \/ j = n + 2) /\ (i \in 1 .. n + 1 \/ i = n + 2)
    BY <1>2
  <2> QED BY <2>1, <2>2, <2>3, <2>4
<1>9. ASSUME NEW i \in 1 .. n + 1
      PROVE  /\ o[i + 1] = o[i] + us[i].len
             /\ \A k \in 1 .. us[i].len : vs[o[i] + k] = Words(us[i])[k]
  <2>1. CASE i = n + 1
    <3>1. us[i] = r /\ us[i].len = m /\ i + 1 = n + 2
      BY <1>1, <1>2, <2>1 DEF m
    <3> QED BY <1>4, <1>5, <1>7, <2>1, <3>1
  <2>2. CASE i \in 1 .. n
    <3> DEFINE l == rs[i].len
    <3>1. i + 1 \in 1 .. n + 1 /\ n + 1 \in 1 .. n + 1 /\ i + 1 <= n + 1
      BY <1>2, <2>2
    <3>2. us[i] = rs[i] /\ rs[i] \in Request
      BY <1>1, <2>2, ElementOfSeq DEF n
    <3>3. l \in Nat
      BY <3>2, WordsOf
    <3>4. off[i + 1] = off[i] + l /\ \A k \in 1 .. l : ws[off[i] + k] = Words(rs[i])[k]
      BY <1>3, <2>2
    <3>5. off[i + 1] <= off[n + 1] /\ off[n + 1] = Len(ws)
      BY <1>3, <3>1
    <3>6. o[i] = off[i] /\ o[i + 1] = off[i + 1] /\ off[i] \in Nat /\ off[i + 1] \in Nat
      BY <1>6, <3>1
    <3> HIDE DEF l
    <3>7. ASSUME NEW k \in 1 .. l PROVE vs[o[i] + k] = Words(us[i])[k]
      <4>1. o[i] + k \in 1 .. Len(ws) /\ o[i] + k = off[i] + k
        BY <1>2, <3>3, <3>4, <3>5, <3>6
      <4> QED BY <1>4, <3>2, <3>4, <4>1
    <3> QED BY <3>2, <3>4, <3>6, <3>7 DEF l
  <2>3. i = n + 1 \/ i \in 1 .. n
    BY <1>2
  <2> QED BY <2>1, <2>2, <2>3
<1>10. Len(us) + 1 = n + 2 /\ Len(us) = n + 1
  BY <1>1, <1>2
<1>11. Encodes(vs, us)
  <2>1. o \in [1 .. Len(us) + 1 -> Nat] /\ o[1] = 0 /\ o[Len(us) + 1] = Len(vs)
    BY <1>4, <1>5, <1>7, <1>10
  <2>2. \A i, j \in 1 .. Len(us) + 1 : i <= j => o[i] <= o[j]
    BY <1>8, <1>10
  <2>3. \A i \in 1 .. Len(us) : /\ o[i + 1] = o[i] + us[i].len
                                /\ \A k \in 1 .. us[i].len : vs[o[i] + k] = Words(us[i])[k]
    BY <1>9, <1>10
  <2> QED BY <2>1, <2>2, <2>3 DEF Encodes
<1> QED BY <1>11 DEF vs, us

LEMMA StoredIsEncodes ==
  ASSUME NEW ws \in Seq(W), NEW rs \in Seq(Request), NEW st, st # "prefix"
  PROVE  Stored(st, ws, rs) <=> Encodes(ws, rs)
<1>1. CASE rs = <<>>
  BY <1>1, EncodesNone DEF Stored
<1>2. CASE rs # <<>>
  <2>1. FirstWords(st, Head(rs)) = Words(Head(rs))
    BY DEF FirstWords
  <2>2. Encodes(ws, rs) => Stored(st, ws, rs)
    BY <1>2, <2>1, EncodesSplit DEF Stored
  <2>3. Stored(st, ws, rs) => Encodes(ws, rs)
    BY <1>2, <2>1, EncodesJoin DEF Stored
  <2> QED BY <2>2, <2>3
<1> QED BY <1>1, <1>2

LEMMA StoredAppend ==
  ASSUME NEW st, NEW ws \in Seq(W), NEW rs \in Seq(Request), NEW r \in Request,
         Stored(st, ws, rs), st = "prefix" => rs # <<>>
  PROVE  Stored(st, ws \o Words(r), Append(rs, r))
<1> DEFINE us == Append(rs, r)
           vs == ws \o Words(r)
<1>1. us \in Seq(Request) /\ us # <<>> /\ vs \in Seq(W)
  <2>1. us \in Seq(Request) /\ us # <<>>
    BY AppendProperties
  <2>2. Words(r) \in Seq(W)
    BY WordsOf
  <2> QED BY <2>1, <2>2, ConcatProperties
<1>2. CASE st # "prefix"
  <2>1. Encodes(vs, us)
    BY <1>2, StoredIsEncodes, EncodesAppend
  <2> HIDE DEF us, vs
  <2>2. Stored(st, vs, us)
    BY <1>1, <1>2, <2>1, StoredIsEncodes
  <2> QED BY <2>2 DEF us, vs
<1>3. CASE rs # <<>>
  <2>1. PICK rest \in Seq(W) : ws = FirstWords(st, Head(rs)) \o rest /\ Encodes(rest, Tail(rs))
    BY <1>3 DEF Stored
  <2>2. Head(us) = Head(rs) /\ Tail(us) = Append(Tail(rs), r)
    BY <1>3, HeadTailAppend
  <2>3. Head(rs) \in Request /\ Tail(rs) \in Seq(Request)
    BY <1>3, HeadTailProperties
  <2>4. /\ FirstWords(st, Head(rs)) \in Seq(W) /\ Words(r) \in Seq(W)
        /\ rest \o Words(r) \in Seq(W)
    BY <2>3, FirstWordsOf, WordsOf, ConcatProperties
  <2>5. vs = FirstWords(st, Head(rs)) \o (rest \o Words(r))
    BY <2>1, <2>4, ConcatAssociative
  <2>6. Encodes(rest \o Words(r), Append(Tail(rs), r))
    BY <2>1, <2>3, EncodesAppend
  <2> HIDE DEF us, vs
  <2>7. Stored(st, vs, us)
    BY <1>1, <2>2, <2>4, <2>5, <2>6 DEF Stored
  <2> QED BY <2>7 DEF us, vs
<1> QED BY <1>2, <1>3

-----------------------------------------------------------------------------
(* The buffers.                                                            *)

LEMMA InputFields ==
  ASSUME NEW s, BuffersOK(s)
  PROVE  /\ s.input \in [Clients -> Buffers \cup {None}] /\ s.buffer \in [Buffers -> Buffer]
         /\ s.free \in Seq(Buffers) /\ s.available \in Clients \cup {None}
         /\ s = [input |-> s.input, buffer |-> s.buffer, free |-> s.free,
                 available |-> s.available]
         /\ None \notin Buffers /\ None \notin Clients
BY NoneAssumption DEF BuffersOK, InputType

LEMMA AdvanceOf ==
  ASSUME NEW b \in Buffer, Fits(b)
  PROVE  /\ Advance(b) \in Buffer /\ Fits(Advance(b)) /\ Advance(b).last = 0
         /\ Advance(b).data = SubSeq(b.data, b.last + 1, Len(b.data))
         /\ Advance(b).data \in Seq(W) /\ Len(Advance(b).data) = Len(b.data) - b.last
         /\ Advance(b).size = b.size /\ Advance(b).part = b.part
         /\ Empty(b) => Advance(b).data = <<>>
<1> DEFINE a == SubSeq(b.data, b.last + 1, Len(b.data))
<1>1. /\ b.data \in Seq(W) /\ b.last \in Nat /\ b.at \in Nat /\ b.size \in Nat
      /\ b.last <= Len(b.data) /\ Len(b.data) \in Nat
  BY LenProperties DEF Buffer, W, Fits
<1>2. a \in Seq(W) /\ Len(a) = Len(b.data) - b.last
  BY <1>1, SubSeqType
<1>3. /\ Advance(b).data = a /\ Advance(b).at = b.at + b.last
      /\ Advance(b).last = 0 /\ Advance(b).size = b.size /\ Advance(b).part = b.part
  BY DEF Advance, Buffer
<1>4. Advance(b) \in [data : Seq(W), at : Nat, part : 0 .. WordBytes - 1, last : Nat, size : Nat]
  <2> HIDE DEF a
  <2>1. b.at + b.last \in Nat
    BY <1>1
  <2> QED BY <1>1, <1>2, <2>1 DEF Advance, Buffer, a
<1> HIDE DEF a
<1>5. Empty(b) => a = <<>>
  BY <1>1, <1>2, EmptySeq DEF Empty, Got
<1>6. Fits(Advance(b))
  BY <1>1, <1>2, <1>3 DEF Fits, bufcnt
<1> QED BY <1>1, <1>2, <1>3, <1>4, <1>5, <1>6 DEF Buffer, W, a

LEMMA NewBufferOf ==
  /\ NewBuffer \in Buffer /\ Fits(NewBuffer) /\ Empty(NewBuffer) /\ NewBuffer.data = <<>>
  /\ NewBuffer.at = 0 /\ NewBuffer.part = 0 /\ NewBuffer.last = 0 /\ NewBuffer.size = BUFSIZE
<1>1. /\ <<>> \in Seq([req : Nat, k : Nat, v : Nat]) /\ Len(<<>>) = 0
      /\ BUFSIZE \in Nat /\ 0 \in 0 .. WordBytes - 1
  BY SizesAssumption
<1>2. /\ NewBuffer.data = <<>> /\ NewBuffer.at = 0 /\ NewBuffer.part = 0
      /\ NewBuffer.last = 0 /\ NewBuffer.size = BUFSIZE
  BY DEF NewBuffer
<1>3. NewBuffer \in Buffer
  BY <1>1 DEF NewBuffer, Buffer
<1> QED BY <1>1, <1>2, <1>3 DEF Fits, Empty, Got, bufcnt

LEMMA AdvanceNone ==
  ASSUME NEW b \in Buffer, Fits(b), b.last = 0
  PROVE  Advance(b).data = b.data
<1>1. b.data \in Seq(W)
  BY DEF Buffer, W
<1>2. b.last + 1 = 1
  OBVIOUS
<1>3. Advance(b).data = SubSeq(b.data, 1, Len(b.data))
  BY <1>2, AdvanceOf
<1> QED BY <1>1, <1>3, SubSeqFull

LEMMA AfterType ==
  ASSUME NEW s, BuffersOK(s), NEW c \in Clients
  PROVE  /\ After(s, c) \in Seq(W)
         /\ s.input[c] # None =>
              /\ BufferOf(s, c) \in Buffer /\ Fits(BufferOf(s, c))
              /\ After(s, c) = Advance(BufferOf(s, c)).data
              /\ PartOf(s, c) = BufferOf(s, c).part
         /\ s.input[c] = None => After(s, c) = <<>> /\ PartOf(s, c) = 0
<1>1. s.input[c] # None => BufferOf(s, c) \in Buffer /\ Fits(BufferOf(s, c))
  BY InputFields DEF BuffersOK, BufferOf
<1> QED BY <1>1, AdvanceOf DEF After, PartOf

\* A client's buffer gets another content.
LEMMA PutBuffer ==
  ASSUME NEW s, BuffersOK(s), NEW c \in Clients, s.input[c] # None,
         NEW b \in Buffer, Fits(b), s.available = c => Empty(b)
  PROVE  LET t == WithBuffer(s, c, b)
         IN  /\ BuffersOK(t) /\ t.input = s.input /\ t.free = s.free
             /\ t.available = s.available /\ BufferOf(t, c) = b
             /\ \A d \in Clients \ {c} : SameFor(t, s, d)
<1> DEFINE t == WithBuffer(s, c, b)
           x == s.input[c]
<1>1. x \in Buffers
  BY InputFields
<1>2. /\ t.input = s.input /\ t.free = s.free /\ t.available = s.available
      /\ t.buffer = [s.buffer EXCEPT ![x] = b]
      /\ t = [input |-> t.input, buffer |-> t.buffer, free |-> t.free, available |-> t.available]
  BY InputFields DEF WithBuffer
<1> HIDE DEF t
<1>3. t.buffer \in [Buffers -> Buffer] /\ t.buffer[x] = b
      /\ \A y \in Buffers : y # x => t.buffer[y] = s.buffer[y]
  BY <1>1, <1>2, InputFields
<1>4. t \in InputType
  BY <1>2, <1>3, InputFields DEF InputType
<1>5. \A d \in Clients \ {c} : SameFor(t, s, d)
  BY <1>2, <1>3, InputFields DEF SameFor, BufferOf, BuffersOK
<1>6. BufferOf(t, c) = b
  BY <1>2, <1>3 DEF BufferOf
<1>7. ASSUME NEW i \in 1 .. Len(s.free)
      PROVE  s.free[i] \in Buffers /\ t.buffer[s.free[i]] = s.buffer[s.free[i]]
  <2>1. s.free[i] \in Buffers
    BY InputFields, ElementOfSeq
  <2>2. s.free[i] # x
    BY DEF BuffersOK
  <2> QED BY <1>3, <2>1, <2>2
<1>8. BuffersOK(t)
  BY <1>2, <1>4, <1>5, <1>6, <1>7, InputFields DEF BuffersOK, SameFor
<1> QED BY <1>2, <1>5, <1>6, <1>8 DEF t

\* A buffer that is empty may be lent.
LEMMA OfferBuffer ==
  ASSUME NEW s, BuffersOK(s), NEW a \in Clients \cup {None},
         a # None => s.input[a] # None /\ Empty(BufferOf(s, a))
  PROVE  LET t == [s EXCEPT !.available = a]
         IN  /\ BuffersOK(t) /\ t.input = s.input /\ t.available = a
             /\ \A d \in Clients : SameFor(t, s, d)
<1> DEFINE t == [s EXCEPT !.available = a]
<1>1. /\ t.input = s.input /\ t.free = s.free /\ t.available = a /\ t.buffer = s.buffer
      /\ t = [input |-> t.input, buffer |-> t.buffer, free |-> t.free, available |-> t.available]
  BY InputFields
<1> HIDE DEF t
<1>2. t \in InputType
  BY <1>1, InputFields DEF InputType
<1>3. BuffersOK(t) /\ \A d \in Clients : SameFor(t, s, d)
  BY <1>1, <1>2 DEF BuffersOK, SameFor, BufferOf
<1> QED BY <1>1, <1>3 DEF t

LEMMA Prepend ==
  ASSUME NEW S, NEW f \in Seq(S), NEW b \in S
  PROVE  LET u == <<b>> \o f
         IN  /\ u \in Seq(S) /\ Len(u) = Len(f) + 1 /\ u[1] = b
             /\ \A i \in 1 .. Len(u) : i # 1 => i - 1 \in 1 .. Len(f) /\ u[i] = f[i - 1]
<1> DEFINE u == <<b>> \o f
<1>1. <<b>> \in Seq(S) /\ Len(<<b>>) = 1 /\ <<b>>[1] = b /\ Len(f) \in Nat
  BY LenProperties
<1>2. /\ u \in Seq(S) /\ Len(u) = 1 + Len(f)
      /\ \A i \in 1 .. 1 + Len(f) : u[i] = IF i <= 1 THEN <<b>>[i] ELSE f[i - 1]
  BY <1>1, ConcatProperties
<1> HIDE DEF u
<1>3. u[1] = b
  BY <1>1, <1>2
<1>4. ASSUME NEW i \in 1 .. Len(u), i # 1 PROVE i - 1 \in 1 .. Len(f) /\ u[i] = f[i - 1]
  BY <1>1, <1>2, <1>4
<1> QED BY <1>1, <1>2, <1>3, <1>4 DEF u

LEMMA GiveKeeps ==
  ASSUME NEW s, BuffersOK(s), NEW c \in Clients
  PROVE  LET t == GiveAvailable(s, c)
         IN  /\ BuffersOK(t) /\ t.available = None
             /\ \A d \in Clients : After(t, d) = After(s, d) /\ PartOf(t, d) = PartOf(s, d)
<1> DEFINE a == s.available
           x == s.input[a]
           t == GiveAvailable(s, c)
<1>1. CASE a \in {None, c}
  <2>1. t = [s EXCEPT !.available = None]
    BY <1>1 DEF GiveAvailable
  <2>2. BuffersOK(t) /\ t.available = None /\ \A d \in Clients : SameFor(t, s, d)
    BY <2>1, OfferBuffer
  <2> QED BY <2>2 DEF After, PartOf, SameFor
<1>2. CASE a \notin {None, c}
  <2>1. /\ a \in Clients /\ x \in Buffers /\ BufferOf(s, a) = s.buffer[x]
        /\ Fits(s.buffer[x]) /\ Empty(s.buffer[x]) /\ s.buffer[x] \in Buffer
    BY <1>2, InputFields DEF BuffersOK, BufferOf
  <2> DEFINE e == IF s.buffer[x].size > BUFWATERMARK THEN NewBuffer ELSE Advance(s.buffer[x])
  <2>2. /\ e \in Buffer /\ Fits(e) /\ Empty(e) /\ e.data = <<>>
        /\ Advance(s.buffer[x]).data = <<>> /\ s.buffer[x].part = 0
    BY <2>1, AdvanceOf, NewBufferOf DEF Empty, Got
  <2> HIDE DEF e
  <2>3. /\ t.input = [s.input EXCEPT ![a] = None]
        /\ t.buffer = [s.buffer EXCEPT ![x] = e]
        /\ t.available = None
        /\ t.free = s.free \/ t.free = <<x>> \o s.free
        /\ t = [input |-> t.input, buffer |-> t.buffer, free |-> t.free,
                available |-> t.available]
    <3> DEFINE f == IF s.buffer[x].size > BUFWATERMARK THEN s.free ELSE <<x>> \o s.free
    <3>1. t = [s EXCEPT !.available = None, !.input[a] = None, !.buffer[x] = e, !.free = f]
      BY <1>2 DEF GiveAvailable, e
    <3>2. f = s.free \/ f = <<x>> \o s.free
      OBVIOUS
    <3>3. s \in InputType
      BY DEF BuffersOK
    <3> HIDE DEF e, t, a, x, f
    <3> QED BY <3>1, <3>2, <3>3 DEF InputType
  <2> HIDE DEF t, a, x
  <2>4. /\ t.free \in Seq(Buffers)
        /\ \A i \in 1 .. Len(t.free) :
             t.free[i] = x \/ \E j \in 1 .. Len(s.free) : t.free[i] = s.free[j]
        /\ \A i, j \in 1 .. Len(t.free) : t.free[i] = t.free[j] => i = j
    <3>1. \A i \in 1 .. Len(s.free) : s.free[i] # x
      BY <1>2, <2>1 DEF BuffersOK, a, x
    <3>2. CASE t.free = s.free
      BY <3>2, InputFields DEF BuffersOK
    <3>3. CASE t.free = <<x>> \o s.free
      <4>1. /\ t.free \in Seq(Buffers) /\ Len(t.free) = Len(s.free) + 1 /\ t.free[1] = x
            /\ \A i \in 1 .. Len(t.free) :
                 i # 1 => i - 1 \in 1 .. Len(s.free) /\ t.free[i] = s.free[i - 1]
        BY <2>1, <3>3, InputFields, Prepend
      <4>2. \A i \in 1 .. Len(t.free) :
              t.free[i] = x \/ \E j \in 1 .. Len(s.free) : t.free[i] = s.free[j]
        BY <4>1
      <4>3. ASSUME NEW i \in 1 .. Len(t.free), NEW j \in 1 .. Len(t.free),
                   t.free[i] = t.free[j]
            PROVE  i = j
        <5>1. CASE i = 1 \/ j = 1
          BY <3>1, <4>1, <4>3, <5>1
        <5>2. CASE i # 1 /\ j # 1
          <6>1. /\ i - 1 \in 1 .. Len(s.free) /\ j - 1 \in 1 .. Len(s.free)
                /\ s.free[i - 1] = s.free[j - 1]
            BY <4>1, <4>3, <5>2
          <6>2. i - 1 = j - 1
            BY <6>1 DEF BuffersOK
          <6> QED BY <6>2
        <5> QED BY <5>1, <5>2
      <4> QED BY <4>1, <4>2, <4>3
    <3> QED BY <2>3, <3>2, <3>3
  <2>5. t \in InputType
    BY <2>1, <2>2, <2>3, <2>4, InputFields DEF InputType
  <2>6. /\ t.buffer[x] = e /\ t.input[a] = None
        /\ \A y \in Buffers : y # x => t.buffer[y] = s.buffer[y]
        /\ \A d \in Clients : d # a => t.input[d] = s.input[d] /\ s.input[d] # x
    BY <2>1, <2>3, InputFields DEF BuffersOK, a, x
  <2>7. \A i \in 1 .. Len(t.free) : Fits(t.buffer[t.free[i]]) /\ Empty(t.buffer[t.free[i]])
    <3> SUFFICES ASSUME NEW i \in 1 .. Len(t.free)
                 PROVE  Fits(t.buffer[t.free[i]]) /\ Empty(t.buffer[t.free[i]])
      OBVIOUS
    <3>1. CASE t.free[i] = x
      BY <2>2, <2>6, <3>1
    <3>2. CASE t.free[i] # x
      <4>1. PICK j \in 1 .. Len(s.free) : t.free[i] = s.free[j]
        BY <2>4, <3>2
      <4>2. s.free[j] \in Buffers
        BY InputFields, ElementOfSeq
      <4> QED BY <2>6, <3>2, <4>1, <4>2 DEF BuffersOK
    <3> QED BY <3>1, <3>2
  <2>8. ASSUME NEW d \in Clients, t.input[d] # None
        PROVE  /\ d # a /\ t.input[d] = s.input[d] /\ BufferOf(t, d) = BufferOf(s, d)
               /\ Fits(BufferOf(t, d))
               /\ \A i \in 1 .. Len(t.free) : t.free[i] # t.input[d]
               /\ \A f \in Clients : t.input[f] = t.input[d] => f = d
    <3>1. d # a /\ t.input[d] = s.input[d] /\ s.input[d] # x /\ s.input[d] # None
      BY <2>6, <2>8
    <3>2. BufferOf(t, d) = BufferOf(s, d)
      BY <2>6, <3>1, InputFields DEF BufferOf
    <3>3. \A i \in 1 .. Len(t.free) : t.free[i] # t.input[d]
      BY <2>4, <3>1 DEF BuffersOK
    <3>4. \A f \in Clients : t.input[f] = t.input[d] => f = d
      BY <2>6, <3>1 DEF BuffersOK
    <3> QED BY <3>1, <3>2, <3>3, <3>4 DEF BuffersOK
  <2>9. BuffersOK(t)
    BY <2>3, <2>4, <2>5, <2>7, <2>8 DEF BuffersOK
  <2>10. ASSUME NEW d \in Clients PROVE After(t, d) = After(s, d) /\ PartOf(t, d) = PartOf(s, d)
    <3>1. CASE d = a
      <4>1. s.input[a] # None /\ Empty(BufferOf(s, a)) /\ BufferOf(s, a) = s.buffer[x]
        BY <2>1, InputFields DEF x
      <4>2. After(s, a) = <<>> /\ PartOf(s, a) = 0
        BY <2>1, <2>2, <4>1 DEF After, PartOf
      <4> QED BY <2>6, <3>1, <4>2 DEF After, PartOf
    <3>2. CASE d # a
      BY <2>6, <2>8, <3>2 DEF After, PartOf
    <3> QED BY <3>1, <3>2
  <2> QED BY <2>3, <2>9, <2>10 DEF t
<1> QED BY <1>1, <1>2

\* There is always a buffer for another client.
LEMMA BufferLeft ==
  ASSUME NEW s, BuffersOK(s), NEW c \in Clients, s.input[c] = None, s.free = <<>>
  PROVE  \E b \in Buffers : b \notin Used(s)
<1> SUFFICES ASSUME \A b \in Buffers : b \in Used(s) PROVE FALSE
  OBVIOUS
<1> DEFINE D == Clients \ {c}
           g == [b \in Buffers |-> CHOOSE d \in D : s.input[d] = b]
<1>1. \A b \in Buffers : \E d \in D : s.input[d] = b
  <2> SUFFICES ASSUME NEW b \in Buffers PROVE \E d \in D : s.input[d] = b
    OBVIOUS
  <2>1. b # None /\ s.input \in [Clients -> Buffers \cup {None}]
    BY InputFields
  <2>2. ToSet(s.free) = {}
    BY DEF ToSet
  <2>3. b \in Range(s.input)
    BY <2>2 DEF Used
  <2> QED BY <2>1, <2>3 DEF Range
<1>2. g \in [Buffers -> D] /\ \A b \in Buffers : s.input[g[b]] = b
  BY <1>1
<1>3. /\ IsFiniteSet(D) /\ Cardinality(D) = Cardinality(Clients) - 1
      /\ Cardinality(Clients) \in Nat
  BY ClientsAssumption, FS_RemoveElement, FS_CardinalityType
<1>4. IsFiniteSet(Buffers) /\ Cardinality(Buffers) = Cardinality(Clients)
  BY <1>3, FS_Interval DEF Buffers
<1> HIDE DEF g, D
<1>5. \E x, y \in Buffers : x # y /\ g[x] = g[y]
  BY <1>2, <1>3, <1>4, FS_PigeonHole
<1> QED BY <1>2, <1>5

LEMMA TakeKeeps ==
  ASSUME NEW s, BuffersOK(s), NEW c \in Clients, s.available = None
  PROVE  LET t == TakeBuffer(s, c)
         IN  /\ BuffersOK(t) /\ t.available = None /\ t.input[c] # None
             /\ \A d \in Clients : After(t, d) = After(s, d) /\ PartOf(t, d) = PartOf(s, d)
<1> DEFINE new == CHOOSE b \in Buffers : b \notin Used(s)
           t == TakeBuffer(s, c)
<1>1. CASE s.input[c] # None
  <2>1. t = s
    BY <1>1 DEF TakeBuffer
  <2> QED BY <1>1, <2>1
<1>2. CASE s.input[c] = None
  <2> DEFINE x == t.input[c]
  <2>1. /\ x \in Buffers /\ t.input = [s.input EXCEPT ![c] = x]
        /\ t.available = None
        /\ t = [input |-> t.input, buffer |-> t.buffer, free |-> t.free,
                available |-> t.available]
        /\ t.buffer \in [Buffers -> Buffer] /\ t.free \in Seq(Buffers)
        /\ Fits(t.buffer[x]) /\ Empty(t.buffer[x])
        /\ \A y \in Buffers : y # x => t.buffer[y] = s.buffer[y]
        /\ \A d \in Clients : s.input[d] # x
        /\ \A i \in 1 .. Len(t.free) : t.free[i] # x
        /\ \A i \in 1 .. Len(t.free) : \E j \in 1 .. Len(s.free) : t.free[i] = s.free[j]
        /\ \A i, j \in 1 .. Len(t.free) : t.free[i] = t.free[j] => i = j
    <3>1. CASE s.free # <<>>
      <4> DEFINE h == Head(s.free)
      <4>1. /\ t.input = [s.input EXCEPT ![c] = h] /\ t.free = Tail(s.free)
            /\ t.buffer = s.buffer /\ t.available = None
            /\ t = [input |-> t.input, buffer |-> t.buffer, free |-> t.free,
                    available |-> t.available]
        <5>1. t = [s EXCEPT !.input[c] = h, !.free = Tail(s.free)]
          BY <1>2, <3>1 DEF TakeBuffer
        <5>2. s \in InputType
          BY DEF BuffersOK
        <5> HIDE DEF t, h
        <5> QED BY <5>1, <5>2 DEF InputType
      <4> HIDE DEF t, h
      <4>2. /\ h \in Buffers /\ Len(s.free) \in Nat /\ 1 \in 1 .. Len(s.free)
            /\ t.free \in Seq(Buffers) /\ Len(t.free) = Len(s.free) - 1
            /\ \A i \in 1 .. Len(t.free) : t.free[i] = s.free[i + 1]
        BY <3>1, <4>1, InputFields, HeadTailProperties, EmptySeq, LenProperties DEF h
      <4>3. h = s.free[1]
        BY DEF h
      <4>4. t.input[c] = h
        BY <4>1, InputFields
      <4>5. ASSUME NEW i \in 1 .. Len(t.free)
            PROVE  /\ i + 1 \in 1 .. Len(s.free) /\ t.free[i] = s.free[i + 1]
                   /\ t.free[i] # h
        <5>1. i + 1 \in 1 .. Len(s.free) /\ i + 1 # 1
          BY <4>2
        <5> QED BY <4>2, <4>3, <5>1 DEF BuffersOK
      <4>6. ASSUME NEW i \in 1 .. Len(t.free), NEW j \in 1 .. Len(t.free),
                   t.free[i] = t.free[j]
            PROVE  i = j
        <5>1. i + 1 = j + 1
          BY <4>5, <4>6 DEF BuffersOK
        <5> QED BY <5>1
      <4>7. Fits(s.buffer[h]) /\ Empty(s.buffer[h]) /\ \A d \in Clients : s.input[d] # h
        BY <4>2, <4>3, InputFields DEF BuffersOK
      <4> QED BY <4>1, <4>2, <4>4, <4>5, <4>6, <4>7, InputFields
    <3>2. CASE s.free = <<>>
      <4>1. new \in Buffers /\ new \notin Used(s)
        BY <1>2, <3>2, BufferLeft
      <4> HIDE DEF new
      <4>2. /\ t.input = [s.input EXCEPT ![c] = new] /\ t.free = s.free
            /\ t.buffer = [s.buffer EXCEPT ![new] = NewBuffer] /\ t.available = None
            /\ t = [input |-> t.input, buffer |-> t.buffer, free |-> t.free,
                    available |-> t.available]
        <5>1. t = [s EXCEPT !.input[c] = new, !.buffer[new] = NewBuffer]
          BY <1>2, <3>2 DEF TakeBuffer, new
        <5>2. s \in InputType
          BY DEF BuffersOK
        <5> HIDE DEF t
        <5> QED BY <3>2, <5>1, <5>2 DEF InputType
      <4> HIDE DEF t
      <4>3. NewBuffer \in Buffer /\ Fits(NewBuffer) /\ Empty(NewBuffer)
        BY NewBufferOf
      <4>4. t.input[c] = new
        BY <4>2, InputFields
      <4>5. \A d \in Clients : s.input[d] # new
        <5>1. new # None
          BY <4>1, InputFields
        <5> QED BY <4>1, <5>1, InputFields DEF Used, Range
      <4>6. \A i \in 1 .. Len(t.free) : FALSE
        BY <3>2, <4>2
      <4> QED BY <4>1, <4>2, <4>3, <4>4, <4>5, <4>6, InputFields
    <3> QED BY <3>1, <3>2
  <2> HIDE DEF t, x, new
  <2>2. t \in InputType
    BY <2>1, InputFields DEF InputType
  <2>3. t.input[c] = x /\ \A d \in Clients : d # c => t.input[d] = s.input[d]
    BY <2>1, InputFields
  <2>4. ASSUME NEW d \in Clients, d # c, t.input[d] # None
        PROVE  BufferOf(t, d) = BufferOf(s, d)
    BY <2>1, <2>3, <2>4, InputFields DEF BufferOf
  <2>5. ASSUME NEW i \in 1 .. Len(t.free)
        PROVE  Fits(t.buffer[t.free[i]]) /\ Empty(t.buffer[t.free[i]])
    <3>1. PICK j \in 1 .. Len(s.free) : t.free[i] = s.free[j]
      BY <2>1
    <3>2. s.free[j] \in Buffers
      BY InputFields, ElementOfSeq
    <3> QED BY <2>1, <3>1, <3>2 DEF BuffersOK
  <2>6. ASSUME NEW d \in Clients, t.input[d] # None
        PROVE  /\ Fits(BufferOf(t, d))
               /\ \A i \in 1 .. Len(t.free) : t.free[i] # t.input[d]
               /\ \A f \in Clients : t.input[f] = t.input[d] => f = d
    <3>1. CASE d = c
      BY <2>1, <2>3, <3>1 DEF BufferOf
    <3>2. CASE d # c
      <4>1. t.input[d] = s.input[d] /\ s.input[d] # x /\ BufferOf(t, d) = BufferOf(s, d)
        BY <2>1, <2>3, <2>4, <2>6, <3>2
      <4>2. \A i \in 1 .. Len(t.free) : t.free[i] # t.input[d]
        BY <2>1, <2>6, <4>1 DEF BuffersOK
      <4>3. \A f \in Clients : t.input[f] = t.input[d] => f = d
        BY <2>3, <2>6, <4>1 DEF BuffersOK
      <4> QED BY <2>6, <4>1, <4>2, <4>3 DEF BuffersOK
    <3> QED BY <3>1, <3>2
  <2>7. BuffersOK(t)
    BY <2>1, <2>2, <2>5, <2>6 DEF BuffersOK
  <2>8. ASSUME NEW d \in Clients PROVE After(t, d) = After(s, d) /\ PartOf(t, d) = PartOf(s, d)
    <3>1. CASE d = c
      <4>1. t.buffer[x] \in Buffer /\ x # None
        BY <2>1, InputFields
      <4>2. Advance(t.buffer[x]).data = <<>> /\ t.buffer[x].part = 0
        BY <2>1, <4>1, AdvanceOf DEF Empty
      <4> QED BY <1>2, <2>3, <3>1, <4>1, <4>2 DEF After, PartOf, BufferOf
    <3>2. CASE d # c
      BY <2>3, <2>4, <3>2 DEF After, PartOf
    <3> QED BY <3>1, <3>2
  <2>9. x # None
    BY <2>1, InputFields
  <2> QED BY <2>1, <2>3, <2>7, <2>8, <2>9 DEF t
<1> QED BY <1>1, <1>2

LEMMA FreeKeeps ==
  ASSUME NEW s, BuffersOK(s), NEW c \in Clients
  PROVE  LET t == FreeOsBuffers(s, c)
         IN  /\ BuffersOK(t) /\ After(t, c) = <<>> /\ PartOf(t, c) = 0
             /\ \A d \in Clients \ {c} : SameFor(t, s, d)
<1> DEFINE t == FreeOsBuffers(s, c)
           x == s.input[c]
           av == IF s.available = c THEN None ELSE s.available
           f == IF x # None /\ s.free = <<>> THEN <<x>> ELSE s.free
           n == IF s.free = <<>> THEN [NewBuffer EXCEPT !.size = s.buffer[x].size] ELSE NewBuffer
           bs == IF x = None THEN s.buffer ELSE [s.buffer EXCEPT ![x] = n]
<1>1. s \in InputType /\ None \notin Clients /\ None \notin Buffers
  BY InputFields DEF BuffersOK
<1>2. t = [s EXCEPT !.available = av, !.input[c] = None, !.free = f, !.buffer = bs]
  BY DEF FreeOsBuffers
<1> HIDE DEF t, x, av, f, n, bs
<1>3. /\ t.available = av /\ t.input = [s.input EXCEPT ![c] = None]
      /\ t.free = f /\ t.buffer = bs
      /\ t = [input |-> t.input, buffer |-> t.buffer, free |-> t.free,
              available |-> t.available]
  BY <1>1, <1>2 DEF InputType
<1>4. t.input[c] = None /\ \A d \in Clients : d # c => t.input[d] = s.input[d]
  BY <1>3, InputFields
<1>5. /\ f \in Seq(Buffers) /\ bs \in [Buffers -> Buffer]
      /\ \A y \in Buffers : y # x => bs[y] = s.buffer[y]
      /\ \A i, j \in 1 .. Len(f) : f[i] = f[j] => i = j
      /\ \A i \in 1 .. Len(f) :
           /\ f[i] \in Buffers /\ Fits(bs[f[i]]) /\ Empty(bs[f[i]])
           /\ f[i] = x \/ \E j \in 1 .. Len(s.free) : f[i] = s.free[j]
  <2>1. CASE x # None /\ s.free = <<>>
    <3>1. x \in Buffers /\ s.buffer[x] \in Buffer
      BY <2>1, InputFields DEF x
    <3>2. f = <<x>> /\ f \in Seq(Buffers) /\ Len(f) = 1 /\ f[1] = x
      BY <2>1, <3>1 DEF f
    <3>3. n \in Buffer /\ Fits(n) /\ Empty(n)
      <4>1. /\ n.data = <<>> /\ n.at = 0 /\ n.part = 0 /\ n.last = 0
            /\ n.size = s.buffer[x].size /\ n \in Buffer
        BY <2>1, <3>1, NewBufferOf DEF Buffer, n
      <4>2. n.size \in Nat /\ Len(<<>>) = 0
        BY <4>1 DEF Buffer
      <4> QED BY <4>1, <4>2 DEF Fits, Empty, Got, bufcnt
    <3>4. bs = [s.buffer EXCEPT ![x] = n]
      BY <2>1 DEF bs
    <3> QED BY <3>1, <3>2, <3>3, <3>4, InputFields
  <2>2. CASE x = None
    <3>1. f = s.free /\ bs = s.buffer
      BY <2>2 DEF f, bs
    <3>2. \A i \in 1 .. Len(f) : f[i] \in Buffers
      BY <3>1, InputFields, ElementOfSeq
    <3> QED BY <3>1, <3>2, InputFields DEF BuffersOK
  <2>3. CASE x # None /\ s.free # <<>>
    <3>1. x \in Buffers
      BY <2>3, InputFields DEF x
    <3>2. f = s.free /\ bs = [s.buffer EXCEPT ![x] = NewBuffer]
      BY <2>3 DEF f, bs, n
    <3>3. \A i \in 1 .. Len(f) : f[i] \in Buffers /\ f[i] # x
      <4>1. \A i \in 1 .. Len(f) : f[i] \in Buffers
        BY <3>2, InputFields, ElementOfSeq
      <4> QED BY <2>3, <3>2, <4>1 DEF BuffersOK, x
    <3>4. bs \in [Buffers -> Buffer] /\ \A y \in Buffers : y # x => bs[y] = s.buffer[y]
      BY <3>1, <3>2, InputFields, NewBufferOf
    <3> QED BY <3>2, <3>3, <3>4, InputFields DEF BuffersOK
  <2> QED BY <2>1, <2>2, <2>3
<1>6. ASSUME NEW d \in Clients, d # c PROVE SameFor(t, s, d)
  <2>1. CASE s.input[d] = None
    BY <1>4, <1>6, <2>1 DEF SameFor
  <2>2. CASE s.input[d] # None
    <3>1. s.input[d] \in Buffers /\ s.input[d] # x
      BY <1>6, <2>2, InputFields DEF BuffersOK, x
    <3> QED BY <1>3, <1>4, <1>5, <1>6, <3>1 DEF SameFor, BufferOf
  <2> QED BY <2>1, <2>2
<1>7. ASSUME NEW d \in Clients, t.input[d] # None
      PROVE  /\ d # c /\ Fits(BufferOf(t, d))
             /\ \A i \in 1 .. Len(t.free) : t.free[i] # t.input[d]
             /\ \A g \in Clients : t.input[g] = t.input[d] => g = d
  <2>1. d # c /\ t.input[d] = s.input[d] /\ BufferOf(t, d) = BufferOf(s, d)
    BY <1>4, <1>6, <1>7 DEF SameFor
  <2>2. s.input[d] # x
    BY <1>7, <2>1 DEF BuffersOK, x
  <2>3. \A i \in 1 .. Len(t.free) : t.free[i] # t.input[d]
    BY <1>3, <1>5, <1>7, <2>1, <2>2 DEF BuffersOK
  <2>4. \A g \in Clients : t.input[g] = t.input[d] => g = d
    BY <1>4, <1>7, <2>1 DEF BuffersOK
  <2> QED BY <1>7, <2>1, <2>3, <2>4 DEF BuffersOK
<1>8. t.available # None => t.input[t.available] # None /\ Empty(BufferOf(t, t.available))
  <2>1. t.available # None => t.available \in Clients /\ t.available # c
                              /\ t.available = s.available
    BY <1>3, InputFields DEF av
  <2> QED BY <1>4, <1>6, <2>1 DEF BuffersOK, SameFor
<1>9. t \in InputType
  <2>1. av \in Clients \cup {None} /\ t.input \in [Clients -> Buffers \cup {None}]
    BY <1>3, InputFields DEF av
  <2> QED BY <1>3, <1>5, <2>1 DEF InputType
<1>10. BuffersOK(t)
  BY <1>3, <1>5, <1>7, <1>8, <1>9 DEF BuffersOK
<1>11. After(t, c) = <<>> /\ PartOf(t, c) = 0
  BY <1>4 DEF After, PartOf
<1> QED BY <1>6, <1>10, <1>11 DEF t

-----------------------------------------------------------------------------
(* What ReadRequestFromClient makes of the words it has.                   *)

FirstLen(st, r) == IF st = "prefix" THEN Prefix ELSE r.len

\* What is known of the requests of a connection, see Numbered.
Sensible(st, rs, isBig) ==
  /\ rs # <<>> => (Head(rs).big => isBig /\ Head(rs).len > 1)
  /\ st = "prefix" => rs # <<>> /\ ~Head(rs).big /\ Head(rs).len >= Prefix

LEMMA FirstWord ==
  ASSUME NEW data \in Seq(W), NEW so \in Seq(W), NEW rs \in Seq(Request), NEW st,
         Stored(st, data \o so, rs), Len(data) >= 1, NEW isBig, Sensible(st, rs, isBig)
  PROVE  LET r == Head(rs)
         IN  /\ rs # <<>> /\ r \in Request
             /\ data[1].v = IF r.big THEN 0 ELSE FirstLen(st, r)
             /\ r.big /\ Len(data) >= 2 => data[2].v = r.len
             /\ FirstLen(st, r) \in 1 .. r.len
             /\ data[1] \in W /\ (Len(data) >= 2 => data[2] \in W)
<1> DEFINE r == Head(rs)
           f == FirstWords(st, r)
<1>1. data \o so # <<>> /\ Len(data) \in Nat
  BY LenProperties, ConcatEqualIffEmpty, EmptySeq
<1>2. rs # <<>>
  BY <1>1 DEF Stored
<1>3. r \in Request
  BY <1>2, HeadTailProperties
<1>4. PICK rest \in Seq(W) : data \o so = f \o rest
  BY <1>2 DEF Stored
<1>5. /\ f \in Seq(W) /\ Len(f) = r.len /\ r.len \in Nat /\ r.len >= 1
      /\ f[1].v = IF st = "prefix" THEN Prefix ELSE IF r.big THEN 0 ELSE r.len
      /\ 2 <= r.len => f[2] = Words(r)[2]
  BY <1>3, FirstWordsOf, WordsOf
<1>6. Words(r)[2].v = r.len \/ ~(r.big /\ r.len >= 2)
  <2> SUFFICES ASSUME r.big, r.len >= 2 PROVE Words(r)[2].v = r.len
    OBVIOUS
  <2>1. 2 \in 1 .. r.len
    BY <1>5
  <2>2. Words(r)[2] = Word(r, 2, r.len)
    BY <1>3, <2>1, WordsOf
  <2> QED BY <2>2 DEF Word
<1> HIDE DEF f, r
<1>7. \A i \in 1 .. Len(data) : i <= Len(f) => data[i] = f[i]
  <2>1. \A i \in 1 .. Len(data) + Len(so) :
          (data \o so)[i] = IF i <= Len(data) THEN data[i] ELSE so[i - Len(data)]
    BY ConcatProperties
  <2>2. \A i \in 1 .. Len(f) + Len(rest) :
          (f \o rest)[i] = IF i <= Len(f) THEN f[i] ELSE rest[i - Len(f)]
    BY <1>5, ConcatProperties
  <2>3. ASSUME NEW i \in 1 .. Len(data), i <= Len(f) PROVE data[i] = f[i]
    <3>1. i \in 1 .. Len(data) + Len(so) /\ i \in 1 .. Len(f) + Len(rest)
      BY <1>5, <2>3, LenProperties
    <3>2. (data \o so)[i] = data[i] /\ (f \o rest)[i] = f[i]
      BY <2>1, <2>2, <2>3, <3>1
    <3> QED BY <1>4, <3>2
  <2> QED BY <2>3
<1>8. data[1] = f[1] /\ (Len(data) >= 2 /\ r.len >= 2 => data[2] = f[2])
  BY <1>1, <1>5, <1>7
<1>9. data[1] \in W /\ (Len(data) >= 2 => data[2] \in W)
  BY <1>1, ElementOfSeq
<1>10. (r.big => r.len > 1) /\ (st = "prefix" => ~r.big /\ r.len >= Prefix)
  BY <1>2 DEF Sensible, r
<1> QED BY <1>2, <1>3, <1>5, <1>6, <1>8, <1>9, <1>10 DEF r, FirstLen, Prefix

LEMMA WholeIs ==
  ASSUME NEW b \in Buffer, NEW n \in 0 .. Len(b.data), NEW c
  PROVE  WholeAt(b, c, n) <=> Whole(SubSeq(b.data, n + 1, Len(b.data)), c \in big)
<1> DEFINE d == b.data
           t == SubSeq(d, n + 1, Len(d))
<1>1. d \in Seq(W) /\ Len(d) \in Nat /\ n \in Nat /\ n <= Len(d)
  BY LenProperties DEF Buffer, W
<1>2. Len(t) = Len(d) - n /\ \A i \in 1 .. Len(t) : t[i] = d[n + i]
  BY <1>1, SubSeqType
<1>3. WholeAt(b, c, n) <=>
        /\ Len(d) - n >= 1
        /\ Len(d) - n >= d[n + 1].v
        /\ d[n + 1].v > 0 \/ (c \in big /\ Len(d) - n >= 2 /\ Len(d) - n >= d[n + 2].v)
  BY DEF WholeAt, Got
<1> HIDE DEF t, d
<1>4. Len(t) >= 1 => t[1] = d[n + 1]
  BY <1>1, <1>2
<1>5. Len(t) >= 2 => t[2] = d[n + 2]
  BY <1>1, <1>2
<1>6. WholeAt(b, c, n) <=> Whole(t, c \in big)
  BY <1>1, <1>2, <1>3, <1>4, <1>5 DEF Whole
<1> QED BY <1>6 DEF t, d

LEMMA NeededIs ==
  ASSUME NEW b \in Buffer, NEW so \in Seq(W), NEW rs \in Seq(Request), NEW st, NEW c,
         Stored(st, b.data \o so, rs), Sensible(st, rs, c \in big)
  PROVE  /\ Needed(b, c) \in Nat
         /\ NeedHeader(b, c) => Got(b) < Needed(b, c)
         /\ ~NeedHeader(b, c) =>
              /\ rs # <<>> /\ Needed(b, c) = FirstLen(st, Head(rs))
              /\ Needed(b, c) \in 1 .. Head(rs).len
              /\ b.data[1].v = 0 /\ c \in big <=> Head(rs).big
              /\ Got(b) >= 1 /\ (Head(rs).big => Needed(b, c) >= 2)
         /\ Whole(b.data, c \in big) <=> ~NeedHeader(b, c) /\ Got(b) >= Needed(b, c)
<1> DEFINE d == b.data
           r == Head(rs)
<1>1. d \in Seq(W) /\ Len(d) \in Nat /\ Got(b) = Len(d)
  BY LenProperties DEF Buffer, W, Got
<1>2. CASE Len(d) = 0
  BY <1>1, <1>2 DEF Needed, NeedHeader, Whole
<1>3. CASE Len(d) >= 1
  <2>1. /\ rs # <<>> /\ r \in Request
        /\ d[1].v = IF r.big THEN 0 ELSE FirstLen(st, r)
        /\ r.big /\ Len(d) >= 2 => d[2].v = r.len
        /\ FirstLen(st, r) \in 1 .. r.len
    BY <1>1, <1>3, FirstWord
  <2>2. (r.big => c \in big /\ r.len > 1) /\ (st = "prefix" => ~r.big)
    BY <2>1 DEF Sensible
  <2>3. r.len \in Nat /\ FirstLen(st, r) \in Nat /\ r.big \in BOOLEAN
        /\ FirstLen(st, r) >= 1
    BY <2>1, WordsOf DEF Request
  <2>4. r.big => FirstLen(st, r) = r.len
    BY <2>2 DEF FirstLen
  <2> HIDE DEF d, r
  <2>5. Needed(b, c) = IF d[1].v > 0 \/ c \notin big THEN d[1].v
                       ELSE IF Len(d) = 1 THEN 2 ELSE d[2].v
    BY <1>1, <1>3 DEF Needed, d
  <2>6. NeedHeader(b, c) <=> Len(d) = 1 /\ d[1].v = 0 /\ c \in big
    BY <1>1, <1>3 DEF NeedHeader, d
  <2>7. CASE r.big
    <3>1. d[1].v = 0 /\ c \in big /\ FirstLen(st, r) = r.len /\ r.len >= 2 /\ r.len \in Nat
      BY <2>1, <2>2, <2>3, <2>4, <2>7
    <3>2. CASE Len(d) = 1
      <4>1. NeedHeader(b, c) /\ Needed(b, c) = 2
        BY <2>5, <2>6, <3>1, <3>2
      <4>2. ~Whole(d, c \in big)
        BY <3>1, <3>2 DEF Whole
      <4> QED BY <1>1, <3>2, <4>1, <4>2 DEF d
    <3>3. CASE Len(d) >= 2
      <4>1. ~NeedHeader(b, c) /\ Needed(b, c) = r.len /\ d[2].v = r.len
        BY <2>1, <2>5, <2>6, <2>7, <3>1, <3>3
      <4>2. Whole(d, c \in big) <=> Len(d) >= r.len
        BY <3>1, <3>3, <4>1 DEF Whole
      <4> QED BY <1>1, <2>1, <2>7, <3>1, <3>3, <4>1, <4>2 DEF d, r
    <3> QED BY <1>1, <1>3, <3>2, <3>3
  <2>8. CASE ~r.big
    BY <1>1, <1>3, <2>1, <2>2, <2>3, <2>4, <2>5, <2>6, <2>8 DEF Whole, d, r
  <2> QED BY <2>7, <2>8
<1> QED BY <1>1, <1>2, <1>3

LEMMA MakeRoomIs ==
  ASSUME NEW b \in Buffer, Fits(b), NEW needed \in Nat, Got(b) < needed, b.last = 0
  PROVE  LET m == MakeRoom(b, needed)
         IN  /\ m \in Buffer /\ Fits(m) /\ m.data = b.data /\ m.part = b.part /\ m.last = 0
             /\ m.size - bufcnt(m) \in Nat /\ bufcnt(m) \in Nat
<1> DEFINE m == MakeRoom(b, needed)
           z == IF needed > b.size THEN needed ELSE b.size
<1>1. /\ b.data \in Seq(W) /\ b.at \in Nat /\ b.last \in Nat /\ b.size \in Nat
      /\ Len(b.data) \in Nat /\ b.at + Len(b.data) <= b.size /\ Len(b.data) < needed
  BY LenProperties DEF Buffer, W, Fits, bufcnt, Got
<1>2. CASE (Got(b) = 0 /\ b.part = 0) \/ b.at + needed > b.size
  <2>1. m = [b EXCEPT !.at = 0, !.size = z]
    BY <1>2 DEF MakeRoom
  <2>2. z \in Nat /\ z >= needed
    BY <1>1
  <2> HIDE DEF m, z
  <2>3. /\ m.data = b.data /\ m.at = 0 /\ m.part = b.part /\ m.last = 0 /\ m.size = z
        /\ m \in Buffer
    BY <1>1, <2>1, <2>2 DEF Buffer
  <2> QED BY <1>1, <2>2, <2>3 DEF Fits, bufcnt, m
<1>3. CASE ~((Got(b) = 0 /\ b.part = 0) \/ b.at + needed > b.size)
  <2>1. m = b
    BY <1>3 DEF MakeRoom
  <2> QED BY <1>1, <2>1 DEF Fits, bufcnt
<1> QED BY <1>2, <1>3

LEMMA ReceiveIs ==
  ASSUME NEW m \in Buffer, Fits(m), m.last = 0, NEW ws \in Seq(W), NEW needed \in Nat,
         NEW p \in 0 .. WordBytes - 1, Len(ws) <= m.size - bufcnt(m),
         p = 0 \/ Len(ws) < m.size - bufcnt(m)
  PROVE  LET r == Receive(m, ws, p, needed)
         IN  /\ r \in Buffer /\ Fits(r) /\ r.last = 0 /\ r.data = m.data \o ws /\ r.part = p
<1> DEFINE q == [m EXCEPT !.data = @ \o ws, !.part = p]
           r == Receive(m, ws, p, needed)
           d == m.data \o ws
<1>1. /\ m.data \in Seq(W) /\ m.at \in Nat /\ m.size \in Nat /\ Len(m.data) \in Nat
      /\ Len(ws) \in Nat /\ bufcnt(m) = m.at + Len(m.data)
  BY LenProperties DEF Buffer, W, bufcnt
<1>2. d \in Seq(W) /\ Len(d) = Len(m.data) + Len(ws)
  BY <1>1, ConcatProperties
<1> HIDE DEF d
<1>3. /\ q \in Buffer /\ q.data = d /\ q.at = m.at /\ q.size = m.size /\ q.last = 0
      /\ q.part = p
  BY <1>2 DEF Buffer, W, d
<1> HIDE DEF q
<1>4. Fits(q) /\ Len(d) \in Nat
  BY <1>1, <1>2, <1>3 DEF Fits, bufcnt
<1>5. CASE q.size > BUFWATERMARK /\ bufcnt(q) < BUFSIZE /\ needed < BUFSIZE
  <2>1. r = [q EXCEPT !.size = BUFSIZE]
    BY <1>5 DEF Receive, q
  <2> HIDE DEF r
  <2>2. /\ r.data = d /\ r.at = q.at /\ r.last = 0 /\ r.size = BUFSIZE /\ r.part = p
        /\ r \in Buffer
    BY <1>3, <2>1, SizesAssumption DEF Buffer
  <2>3. bufcnt(q) = m.at + Len(d) /\ bufcnt(r) = m.at + Len(d)
    BY <1>3, <2>2 DEF bufcnt
  <2>4. Fits(r)
    BY <1>1, <1>4, <1>5, <2>2, <2>3, SizesAssumption DEF Fits
  <2> QED BY <2>2, <2>4 DEF r, d
<1>6. CASE ~(q.size > BUFWATERMARK /\ bufcnt(q) < BUFSIZE /\ needed < BUFSIZE)
  <2>1. r = q
    BY <1>6 DEF Receive, q
  <2> HIDE DEF r
  <2> QED BY <1>3, <1>4, <2>1 DEF r, d
<1> QED BY <1>5, <1>6

\* The buffer as ReturnRequest leaves it.
Returned(b, needed, moved) ==
  LET r == [b EXCEPT !.last = needed] IN IF moved THEN MoveHeader(r) ELSE r

LEMMA ReturnedIs ==
  ASSUME NEW b \in Buffer, Fits(b), NEW needed \in 1 .. Got(b), NEW moved \in BOOLEAN,
         moved => needed >= 2
  PROVE  LET e == Returned(b, needed, moved)
             d == b.data
         IN  /\ e \in Buffer /\ Fits(e)
             /\ e.last = IF moved THEN needed - 1 ELSE needed
             /\ Advance(e).data = SubSeq(d, needed + 1, Len(d))
             /\ SubSeq(e.data, 1, e.last) = IF moved THEN <<d[1]>> \o SubSeq(d, 3, needed)
                                            ELSE SubSeq(d, 1, needed)
             /\ Got(b) = needed /\ b.part = 0 => Empty(e)
             /\ ~moved => e.data = d
             /\ e.part = b.part
<1> DEFINE d == b.data
           r == [b EXCEPT !.last = needed]
           e == Returned(b, needed, moved)
<1>1. /\ d \in Seq(W) /\ Len(d) \in Nat /\ b.at \in Nat /\ b.size \in Nat
      /\ Got(b) = Len(d) /\ needed \in Nat /\ needed >= 1 /\ needed <= Len(d)
      /\ b.at + Len(d) <= b.size /\ (b.part = 0 \/ b.at + Len(d) < b.size)
  BY LenProperties DEF Buffer, W, Got, Fits, bufcnt
<1>2. CASE ~moved
  <2>1. e = r
    BY <1>2 DEF Returned
  <2>2. /\ r \in Buffer /\ r.data = d /\ r.at = b.at /\ r.size = b.size /\ r.last = needed
        /\ r.part = b.part
    BY <1>1 DEF Buffer
  <2>3. Fits(r) /\ (Got(b) = needed /\ b.part = 0 => Empty(r))
    BY <1>1, <2>2 DEF Fits, bufcnt, Empty, Got
  <2> HIDE DEF r, e
  <2>4. Advance(r).data = SubSeq(d, needed + 1, Len(d))
    BY <2>2, <2>3, AdvanceOf
  <2> QED BY <1>2, <2>1, <2>2, <2>3, <2>4 DEF e
<1>3. CASE moved
  <2> DEFINE t == SubSeq(d, 3, Len(d))
             u == <<d[1]>> \o t
             l == needed - 1
  <2>1. needed >= 2 /\ d[1] \in W /\ l \in Nat /\ l >= 1
    BY <1>1, <1>3, ElementOfSeq
  <2>2. /\ t \in Seq(W) /\ Len(t) = Len(d) - 2
        /\ \A i \in 1 .. Len(t) : t[i] = d[2 + i]
    BY <1>1, <2>1, SubSeqType
  <2> HIDE DEF t
  <2>3. /\ u \in Seq(W) /\ Len(u) = Len(d) - 1 /\ u[1] = d[1]
        /\ \A i \in 2 .. Len(u) : u[i] = d[i + 1]
    <3>1. /\ u \in Seq(W) /\ Len(u) = Len(t) + 1 /\ u[1] = d[1]
          /\ \A i \in 1 .. Len(u) : i # 1 => i - 1 \in 1 .. Len(t) /\ u[i] = t[i - 1]
      BY <2>1, <2>2, Prepend
    <3> HIDE DEF u
    <3>2. ASSUME NEW i \in 2 .. Len(u) PROVE u[i] = d[i + 1]
      <4>1. i \in 1 .. Len(u) /\ i # 1 /\ 2 + (i - 1) = i + 1
        BY <1>1, <2>2, <3>1
      <4>2. i - 1 \in 1 .. Len(t) /\ u[i] = t[i - 1]
        BY <3>1, <4>1
      <4> QED BY <2>2, <4>1, <4>2
    <3>3. Len(u) = Len(d) - 1
      BY <1>1, <2>2, <3>1
    <3> QED BY <3>1, <3>2, <3>3
  <2>4. e = [r EXCEPT !.at = @ + 1, !.data = u, !.last = l]
    BY <1>3 DEF Returned, MoveHeader, Buffer, t
  <2> HIDE DEF u, e, l
  <2>5. /\ e.at = b.at + 1 /\ e.data = u /\ e.last = l /\ e.size = b.size /\ e \in Buffer
        /\ e.part = b.part
    <3>1. r \in Buffer /\ r.at = b.at /\ r.size = b.size /\ r.part = b.part
      BY <1>1 DEF Buffer
    <3> HIDE DEF r
    <3>2. e = [r EXCEPT !.at = b.at + 1, !.data = u, !.last = l]
      BY <2>4, <3>1
    <3>3. b.at + 1 \in Nat
      BY <1>1
    <3>4. u \in Seq([req : Nat, k : Nat, v : Nat])
      BY <2>3, Zenon DEF W
    <3> QED BY <2>1, <3>1, <3>2, <3>3, <3>4 DEF Buffer
  <2>6. l = needed - 1
    BY DEF l
  <2>7. Fits(e) /\ (Got(b) = needed /\ b.part = 0 => Empty(e))
    BY <1>1, <2>1, <2>3, <2>5, <2>6 DEF Fits, bufcnt, Empty, Got
  <2>8. Advance(e).data = SubSeq(d, needed + 1, Len(d))
    <3> DEFINE x == SubSeq(u, l + 1, Len(u))
               y == SubSeq(d, needed + 1, Len(d))
    <3>1. x \in Seq(W) /\ Len(x) = Len(u) - l /\ \A i \in 1 .. Len(x) : x[i] = u[l + i]
      BY <1>1, <2>1, <2>3, <2>6, SubSeqType
    <3>2. y \in Seq(W) /\ Len(y) = Len(d) - needed /\ \A i \in 1 .. Len(y) : y[i] = d[needed + i]
      BY <1>1, SubSeqType
    <3>3. Advance(e).data = x
      BY <2>5, <2>7, AdvanceOf
    <3> HIDE DEF x, y
    <3>4. Len(x) = Len(y) /\ Len(y) \in Nat
      BY <1>1, <2>3, <2>6, <3>1, <3>2
    <3>5. ASSUME NEW i \in 1 .. Len(x) PROVE x[i] = y[i]
      <4>1. l + i \in 2 .. Len(u) /\ l + i + 1 = needed + i
        BY <1>1, <2>1, <2>3, <2>6, <3>1, <3>4
      <4>2. x[i] = u[l + i] /\ u[l + i] = d[l + i + 1]
        BY <2>3, <3>1, <4>1
      <4> QED BY <3>2, <3>4, <4>1, <4>2
    <3>6. x = y
      BY <3>1, <3>2, <3>4, <3>5, SeqEqual
    <3> QED BY <3>3, <3>6 DEF y
  <2>9. SubSeq(u, 1, l) = <<d[1]>> \o SubSeq(d, 3, needed)
    <3> DEFINE x == SubSeq(u, 1, l)
               z == SubSeq(d, 3, needed)
               y == <<d[1]>> \o z
    <3>1. x \in Seq(W) /\ Len(x) = l /\ \A i \in 1 .. Len(x) : x[i] = u[i]
      BY <1>1, <2>1, <2>3, <2>6, SubSeqType
    <3>2. z \in Seq(W) /\ Len(z) = needed - 2 /\ \A i \in 1 .. Len(z) : z[i] = d[2 + i]
      BY <1>1, <2>1, SubSeqType
    <3> HIDE DEF z
    <3>3. /\ y \in Seq(W) /\ Len(y) = Len(z) + 1 /\ y[1] = d[1]
          /\ \A i \in 1 .. Len(y) : i # 1 => i - 1 \in 1 .. Len(z) /\ y[i] = z[i - 1]
      BY <2>1, <3>2, Prepend
    <3> HIDE DEF x, y
    <3>4. Len(x) = Len(y) /\ Len(x) \in Nat
      BY <1>1, <2>1, <2>6, <3>1, <3>2, <3>3
    <3>5. ASSUME NEW i \in 1 .. Len(x) PROVE x[i] = y[i]
      <4>1. CASE i = 1
        BY <2>3, <3>1, <3>3, <4>1
      <4>2. CASE i # 1
        <5>1. i \in 2 .. Len(u) /\ 2 + (i - 1) = i + 1 /\ i \in 1 .. Len(y)
          BY <1>1, <2>1, <2>3, <2>6, <3>1, <3>4, <4>2
        <5>2. x[i] = u[i] /\ u[i] = d[i + 1]
          BY <2>3, <3>1, <5>1
        <5>3. i - 1 \in 1 .. Len(z) /\ y[i] = z[i - 1]
          BY <3>3, <4>2, <5>1
        <5> QED BY <3>2, <5>1, <5>2, <5>3
      <4> QED BY <4>1, <4>2
    <3>6. x = y
      BY <3>1, <3>3, <3>4, <3>5, SeqEqual
    <3> QED BY <3>6 DEF x, y, z
  <2> QED BY <1>3, <2>5, <2>6, <2>7, <2>8, <2>9 DEF e
<1> QED BY <1>2, <1>3

\* The first request of a connection, when all of it is in the buffer.
LEMMA FirstRequest ==
  ASSUME NEW data \in Seq(W), NEW so \in Seq(W), NEW rs \in Seq(Request), NEW st,
         st # "prefix", rs # <<>>, Stored(st, data \o so, rs), NEW isBig,
         Sensible(st, rs, isBig), Len(data) >= Head(rs).len
  PROVE  LET r == Head(rs)
         IN  /\ (IF r.big THEN <<data[1]>> \o SubSeq(data, 3, r.len)
                 ELSE SubSeq(data, 1, r.len)) = Contents(r)
             /\ Encodes(SubSeq(data, r.len + 1, Len(data)) \o so, Tail(rs))
<1> DEFINE r == Head(rs)
           w == Words(r)
<1>1. r \in Request
  BY HeadTailProperties
<1>2. PICK rest \in Seq(W) : data \o so = w \o rest /\ Encodes(rest, Tail(rs))
  BY DEF Stored, FirstWords
<1>3. /\ w \in Seq(W) /\ Len(w) = r.len /\ r.len \in Nat /\ r.len >= 1
      /\ w[1] = Header(r) /\ Len(data) \in Nat
  BY <1>1, WordsOf, LenProperties
<1>4. r.big => r.len > 1
  BY DEF Sensible
<1> HIDE DEF w, r
<1>5. /\ SubSeq(data, 1, r.len) = w /\ SubSeq(data, r.len + 1, Len(data)) \o so = rest
      /\ \A i \in 1 .. r.len : data[i] = w[i]
  <2>1. Len(data) >= Len(w)
    BY <1>3 DEF r
  <2>2. /\ SubSeq(data, 1, Len(w)) = w /\ SubSeq(data, Len(w) + 1, Len(data)) \o so = rest
        /\ \A i \in 1 .. Len(w) : data[i] = w[i]
    <3>1. w \in Seq(W) /\ data \o so = w \o rest
      BY <1>2, <1>3
    <3> QED BY <2>1, <3>1, CutPrefix, Zenon
  <2> QED BY <1>3, <2>2
<1>6. CASE ~r.big
  <2>1. Contents(r) = w
    BY <1>6 DEF Contents, w
  <2> QED BY <1>2, <1>5, <1>6, <2>1 DEF r
<1>7. CASE r.big
  <2> DEFINE x == SubSeq(data, 3, r.len)
             y == SubSeq(w, 3, r.len)
  <2>1. r.len <= Len(data)
    BY DEF r
  <2>2. x \in Seq(W) /\ Len(x) = r.len - 2 /\ \A i \in 1 .. Len(x) : x[i] = data[3 + i - 1]
    BY <1>3, <1>4, <1>7, <2>1, SubSeqType
  <2>3. y \in Seq(W) /\ Len(y) = r.len - 2 /\ \A i \in 1 .. Len(y) : y[i] = w[3 + i - 1]
    BY <1>3, <1>4, <1>7, SubSeqType
  <2> HIDE DEF x, y
  <2>4. ASSUME NEW i \in 1 .. Len(x) PROVE x[i] = y[i]
    <3>1. 3 + i - 1 \in 1 .. r.len
      BY <1>3, <1>4, <1>7, <2>2
    <3>2. data[3 + i - 1] = w[3 + i - 1]
      BY <1>5, <3>1
    <3> QED BY <2>2, <2>3, <3>2
  <2>5. x = y
    BY <2>2, <2>3, <2>4, SeqEqual
  <2>6. data[1] = Header(r)
    <3>1. 1 \in 1 .. r.len
      BY <1>3
    <3> QED BY <1>3, <1>5, <3>1
  <2>7. Contents(r) = <<Header(r)>> \o y
    BY <1>7 DEF Contents, w, y
  <2>8. <<data[1]>> \o x = Contents(r)
    BY <2>5, <2>6, <2>7
  <2> QED BY <1>2, <1>5, <1>7, <2>8 DEF r, x
<1> QED BY <1>6, <1>7

LEMMA NumberedIsSensible ==
  ASSUME NEW c \in Clients, Numbered(c)
  PROVE  Sensible(stage[c], sent[c], c \in big)
<1>1. CASE sent[c] = <<>>
  BY <1>1 DEF Numbered, Sensible
<1>2. CASE sent[c] # <<>>
  <2>1. 1 \in 1 .. Len(sent[c]) /\ Head(sent[c]) = sent[c][1] /\ sent[c][1] \in Request
    BY <1>2, HeadTailProperties, EmptySeq, LenProperties DEF Numbered
  <2>2. sent[c][1].big \in BOOLEAN
    BY <2>1 DEF Request
  <2> QED BY <2>1, <2>2 DEF Numbered, Sensible
<1> QED BY <1>1, <1>2

-----------------------------------------------------------------------------
(* Steps that change nothing for a client.                                 *)

LEMMA Frame ==
  ASSUME NEW d \in Clients, InOrder(d),
         stage'[d] = stage[d], socket'[d] = socket[d], sent'[d] = sent[d],
         count'[d] = count[d], taken'[d] = taken[d],
         d \in big' <=> d \in big, d \in withInput' <=> d \in withInput,
         d \in eof' => d \in eof \/ stage[d] # "closed",
         After(in', d) = After(in, d),
         \/ running.client # d /\ running'.client # d
         \/ running' = running /\ SameFor(in', in, d)
  PROVE  InOrder(d)'
<1>1. CASE stage[d] = "closed"
  <2>1. NoConnection(d)
    BY <1>1 DEF InOrder
  <2>2. running'.client # d
    BY <2>1 DEF NoConnection
  <2>3. NoConnection(d)'
    BY <1>1, <2>1, <2>2 DEF NoConnection
  <2> QED BY <1>1, <2>3 DEF InOrder
<1>2. CASE stage[d] # "closed"
  <2>1. Connection(d)
    BY <1>2 DEF InOrder
  <2>2. Numbered(d)'
    BY <2>1 DEF Connection, Numbered
  <2>3. d \in withInput' <=> Whole(After(in', d), d \in big')
    <3>1. (d \in big) = (d \in big')
      OBVIOUS
    <3> QED BY <2>1, <3>1 DEF Connection
  <2>4. CASE running.client # d /\ running'.client # d
    <3>1. Stored(stage'[d], After(in', d) \o socket'[d], sent'[d])
      BY <2>1, <2>4 DEF Connection
    <3> QED BY <1>2, <2>2, <2>3, <2>4, <3>1 DEF InOrder, Connection
  <2>5. CASE running.client = d /\ running' = running /\ SameFor(in', in, d)
    <3>1. Served(d)
      BY <2>1, <2>5 DEF Connection
    <3>2. Served(d)'
      BY <2>5, <3>1 DEF Served, SameFor
    <3> QED BY <1>2, <2>2, <2>3, <2>5, <3>2 DEF InOrder, Connection
  <2> QED BY <2>4, <2>5
<1> QED BY <1>1, <1>2

LEMMA SameAfter ==
  ASSUME NEW s, NEW t, NEW d, SameFor(t, s, d)
  PROVE  After(t, d) = After(s, d) /\ PartOf(t, d) = PartOf(s, d)
BY DEF SameFor, After, PartOf

LEMMA StillInStep ==
  ASSUME InStep, NEW c \in Clients, PartOf(in', c) = taken'[c],
         \A d \in Clients \ {c} : PartOf(in', d) = PartOf(in, d) /\ taken'[d] = taken[d]
  PROVE  InStep'
BY DEF InStep

-----------------------------------------------------------------------------
(* ReadRequestFromClient.                                                  *)

\* A whole request is returned.
LEMMA ReturnGood ==
  ASSUME Inv, NEW c \in Clients, stage[c] # "closed", running = Nobody,
         NEW s, BuffersOK(s), s.available = None, s.input[c] # None,
         \A d \in Clients \ {c} : After(s, d) = After(in, d) /\ PartOf(s, d) = PartOf(in, d),
         NEW b \in Buffer, Fits(b), ~NeedHeader(b, c), Got(b) >= Needed(b, c),
         socket' \in [Clients -> Seq(W)], \A d \in Clients \ {c} : socket'[d] = socket[d],
         taken' \in [Clients -> Nat], \A d \in Clients \ {c} : taken'[d] = taken[d],
         taken'[c] = b.part,
         Stored(stage[c], b.data \o socket'[c], sent[c]),
         ReturnRequest(s, c, b, Needed(b, c)),
         UNCHANGED <<big, stage, eof, count, sent>>
  PROVE  Inv'
<1> DEFINE d == b.data
           h == Head(sent[c])
           needed == Needed(b, c)
           moved == b.data[1].v = 0 /\ c \in big
           e == Returned(b, needed, moved)
           t == WithBuffer(s, c, e)
           u == SubSeq(d, needed + 1, Len(d))
           so == socket'[c]
<1>1. /\ Types /\ InOrder(c) /\ running.client # c /\ running.client = None
      /\ \A x \in Clients : running.client # x
  BY NoneAssumption DEF Inv, Nobody
<1>2. Connection(c) /\ Numbered(c) /\ sent[c] \in Seq(Request)
  BY <1>1 DEF InOrder, Connection, Numbered
<1>3. Sensible(stage[c], sent[c], c \in big)
  BY <1>2, NumberedIsSensible
<1>4. so \in Seq(W) /\ d \in Seq(W) /\ Len(d) \in Nat /\ Got(b) = Len(d)
  BY LenProperties DEF Buffer, W, Got
<1>5. /\ needed \in Nat /\ sent[c] # <<>> /\ needed = FirstLen(stage[c], h)
      /\ needed \in 1 .. h.len /\ (moved <=> h.big) /\ (h.big => needed >= 2)
      /\ needed \in 1 .. Got(b) /\ moved \in BOOLEAN
  BY <1>2, <1>3, <1>4, NeededIs
<1> HIDE DEF needed, moved, so
<1>6. /\ e \in Buffer /\ Fits(e)
      /\ e.last = IF moved THEN needed - 1 ELSE needed
      /\ Advance(e).data = u
      /\ SubSeq(e.data, 1, e.last) = IF moved THEN <<d[1]>> \o SubSeq(d, 3, needed)
                                     ELSE SubSeq(d, 1, needed)
      /\ Got(b) = needed /\ b.part = 0 => Empty(e)
      /\ ~moved => e.data = d
      /\ e.part = b.part
  <2>1. needed \in 1 .. Got(b) /\ moved \in BOOLEAN /\ (moved => needed >= 2)
    BY <1>5
  <2> QED BY <2>1, ReturnedIs, Zenon
<1>7. c # None
  BY NoneAssumption
<1>8. /\ in' = [t EXCEPT !.available = IF Got(b) = needed /\ b.part = 0 THEN c ELSE @]
      /\ withInput' = IF WholeAt(b, c, needed) THEN withInput \cup {c} ELSE withInput \ {c}
      /\ req_len' = [req_len EXCEPT ![c] = IF moved THEN needed - 1 ELSE needed]
      /\ running' = [client |-> c, words |-> SubSeq(e.data, 1, e.last)]
  BY DEF ReturnRequest, Returned, needed, moved
<1> HIDE DEF e
<1>9. /\ BuffersOK(t) /\ t.input = s.input /\ t.available = None /\ BufferOf(t, c) = e
      /\ \A x \in Clients \ {c} : SameFor(t, s, x)
  BY <1>6, <1>7, PutBuffer
<1> HIDE DEF t
<1> DEFINE a == IF Got(b) = needed /\ b.part = 0 THEN c ELSE None
<1>10. in' = [t EXCEPT !.available = a]
  BY <1>8, <1>9
<1>11. a \in Clients \cup {None} /\ (a # None => t.input[a] # None /\ Empty(BufferOf(t, a)))
  BY <1>6, <1>9
<1> HIDE DEF a
<1>12. /\ BuffersOK(in') /\ in'.input = s.input /\ \A x \in Clients : SameFor(in', t, x)
  BY <1>9, <1>10, <1>11, OfferBuffer
<1>13. in'.input[c] # None /\ BufferOf(in', c) = e
  BY <1>9, <1>12 DEF SameFor
<1>14. After(in', c) = u /\ PartOf(in', c) = taken'[c]
  BY <1>6, <1>13 DEF After, PartOf
<1>15. \A x \in Clients \ {c} : After(in', x) = After(in, x) /\ PartOf(in', x) = PartOf(in, x)
  BY <1>9, <1>12, SameAfter
<1>16. c \in withInput' <=> Whole(u, c \in big)
  <2>1. needed \in 0 .. Len(b.data)
    BY <1>4, <1>5
  <2>2. WholeAt(b, c, needed) <=> Whole(u, c \in big)
    BY <2>1, WholeIs
  <2> QED BY <1>8, <2>2
<1>17. Types'
  <2>1. withInput' \subseteq Clients
    BY <1>1, <1>8 DEF Types
  <2>2. req_len' \in [Clients -> Nat]
    <3>1. needed - 1 \in Nat
      BY <1>5
    <3> QED BY <1>1, <1>5, <1>8, <3>1 DEF Types
  <2>3. running'.client \in Clients
    BY <1>8
  <2> QED BY <1>1, <1>12, <2>1, <2>2, <2>3 DEF Types
<1>18. ASSUME NEW x \in Clients, x # c PROVE InOrder(x)'
  <2>1. InOrder(x) /\ running'.client # x
    BY <1>8, <1>18 DEF Inv
  <2>2. x \in withInput' <=> x \in withInput
    BY <1>8, <1>18
  <2>3. After(in', x) = After(in, x) /\ socket'[x] = socket[x]
    BY <1>15, <1>18
  <2>4. taken'[x] = taken[x]
    BY <1>18
  <2> QED BY <1>1, <2>1, <2>2, <2>3, <2>4, Frame
<1>19. Served(c)'
  <2>1. in'.input[c] # None /\ sent'[c] # <<>>
    BY <1>5, <1>13
  <2>2. running'.words = SubSeq(BufferOf(in', c).data, 1, BufferOf(in', c).last)
    BY <1>8, <1>13
  <2>3. CASE stage[c] = "prefix"
    <3>1. ~moved /\ needed = Prefix
      BY <1>3, <1>5, <2>3 DEF Sensible, FirstLen
    <3>2. e.last = Prefix /\ e.data = d
      BY <1>6, <3>1
    <3> QED BY <1>13, <2>1, <2>2, <2>3, <3>2 DEF Served
  <2>4. CASE stage[c] # "prefix"
    <3>1. needed = h.len
      BY <1>5, <2>4 DEF FirstLen
    <3>2. /\ (IF h.big THEN <<d[1]>> \o SubSeq(d, 3, h.len)
              ELSE SubSeq(d, 1, h.len)) = Contents(h)
          /\ Encodes(SubSeq(d, h.len + 1, Len(d)) \o so, Tail(sent[c]))
      <4>1. Stored(stage[c], d \o so, sent[c]) /\ Len(d) >= h.len
        BY <1>4, <1>5, <3>1 DEF so
      <4> QED BY <1>2, <1>3, <1>4, <1>5, <2>4, <4>1, FirstRequest
    <3>3. running'.words = Contents(h)
      BY <1>5, <1>6, <1>8, <3>1, <3>2
    <3>4. Encodes(u \o so, Tail(sent[c]))
      BY <3>1, <3>2
    <3>5. u \in Seq(W) /\ u \o so \in Seq(W) /\ Tail(sent[c]) \in Seq(Request)
      <4>1. u \in Seq(W)
        BY <1>12, <1>14, AfterType
      <4>2. Tail(sent[c]) \in Seq(Request)
        BY <1>2, <1>5, HeadTailProperties
      <4> HIDE DEF u
      <4> QED BY <1>4, <4>1, <4>2, ConcatProperties
    <3> HIDE DEF u
    <3>6. Stored("open", u \o so, Tail(sent[c]))
      BY <3>4, <3>5, StoredIsEncodes
    <3> QED BY <1>14, <2>1, <2>2, <2>4, <3>3, <3>6 DEF Served, so
  <2> QED BY <2>3, <2>4
<1>20. InOrder(c)'
  <2>1. Numbered(c)'
    BY <1>2 DEF Numbered
  <2>2. running'.client = c
    BY <1>8
  <2> QED BY <1>14, <1>16, <1>19, <2>1, <2>2 DEF InOrder, Connection
<1>21. InStep'
  BY <1>14, <1>15, StillInStep DEF Inv
<1> QED BY <1>17, <1>18, <1>20, <1>21 DEF Inv

\* There is not a whole request.
LEMMA NoWholeGood ==
  ASSUME Inv, NEW c \in Clients, stage[c] # "closed", running = Nobody,
         NEW s, BuffersOK(s), s.available = None, s.input[c] # None,
         \A d \in Clients \ {c} : After(s, d) = After(in, d) /\ PartOf(s, d) = PartOf(in, d),
         NEW b \in Buffer, Fits(b), b.last = 0, ~Whole(b.data, c \in big),
         socket' \in [Clients -> Seq(W)], \A d \in Clients \ {c} : socket'[d] = socket[d],
         taken' \in [Clients -> Nat], \A d \in Clients \ {c} : taken'[d] = taken[d],
         taken'[c] = b.part,
         Stored(stage[c], b.data \o socket'[c], sent[c]),
         NoWholeRequest(s, c, b),
         UNCHANGED <<big, stage, eof, count, sent>>
  PROVE  Inv'
<1>1. /\ Types /\ InOrder(c) /\ running.client # c /\ running.client = None
      /\ \A x \in Clients : running.client # x
  BY NoneAssumption DEF Inv, Nobody
<1>2. /\ in' = WithBuffer(s, c, b) /\ withInput' = withInput \ {c}
      /\ req_len' = req_len /\ running' = running
  BY DEF NoWholeRequest
<1>3. c # None
  BY NoneAssumption
<1>4. /\ BuffersOK(in') /\ in'.input = s.input /\ BufferOf(in', c) = b
      /\ \A x \in Clients \ {c} : SameFor(in', s, x)
  BY <1>2, <1>3, PutBuffer
<1>5. After(in', c) = b.data /\ PartOf(in', c) = taken'[c]
  BY <1>4, AdvanceNone DEF After, PartOf
<1>6. Types'
  BY <1>1, <1>2, <1>4 DEF Types
<1>7. ASSUME NEW x \in Clients, x # c PROVE InOrder(x)'
  <2>1. InOrder(x) /\ running'.client # x
    BY <1>1, <1>2 DEF Inv
  <2>2. x \in withInput' <=> x \in withInput
    BY <1>2, <1>7
  <2>3. After(in', x) = After(in, x) /\ socket'[x] = socket[x]
    BY <1>4, <1>7, SameAfter
  <2>4. taken'[x] = taken[x]
    BY <1>7
  <2> QED BY <1>1, <2>1, <2>2, <2>3, <2>4, Frame
<1>8. InOrder(c)'
  <2>1. Numbered(c) /\ Connection(c)
    BY <1>1 DEF InOrder, Connection
  <2>2. Numbered(c)'
    BY <2>1 DEF Numbered
  <2>3. c \notin withInput' /\ running'.client # c
    BY <1>1, <1>2
  <2> QED BY <1>5, <2>2, <2>3 DEF InOrder, Connection
<1>9. InStep'
  <2>1. \A x \in Clients \ {c} : PartOf(in', x) = PartOf(in, x)
    BY <1>4, SameAfter
  <2> QED BY <1>5, <2>1, StillInStep DEF Inv
<1> QED BY <1>6, <1>7, <1>8, <1>9 DEF Inv

\* A client goes, whether or not it is the one that is being served.
LEMMA CloseDownGood ==
  ASSUME Inv, NEW c \in Clients, NEW s, BuffersOK(s),
         \A d \in Clients \ {c} : After(s, d) = After(in, d) /\ PartOf(s, d) = PartOf(in, d),
         \A d \in Clients \ {c} : running.client = d => SameFor(s, in, d),
         CloseDown(s, c)
  PROVE  Inv'
<1>1. /\ in' = FreeOsBuffers(s, c)
      /\ withInput' = withInput \ {c}
      /\ big' = big \ {c}
      /\ req_len' = [req_len EXCEPT ![c] = 0]
      /\ stage' = [stage EXCEPT ![c] = "closed"]
      /\ socket' = [socket EXCEPT ![c] = <<>>]
      /\ taken' = [taken EXCEPT ![c] = 0]
      /\ eof' = eof \ {c}
      /\ count' = [count EXCEPT ![c] = 0]
      /\ sent' = [sent EXCEPT ![c] = <<>>]
      /\ running' = IF running.client = c THEN Nobody ELSE running
  BY DEF CloseDown
<1>2. Types /\ None \notin Clients
  BY NoneAssumption DEF Inv
<1>3. /\ BuffersOK(in') /\ After(in', c) = <<>> /\ PartOf(in', c) = 0
      /\ \A d \in Clients \ {c} : SameFor(in', s, d)
  BY <1>1, FreeKeeps
<1>4. running'.client # c /\ (running' = Nobody \/ running'.client \in Clients)
  BY <1>1, <1>2 DEF Types, Nobody
<1>5. Types'
  <2>1. stage' \in [Clients -> Stages]
    BY <1>1, <1>2 DEF Types, Stages
  <2>2. socket' \in [Clients -> Seq(W)]
    <3>1. <<>> \in Seq(W)
      OBVIOUS
    <3> QED BY <1>1, <1>2, <3>1 DEF Types
  <2>3. sent' \in [Clients -> Seq(Request)]
    <3>1. <<>> \in Seq(Request)
      OBVIOUS
    <3> QED BY <1>1, <1>2, <3>1 DEF Types
  <2>4. /\ req_len' \in [Clients -> Nat] /\ count' \in [Clients -> Nat]
        /\ taken' \in [Clients -> Nat]
    BY <1>1, <1>2 DEF Types
  <2>5. withInput' \subseteq Clients /\ big' \subseteq Clients /\ eof' \subseteq Clients
    BY <1>1, <1>2 DEF Types
  <2> QED BY <1>3, <1>4, <2>1, <2>2, <2>3, <2>4, <2>5 DEF Types
<1>6. ASSUME NEW x \in Clients, x # c PROVE InOrder(x)'
  <2>1. InOrder(x)
    BY DEF Inv
  <2>2. /\ x \in withInput' <=> x \in withInput
        /\ x \in big' <=> x \in big
        /\ x \in eof' => x \in eof
        /\ stage'[x] = stage[x] /\ socket'[x] = socket[x] /\ sent'[x] = sent[x]
        /\ count'[x] = count[x] /\ taken'[x] = taken[x]
    BY <1>1, <1>2, <1>6 DEF Types
  <2>3. After(in', x) = After(in, x)
    BY <1>3, <1>6, SameAfter
  <2>4. CASE running.client = x
    <3>1. running' = running
      BY <1>1, <1>6, <2>4
    <3>2. SameFor(in', s, x) /\ SameFor(s, in, x)
      BY <1>3, <1>6, <2>4
    <3>3. SameFor(in', in, x)
      BY <3>2 DEF SameFor
    <3> QED BY <2>1, <2>2, <2>3, <3>1, <3>3, Frame
  <2>5. CASE running.client # x
    <3>1. running'.client # x
      BY <1>1, <1>2, <2>5 DEF Nobody
    <3> QED BY <2>1, <2>2, <2>3, <2>5, <3>1, Frame
  <2> QED BY <2>4, <2>5
<1>7. InOrder(c)'
  <2>1. /\ stage'[c] = "closed" /\ socket'[c] = <<>> /\ sent'[c] = <<>> /\ count'[c] = 0
        /\ taken'[c] = 0
        /\ c \notin withInput' \cup big' \cup eof'
    BY <1>1, <1>2 DEF Types
  <2> QED BY <1>3, <1>4, <2>1 DEF InOrder, NoConnection
<1>8. InStep'
  <2>1. taken'[c] = 0 /\ \A x \in Clients \ {c} : taken'[x] = taken[x]
    BY <1>1, <1>2 DEF Types
  <2>2. \A x \in Clients \ {c} : PartOf(in', x) = PartOf(in, x)
    BY <1>3, SameAfter
  <2> QED BY <1>3, <2>1, <2>2, StillInStep DEF Inv
<1> QED BY <1>5, <1>6, <1>7, <1>8 DEF Inv

\* What read() adds to the buffer.
LEMMA ReadMoreGood ==
  ASSUME Inv, NEW c \in Clients, stage[c] # "closed", running = Nobody,
         NEW s, BuffersOK(s), s.available = None, s.input[c] # None,
         \A d \in Clients \ {c} : After(s, d) = After(in, d) /\ PartOf(s, d) = PartOf(in, d),
         NEW m \in Buffer, Fits(m), m.last = 0, m.part = taken[c],
         Stored(stage[c], m.data \o socket[c], sent[c]),
         NEW needed \in Nat, NEW needHeader \in BOOLEAN,
         ~needHeader => needed = FirstLen(stage[c], Head(sent[c])),
         NEW n \in 0 .. m.size - bufcnt(m), m.size - bufcnt(m) \in Nat,
         NEW p \in 0 .. WordBytes - 1, n < m.size - bufcnt(m) \/ p = 0,
         ReadMore(s, c, m, needed, needHeader, n, p),
         UNCHANGED <<big, stage, eof, count, sent>>
  PROVE  Inv'
<1> DEFINE so == socket[c]
           ws == SubSeq(so, 1, n)
           q == SubSeq(so, n + 1, Len(so))
           r == Receive(m, ws, p, needed)
           all == IF needHeader THEN Needed(r, c) ELSE needed
           complete == ~NeedHeader(r, c) /\ Got(r) >= all
<1>1. Types /\ InOrder(c) /\ running.client # c
  BY NoneAssumption DEF Inv, Nobody
<1>2. Connection(c) /\ Numbered(c) /\ sent[c] \in Seq(Request)
  BY <1>1 DEF InOrder, Connection, Numbered
<1>3. Sensible(stage[c], sent[c], c \in big)
  BY <1>2, NumberedIsSensible
<1>4. so \in Seq(W) /\ Len(so) \in Nat /\ n \in Nat /\ p \in Nat
  BY <1>1, SizesAssumption, LenProperties DEF Types
<1>5. m.data \in Seq(W) /\ Len(m.data) \in Nat
  BY LenProperties DEF Buffer, W
<1>6. /\ n <= Len(so)
      /\ socket' = [socket EXCEPT ![c] = q]
      /\ taken' = [taken EXCEPT ![c] = p]
      /\ IF complete THEN ReturnRequest(s, c, r, all) ELSE NoWholeRequest(s, c, r)
  BY Zenon DEF ReadMore
<1>7. /\ ws \in Seq(W) /\ Len(ws) = n /\ q \in Seq(W)
      /\ (m.data \o ws) \o q = m.data \o so
  <2>1. n \in 0 .. Len(so)
    BY <1>4, <1>6
  <2> QED BY <1>4, <1>5, <2>1, MoveWords, Zenon
<1>8. /\ socket'[c] = q /\ socket' \in [Clients -> Seq(W)]
      /\ \A d \in Clients \ {c} : socket'[d] = socket[d]
      /\ taken'[c] = p /\ taken' \in [Clients -> Nat]
      /\ \A d \in Clients \ {c} : taken'[d] = taken[d]
  <2> HIDE DEF q
  <2> QED BY <1>1, <1>4, <1>6, <1>7 DEF Types
<1>9. r \in Buffer /\ Fits(r) /\ r.last = 0 /\ r.data = m.data \o ws /\ r.part = p
  <2>1. Len(ws) <= m.size - bufcnt(m) /\ (p = 0 \/ Len(ws) < m.size - bufcnt(m))
    BY <1>4, <1>7
  <2> HIDE DEF ws
  <2> QED BY <1>7, <2>1, ReceiveIs
<1> HIDE DEF r, q, ws
<1>10. Stored(stage[c], r.data \o q, sent[c])
  BY <1>7, <1>9
<1>11. /\ ~NeedHeader(r, c) => Needed(r, c) = FirstLen(stage[c], Head(sent[c]))
       /\ Whole(r.data, c \in big) <=> ~NeedHeader(r, c) /\ Got(r) >= Needed(r, c)
  BY <1>2, <1>3, <1>7, <1>9, <1>10, NeededIs
<1>12. ~NeedHeader(r, c) => all = Needed(r, c)
  BY <1>11
<1>13. complete <=> Whole(r.data, c \in big)
  BY <1>11, <1>12
<1>14. Stored(stage[c], r.data \o socket'[c], sent[c])
  BY <1>8, <1>10
<1>15. CASE ~complete
  <2>1. NoWholeRequest(s, c, r)
    BY <1>6, <1>15
  <2> HIDE DEF complete, all
  <2> QED BY <1>1, <1>8, <1>9, <1>13, <1>14, <1>15, <2>1, NoWholeGood
<1>16. CASE complete
  <2>1. ~NeedHeader(r, c) /\ Got(r) >= Needed(r, c) /\ all = Needed(r, c)
    BY <1>12, <1>16
  <2>2. ReturnRequest(s, c, r, all)
    BY <1>6, <1>16
  <2> HIDE DEF complete, all
  <2> QED BY <1>1, <1>8, <1>9, <1>14, <2>1, <2>2, ReturnGood
<1> QED BY <1>15, <1>16

LEMMA ReadGood ==
  ASSUME Inv, NEW c \in Clients, ReadRequestFromClient(c)
  PROVE  Inv'
<1> DEFINE s == TakeBuffer(GiveAvailable(in, c), c)
           b == Advance(BufferOf(s, c))
           needed == Needed(b, c)
           m == MakeRoom(b, needed)
           room == m.size - bufcnt(m)
           so == socket[c]
<1>1. /\ Types /\ InOrder(c) /\ running = Nobody /\ stage[c] # "closed"
      /\ running.client # c /\ \A x \in Clients : running.client # x
  BY NoneAssumption DEF Inv, Nobody, ReadRequestFromClient, Connected
<1>2. /\ Connection(c) /\ Numbered(c) /\ sent[c] \in Seq(Request)
      /\ Stored(stage[c], After(in, c) \o so, sent[c])
  BY <1>1 DEF InOrder, Connection, Numbered
<1>3. Sensible(stage[c], sent[c], c \in big)
  BY <1>2, NumberedIsSensible
<1>4. so \in Seq(W) /\ Len(so) \in Nat
  BY <1>1, LenProperties DEF Types
<1>5. /\ BuffersOK(s) /\ s.available = None /\ s.input[c] # None
      /\ \A d \in Clients : After(s, d) = After(in, d) /\ PartOf(s, d) = PartOf(in, d)
  <2> DEFINE g == GiveAvailable(in, c)
  <2>1. /\ BuffersOK(g) /\ g.available = None
        /\ \A d \in Clients : After(g, d) = After(in, d) /\ PartOf(g, d) = PartOf(in, d)
    BY <1>1, GiveKeeps DEF Types
  <2> HIDE DEF g
  <2>2. /\ BuffersOK(TakeBuffer(g, c)) /\ TakeBuffer(g, c).available = None
        /\ TakeBuffer(g, c).input[c] # None
        /\ \A d \in Clients : /\ After(TakeBuffer(g, c), d) = After(g, d)
                              /\ PartOf(TakeBuffer(g, c), d) = PartOf(g, d)
    BY <2>1, TakeKeeps
  <2> QED BY <2>1, <2>2 DEF g
<1> HIDE DEF s
<1>6. /\ b \in Buffer /\ Fits(b) /\ b.last = 0 /\ b.data = After(in, c)
      /\ b.part = taken[c]
  <2>1. /\ BufferOf(s, c) \in Buffer /\ Fits(BufferOf(s, c)) /\ After(s, c) = b.data
        /\ PartOf(s, c) = BufferOf(s, c).part
    BY <1>5, AfterType
  <2>2. PartOf(in, c) = taken[c]
    BY DEF Inv, InStep
  <2> QED BY <1>5, <2>1, <2>2, AdvanceOf
<1>7. \/ /\ Got(b) >= needed
         /\ ReturnRequest(s, c, b, needed)
         /\ UNCHANGED <<big, stage, peerVars, sent>>
      \/ /\ ~(Got(b) >= needed)
         /\ CloseDown(s, c)
      \/ /\ ~(Got(b) >= needed)
         /\ NoWholeRequest(s, c, m)
         /\ UNCHANGED <<big, stage, peerVars, sent>>
      \/ /\ ~(Got(b) >= needed)
         /\ \E n \in 0 .. room, p \in 0 .. WordBytes - 1 :
              /\ n < room \/ p = 0
              /\ ReadMore(s, c, m, needed, NeedHeader(b, c), n, p)
         /\ UNCHANGED <<big, stage, eof, count, sent>>
  BY Zenon DEF ReadRequestFromClient, s
<1> HIDE DEF b
<1>8. Stored(stage[c], b.data \o so, sent[c]) /\ b.data \in Seq(W) /\ Len(b.data) \in Nat
  BY <1>2, <1>6, LenProperties DEF Buffer, W
<1>9. /\ needed \in Nat
      /\ NeedHeader(b, c) => Got(b) < needed
      /\ ~NeedHeader(b, c) => needed = FirstLen(stage[c], Head(sent[c]))
      /\ Whole(b.data, c \in big) <=> ~NeedHeader(b, c) /\ Got(b) >= needed
  BY <1>2, <1>3, <1>4, <1>6, <1>8, NeededIs
<1>10. Got(b) \in Nat /\ Got(b) = Len(b.data)
  BY <1>8 DEF Got
<1>11. socket \in [Clients -> Seq(W)] /\ taken \in [Clients -> Nat]
  BY <1>1 DEF Types
<1>12. CASE /\ Got(b) >= needed
            /\ ReturnRequest(s, c, b, needed)
            /\ UNCHANGED <<big, stage, peerVars, sent>>
  <2>1. /\ ReturnRequest(s, c, b, Needed(b, c)) /\ UNCHANGED <<big, stage, eof, count, sent>>
        /\ socket' = socket /\ taken' = taken
    BY <1>12 DEF peerVars
  <2>2. ~NeedHeader(b, c)
    BY <1>9, <1>10, <1>12
  <2>3. /\ socket' \in [Clients -> Seq(W)] /\ \A d \in Clients \ {c} : socket'[d] = socket[d]
        /\ taken' \in [Clients -> Nat] /\ \A d \in Clients \ {c} : taken'[d] = taken[d]
        /\ taken'[c] = b.part
        /\ Stored(stage[c], b.data \o socket'[c], sent[c])
    BY <1>6, <1>8, <1>11, <2>1
  <2>4. Got(b) >= Needed(b, c)
    BY <1>12
  <2> QED BY <1>1, <1>5, <1>6, <2>1, <2>2, <2>3, <2>4, ReturnGood
<1>13. CASE ~(Got(b) >= needed) /\ CloseDown(s, c)
  BY <1>1, <1>5, <1>13, CloseDownGood
<1>14. ASSUME ~(Got(b) >= needed)
       PROVE  /\ m \in Buffer /\ Fits(m) /\ m.data = b.data /\ m.part = b.part /\ m.last = 0
              /\ room \in Nat
  <2>1. Got(b) < needed
    BY <1>9, <1>10, <1>14
  <2> HIDE DEF needed
  <2> QED BY <1>6, <1>9, <2>1, MakeRoomIs
<1>15. CASE /\ ~(Got(b) >= needed)
            /\ NoWholeRequest(s, c, m)
            /\ UNCHANGED <<big, stage, peerVars, sent>>
  <2>1. ~Whole(m.data, c \in big)
    BY <1>9, <1>14, <1>15
  <2>2. /\ UNCHANGED <<big, stage, eof, count, sent>> /\ NoWholeRequest(s, c, m)
        /\ socket' = socket /\ taken' = taken
    BY <1>15 DEF peerVars
  <2>3. /\ m \in Buffer /\ Fits(m) /\ m.last = 0 /\ m.part = taken[c]
        /\ Stored(stage[c], m.data \o socket[c], sent[c])
    BY <1>6, <1>8, <1>14, <1>15
  <2> HIDE DEF m
  <2> QED BY <1>1, <1>5, <1>11, <2>1, <2>2, <2>3, NoWholeGood
<1>16. CASE /\ ~(Got(b) >= needed)
            /\ \E n \in 0 .. room, p \in 0 .. WordBytes - 1 :
                 /\ n < room \/ p = 0
                 /\ ReadMore(s, c, m, needed, NeedHeader(b, c), n, p)
            /\ UNCHANGED <<big, stage, eof, count, sent>>
  <2>1. /\ m \in Buffer /\ Fits(m) /\ m.last = 0 /\ m.part = taken[c] /\ room \in Nat
        /\ Stored(stage[c], m.data \o socket[c], sent[c])
    BY <1>6, <1>8, <1>14, <1>16
  <2>2. NeedHeader(b, c) \in BOOLEAN
    BY DEF NeedHeader
  <2> DEFINE header == NeedHeader(b, c)
  <2> HIDE DEF m, needed, header
  <2>3. PICK n \in 0 .. room, p \in 0 .. WordBytes - 1 :
          (n < room \/ p = 0) /\ ReadMore(s, c, m, needed, header, n, p)
    BY <1>16 DEF header
  <2>4. UNCHANGED <<big, stage, eof, count, sent>>
    BY <1>16
  <2>5. header \in BOOLEAN /\ (~header => needed = FirstLen(stage[c], Head(sent[c])))
    BY <1>9, <2>2 DEF header
  <2> QED BY <1>1, <1>5, <1>9, <2>1, <2>3, <2>4, <2>5, ReadMoreGood
<1> HIDE DEF m, needed
<1> QED BY <1>7, <1>12, <1>13, <1>15, <1>16

-----------------------------------------------------------------------------
(* Request procs.                                                          *)

LEMMA WithdrawOffer ==
  ASSUME NEW s, BuffersOK(s), NEW c \in Clients, s.input[c] # None
  PROVE  LET t == [s EXCEPT !.available = IF @ = c THEN None ELSE @]
         IN  /\ BuffersOK(t) /\ t.input = s.input /\ t.available # c
             /\ \A d \in Clients : SameFor(t, s, d)
<1> DEFINE a == IF s.available = c THEN None ELSE s.available
           t == [s EXCEPT !.available = IF @ = c THEN None ELSE @]
<1>1. /\ a \in Clients \cup {None} /\ a # c
      /\ a # None => s.input[a] # None /\ Empty(BufferOf(s, a))
  BY InputFields DEF BuffersOK
<1>2. t = [s EXCEPT !.available = a]
  BY InputFields
<1> HIDE DEF a, t
<1>3. /\ BuffersOK(t) /\ t.input = s.input /\ t.available = a
      /\ \A d \in Clients : SameFor(t, s, d)
  BY <1>1, <1>2, OfferBuffer
<1> QED BY <1>1, <1>3 DEF t

\* A request whose length is in its header becomes the next one again.
LEMMA Rewind ==
  ASSUME NEW s, BuffersOK(s), NEW c \in Clients, s.input[c] # None,
         LET b == BufferOf(s, c)
         IN  b.data[1].v \in Nat \ {0} /\ Len(b.data) >= 1,
         ResetCurrentRequest(s, c)
  PROVE  LET b == BufferOf(s, c)
         IN  /\ BuffersOK(in') /\ After(in', c) = b.data /\ PartOf(in', c) = PartOf(s, c)
             /\ \A d \in Clients \ {c} : SameFor(in', s, d)
             /\ \A d \in Clients \ {c} : d \in withInput' <=> d \in withInput
             /\ withInput' \subseteq withInput \cup {c}
             /\ \A isBig : c \in withInput' <=> Whole(b.data, isBig)
<1> DEFINE b == BufferOf(s, c)
           f == [b EXCEPT !.last = 0]
           t == [s EXCEPT !.available = IF @ = c THEN None ELSE @]
<1>1. b \in Buffer /\ Fits(b)
  BY AfterType
<1>2. /\ in' = WithBuffer(t, c, f)
      /\ withInput' = IF Got(b) >= b.data[1].v THEN withInput \cup {c} ELSE withInput \ {c}
  BY DEF ResetCurrentRequest
<1>3. /\ b.data[1].v \in Nat /\ b.data[1].v > 0 /\ Len(b.data) >= 1 /\ Len(b.data) \in Nat
  BY <1>1, LenProperties DEF Buffer
<1> HIDE DEF b
<1>4. /\ f \in Buffer /\ f.last = 0 /\ f.data = b.data /\ f.at = b.at /\ f.size = b.size
      /\ f.part = b.part
  BY <1>1 DEF Buffer
<1>5. Fits(f)
  BY <1>1, <1>3, <1>4 DEF Fits, bufcnt
<1> HIDE DEF f
<1>6. BuffersOK(t) /\ t.input = s.input /\ t.available # c /\ \A d \in Clients : SameFor(t, s, d)
  BY WithdrawOffer
<1> HIDE DEF t
<1>7. /\ BuffersOK(in') /\ in'.input = t.input /\ BufferOf(in', c) = f
      /\ \A d \in Clients \ {c} : SameFor(in', t, d)
  BY <1>2, <1>4, <1>5, <1>6, PutBuffer
<1>8. After(in', c) = b.data /\ PartOf(in', c) = PartOf(s, c)
  <2>1. After(in', c) = b.data
    BY <1>4, <1>5, <1>6, <1>7, AdvanceNone DEF After
  <2>2. PartOf(in', c) = f.part /\ PartOf(s, c) = b.part
    BY <1>6, <1>7 DEF PartOf, b
  <2> QED BY <1>4, <2>1, <2>2
<1>9. \A d \in Clients \ {c} : SameFor(in', s, d)
  BY <1>6, <1>7 DEF SameFor
<1>10. \A isBig : c \in withInput' <=> Whole(b.data, isBig)
  BY <1>2, <1>3 DEF Whole, Got
<1> QED BY <1>2, <1>7, <1>8, <1>9, <1>10 DEF b

LEMMA Joined ==
  ASSUME NEW a \in Seq(W), NEW b \in Seq(W)
  PROVE  /\ a \o b \in Seq(W) /\ Len(a \o b) = Len(a) + Len(b)
         /\ \A i \in 1 .. Len(a) : (a \o b)[i] = a[i]
         /\ \A i \in 1 .. Len(a) + Len(b) :
              (a \o b)[i] = IF i <= Len(a) THEN a[i] ELSE b[i - Len(a)]
<1> DEFINE ab == a \o b
<1>1. /\ ab \in Seq(W) /\ Len(ab) = Len(a) + Len(b)
      /\ \A i \in 1 .. Len(a) + Len(b) : ab[i] = IF i <= Len(a) THEN a[i] ELSE b[i - Len(a)]
  BY ConcatProperties
<1> HIDE DEF ab
<1>2. \A i \in 1 .. Len(a) : ab[i] = a[i]
  BY <1>1, LenProperties
<1> QED BY <1>1, <1>2 DEF ab

LEMMA JoinedThrice ==
  ASSUME NEW a \in Seq(W), NEW b \in Seq(W), NEW c \in Seq(W)
  PROVE  (a \o b) \o c = a \o (b \o c)
BY ConcatAssociative

\* Changing the first word of a sequence that others follow.
WithFirst(a, w) == [a EXCEPT ![1] = w]

LEMMA ExceptFirst ==
  ASSUME NEW a \in Seq(W), NEW b \in Seq(W), NEW w \in W, Len(a) >= 1
  PROVE  /\ WithFirst(a, w) \in Seq(W) /\ Len(WithFirst(a, w)) = Len(a)
         /\ WithFirst(a, w) \o b = WithFirst(a \o b, w)
<1> DEFINE x == [a EXCEPT ![1] = w]
           ab == a \o b
           y == [ab EXCEPT ![1] = w]
           xb == x \o b
<1>1. Len(a) \in Nat /\ Len(b) \in Nat /\ 1 \in 1 .. Len(a)
  BY LenProperties
<1>2. /\ x \in Seq(W) /\ Len(x) = Len(a)
      /\ \A i \in 1 .. Len(a) : x[i] = IF i = 1 THEN w ELSE a[i]
  BY <1>1, ExceptSeq
<1>3. /\ ab \in Seq(W) /\ Len(ab) = Len(a) + Len(b)
      /\ \A i \in 1 .. Len(a) + Len(b) : ab[i] = IF i <= Len(a) THEN a[i] ELSE b[i - Len(a)]
  BY Joined, Zenon
<1> HIDE DEF ab
<1>4. /\ y \in Seq(W) /\ Len(y) = Len(ab)
      /\ \A i \in 1 .. Len(ab) : y[i] = IF i = 1 THEN w ELSE ab[i]
  <2>1. ab \in Seq(W) /\ 1 \in 1 .. Len(ab)
    BY <1>1, <1>3
  <2> QED BY <2>1, ExceptSeq
<1>5. /\ xb \in Seq(W) /\ Len(xb) = Len(x) + Len(b)
      /\ \A i \in 1 .. Len(x) + Len(b) : xb[i] = IF i <= Len(x) THEN x[i] ELSE b[i - Len(x)]
  <2>1. x \in Seq(W)
    BY <1>2
  <2> HIDE DEF x
  <2> QED BY <2>1, Joined, Zenon
<1> HIDE DEF x, y, xb
<1>6. Len(xb) = Len(a) + Len(b) /\ Len(y) = Len(a) + Len(b)
  BY <1>2, <1>3, <1>4, <1>5
<1>7. ASSUME NEW i \in 1 .. Len(xb) PROVE xb[i] = y[i]
  <2>1. CASE i <= Len(a)
    <3>1. i \in 1 .. Len(a) /\ i \in 1 .. Len(a) + Len(b) /\ i <= Len(x)
      BY <1>1, <1>2, <1>6, <2>1
    <3>2. xb[i] = x[i] /\ x[i] = (IF i = 1 THEN w ELSE a[i]) /\ ab[i] = a[i]
      BY <1>2, <1>3, <1>5, <2>1, <3>1
    <3>3. y[i] = IF i = 1 THEN w ELSE ab[i]
      BY <1>3, <1>4, <3>1
    <3> QED BY <3>2, <3>3
  <2>2. CASE ~(i <= Len(a))
    <3>1. i # 1 /\ i \in 1 .. Len(a) + Len(b) /\ ~(i <= Len(x))
      BY <1>1, <1>2, <1>6, <2>2
    <3>2. xb[i] = b[i - Len(a)] /\ ab[i] = b[i - Len(a)]
      BY <1>2, <1>3, <1>5, <2>2, <3>1
    <3>3. y[i] = ab[i]
      BY <1>3, <1>4, <3>1
    <3> QED BY <3>2, <3>3
  <2> QED BY <2>1, <2>2
<1>8. xb = y
  BY <1>4, <1>5, <1>6, <1>7, SeqEqual
<1> QED BY <1>2, <1>8 DEF x, y, ab, xb, WithFirst

LEMMA ProcInitialConnectionGood ==
  ASSUME Inv, ProcInitialConnection, NEW c \in Clients, running.client = c
  PROVE  Inv'
<1> DEFINE b == BufferOf(in, c)
           h == Head(sent[c])
           w == [b.data[1] EXCEPT !.v = h.len]
           g == [b.data EXCEPT ![1] = w]
           b1 == [b EXCEPT !.data = g]
           s == WithBuffer(in, c, b1)
           so == socket[c]
<1>1. /\ stage[c] = "prefix"
      /\ ResetCurrentRequest(WithBuffer(in, c, [b EXCEPT !.data[1].v = h.len]), c)
      /\ stage' = [stage EXCEPT ![c] = "setup"]
      /\ running' = Nobody
      /\ UNCHANGED <<big, req_len, socket, taken, eof, count, sent>>
  BY DEF ProcInitialConnection, peerVars
<1>2. Types /\ c # None
  BY NoneAssumption DEF Inv
<1>3. Connection(c) /\ Numbered(c) /\ Served(c) /\ in.input[c] # None /\ sent[c] \in Seq(Request)
  <2>1. InOrder(c)
    BY DEF Inv
  <2> QED BY <1>1, <2>1 DEF InOrder, Connection, Served, Numbered
<1>4. b.last = Prefix /\ Stored("prefix", b.data \o so, sent[c])
  BY <1>1, <1>3 DEF Served
<1>5. b \in Buffer /\ Fits(b)
  BY <1>2, <1>3, AfterType DEF Types
<1>6. /\ b.data \in Seq(W) /\ Len(b.data) \in Nat /\ Len(b.data) >= 2 /\ so \in Seq(W)
      /\ b.data[1] \in W
  <2>1. b.data \in Seq(W) /\ Len(b.data) \in Nat /\ Len(b.data) >= 2
    BY <1>4, <1>5, LenProperties DEF Buffer, W, Fits, Prefix
  <2> QED BY <1>2, <2>1, ElementOfSeq DEF Types
<1>7. /\ sent[c] # <<>> /\ h \in Request /\ ~h.big /\ h.len >= 2 /\ h.len \in Nat
      /\ Tail(sent[c]) \in Seq(Request)
  BY <1>1, <1>3, HeadTailProperties, WordsOf DEF Numbered, Prefix
<1>8. PICK rest \in Seq(W) : /\ b.data \o so = FirstWords("prefix", h) \o rest
                             /\ Encodes(rest, Tail(sent[c]))
  BY <1>4, <1>7 DEF Stored
<1> HIDE DEF b, h
<1>9. w \in W /\ w.v = h.len
  BY <1>6, <1>7 DEF W
<1> DEFINE f == FirstWords("prefix", h)
<1>10. /\ f \in Seq(W) /\ Len(f) = h.len /\ f[1] = b.data[1]
       /\ f = [Words(h) EXCEPT ![1].v = Prefix]
       /\ Words(h) \in Seq(W) /\ Len(Words(h)) = h.len /\ Words(h)[1] = Header(h)
  <2>1. f \in Seq(W) /\ Len(f) = h.len /\ Words(h) \in Seq(W) /\ Len(Words(h)) = h.len
        /\ Words(h)[1] = Header(h)
    BY <1>7, FirstWordsOf, WordsOf
  <2>2. f = [Words(h) EXCEPT ![1].v = Prefix]
    BY DEF FirstWords
  <2> HIDE DEF f
  <2>3. (b.data \o so)[1] = b.data[1]
    <3>1. 1 \in 1 .. Len(b.data)
      BY <1>6
    <3> QED BY <1>6, <3>1, Joined
  <2>4. (f \o rest)[1] = f[1]
    <3>1. 1 \in 1 .. Len(f)
      BY <1>7, <2>1
    <3> QED BY <2>1, <3>1, Joined
  <2> QED BY <1>8, <2>1, <2>2, <2>3, <2>4 DEF f
<1>11. w = Words(h)[1]
  <2>1. Header(h).v = h.len /\ Header(h) \in W
    BY <1>7, WordsOf
  <2>2. f[1] = [Header(h) EXCEPT !.v = Prefix]
    BY <1>7, <1>10
  <2>3. w = [f[1] EXCEPT !.v = h.len]
    BY <1>10
  <2> HIDE DEF w, f
  <2>4. w = Header(h)
    BY <2>1, <2>2, <2>3 DEF W
  <2> QED BY <1>10, <2>4
<1>12. [f EXCEPT ![1] = w] = Words(h)
  <2> DEFINE x == [f EXCEPT ![1] = w]
  <2>1. /\ x \in Seq(W) /\ Len(x) = Len(f)
        /\ \A i \in 1 .. Len(f) : x[i] = IF i = 1 THEN w ELSE f[i]
    <3>1. 1 \in 1 .. Len(f)
      BY <1>7, <1>10
    <3> HIDE DEF w, f
    <3> QED BY <1>9, <1>10, <3>1, ExceptSeq
  <2>2. \A i \in 2 .. h.len : f[i] = Words(h)[i]
    BY <1>7, FirstWordsOf
  <2> HIDE DEF x, w, f
  <2>3. ASSUME NEW i \in 1 .. Len(x) PROVE x[i] = Words(h)[i]
    <3>1. CASE i = 1
      BY <1>10, <1>11, <2>1, <3>1
    <3>2. CASE i # 1
      <4>1. i \in 2 .. h.len /\ i \in 1 .. Len(f)
        BY <1>7, <1>10, <2>1, <3>2
      <4> QED BY <2>1, <2>2, <3>2, <4>1
    <3> QED BY <3>1, <3>2
  <2> QED BY <1>10, <2>1, <2>3, SeqEqual DEF x
<1> HIDE DEF w, f
<1>13. g \in Seq(W) /\ Len(g) = Len(b.data) /\ g[1] = w /\ g \o so = Words(h) \o rest
  <2>1. /\ WithFirst(b.data, w) \in Seq(W) /\ Len(WithFirst(b.data, w)) = Len(b.data)
        /\ WithFirst(b.data, w) \o so = WithFirst(b.data \o so, w)
    <3>1. b.data \in Seq(W) /\ so \in Seq(W) /\ w \in W /\ Len(b.data) >= 1
      BY <1>6, <1>9
    <3> HIDE DEF so
    <3> QED BY <3>1, ExceptFirst, Zenon
  <2>2. WithFirst(f, w) \o rest = WithFirst(f \o rest, w)
    <3>1. f \in Seq(W) /\ Len(f) >= 1 /\ w \in W
      BY <1>7, <1>9, <1>10
    <3> QED BY <3>1, ExceptFirst, Zenon
  <2>3. b.data \o so = f \o rest
    BY <1>8 DEF f
  <2>4. g[1] = w
    BY <1>6, ExceptSeq, <1>9
  <2>5. g = WithFirst(b.data, w) /\ Words(h) = WithFirst(f, w)
    BY <1>12 DEF WithFirst
  <2> QED BY <2>1, <2>2, <2>3, <2>4, <2>5
<1>14. /\ b1 \in Buffer /\ b1.data = g /\ b1.last = b.last /\ b1.at = b.at /\ b1.size = b.size
       /\ b1.part = b.part
       /\ b1 = [b EXCEPT !.data[1].v = h.len]
  <2>1. [b EXCEPT !.data[1].v = h.len] = b1
    BY DEF g, w
  <2> HIDE DEF g, w
  <2>2. g \in Seq([req : Nat, k : Nat, v : Nat])
    BY <1>13, Zenon DEF W
  <2> QED BY <1>5, <2>1, <2>2 DEF Buffer
<1> HIDE DEF b1, g
<1>15. Fits(b1) /\ (in.available = c => Empty(b1))
  <2>1. in.available = c => Empty(b)
    BY <1>2 DEF Types, BuffersOK, b
  <2> QED BY <1>5, <1>13, <1>14, <2>1 DEF Fits, bufcnt, Empty, Got
<1>16. /\ BuffersOK(s) /\ s.input = in.input /\ BufferOf(s, c) = b1
       /\ \A d \in Clients \ {c} : SameFor(s, in, d)
  <2>1. BuffersOK(in) /\ in.input[c] # None /\ b1 \in Buffer
    BY <1>2, <1>3, <1>14 DEF Types
  <2> QED BY <1>15, <2>1, PutBuffer, Zenon
<1>17. ResetCurrentRequest(s, c)
  BY <1>1, <1>14 DEF b, h
<1> HIDE DEF s
<1>18. /\ BuffersOK(in') /\ After(in', c) = g /\ PartOf(in', c) = PartOf(s, c)
       /\ \A d \in Clients \ {c} : SameFor(in', s, d)
       /\ \A d \in Clients \ {c} : d \in withInput' <=> d \in withInput
       /\ withInput' \subseteq withInput \cup {c}
       /\ \A isBig : c \in withInput' <=> Whole(g, isBig)
  <2>1. BufferOf(s, c).data[1].v \in Nat \ {0} /\ Len(BufferOf(s, c).data) >= 1
    BY <1>6, <1>7, <1>9, <1>13, <1>14, <1>16
  <2>2. s.input[c] # None
    BY <1>3, <1>16
  <2>3. BufferOf(s, c).data = g
    BY <1>14, <1>16
  <2> QED BY <1>2, <1>16, <1>17, <2>1, <2>2, <2>3, Rewind
<1>19. Types'
  BY <1>1, <1>2, <1>18 DEF Types, Stages
<1>20. ASSUME NEW x \in Clients, x # c PROVE InOrder(x)'
  <2>1. InOrder(x) /\ running.client # x /\ running'.client # x
    BY <1>1, NoneAssumption, <1>20 DEF Inv, Nobody
  <2>2. stage'[x] = stage[x]
    BY <1>1, <1>2, <1>20 DEF Types
  <2>3. SameFor(in', in, x)
    BY <1>16, <1>18, <1>20 DEF SameFor
  <2>4. After(in', x) = After(in, x)
    BY <2>3, SameAfter
  <2> QED BY <1>1, <1>18, <1>20, <2>1, <2>2, <2>4, Frame
<1>21. InOrder(c)'
  <2>1. stage'[c] = "setup"
    BY <1>1, <1>2 DEF Types
  <2>2. Numbered(c)'
    BY <1>1, <1>3, <2>1 DEF Numbered
  <2>3. Stored("setup", g \o so, sent[c])
    BY <1>7, <1>8, <1>13 DEF Stored, FirstWords, h
  <2>4. running'.client # c
    BY <1>1, <1>2 DEF Nobody
  <2>5. c \in withInput' <=> Whole(g, c \in big')
    BY <1>18
  <2> QED BY <1>1, <1>18, <2>1, <2>2, <2>3, <2>4, <2>5 DEF InOrder, Connection
<1>22. InStep'
  <2>1. PartOf(in', c) = PartOf(in, c)
    BY <1>3, <1>14, <1>16, <1>18 DEF PartOf, b
  <2>2. \A x \in Clients \ {c} : PartOf(in', x) = PartOf(in, x)
    BY <1>16, <1>18, SameAfter
  <2>3. taken' = taken /\ InStep
    BY <1>1 DEF Inv
  <2>4. PartOf(in', c) = taken'[c]
    BY <2>1, <2>3 DEF InStep
  <2> QED BY <2>2, <2>3, <2>4, StillInStep
<1> QED BY <1>19, <1>20, <1>21, <1>22 DEF Inv

\* What follows the request that is executed is the same for a client that
\* may use the extended encoding from now on.
LEMMA EnablingHidesNothing ==
  ASSUME NEW ws \in Seq(W), NEW so \in Seq(W), NEW rs \in Seq(Request),
         Stored("open", ws \o so, rs), rs # <<>> => ~Head(rs).big
  PROVE  Whole(ws, TRUE) <=> Whole(ws, FALSE)
<1>1. CASE Len(ws) >= 1
  <2>1. Sensible("open", rs, FALSE)
    BY DEF Sensible
  <2>2. rs # <<>> /\ Head(rs) \in Request /\ FirstLen("open", Head(rs)) \in 1 .. Head(rs).len
        /\ ws[1].v = IF Head(rs).big THEN 0 ELSE FirstLen("open", Head(rs))
    BY <1>1, <2>1, FirstWord
  <2>3. ws[1].v > 0
    BY <2>2, WordsOf
  <2> QED BY <2>3 DEF Whole
<1>2. CASE ~(Len(ws) >= 1)
  BY <1>2 DEF Whole
<1> QED BY <1>1, <1>2

LEMMA ExecuteGood ==
  ASSUME Inv, NEW enables \in BOOLEAN, Execute(enables),
         NEW c \in Clients, running.client = c
  PROVE  Inv'
<1> DEFINE rs == sent[c]
           ws == After(in, c)
           so == socket[c]
<1>1. /\ stage[c] # "prefix"
      /\ stage' = [stage EXCEPT ![c] = "open"]
      /\ sent' = [sent EXCEPT ![c] = Tail(@)]
      /\ enables => stage[c] = "open" /\ c \notin big
      /\ big' = IF enables THEN big \cup {c} ELSE big
      /\ running' = Nobody
      /\ UNCHANGED <<in, withInput, req_len, socket, taken, eof, count>>
  BY DEF Execute, peerVars
<1>2. Types /\ InOrder(c) /\ None \notin Clients
  BY NoneAssumption DEF Inv
<1>3. Connection(c) /\ Numbered(c) /\ Served(c)
  BY <1>2 DEF InOrder, Connection, NoConnection
<1>4. /\ rs \in Seq(Request) /\ rs # <<>> /\ Tail(rs) \in Seq(Request)
      /\ Len(Tail(rs)) = Len(rs) - 1 /\ Len(rs) \in Nat
      /\ \A i \in 1 .. Len(Tail(rs)) : i + 1 \in 1 .. Len(rs) /\ Tail(rs)[i] = rs[i + 1]
      /\ so \in Seq(W) /\ ws \in Seq(W)
  <2>1. rs \in Seq(Request) /\ rs # <<>> /\ so \in Seq(W) /\ ws \in Seq(W)
    BY <1>2, <1>3, AfterType DEF Served, Numbered, Types
  <2> HIDE DEF ws, so
  <2>2. /\ Tail(rs) \in Seq(Request) /\ Len(Tail(rs)) = Len(rs) - 1 /\ Len(rs) \in Nat
        /\ \A i \in 1 .. Len(Tail(rs)) : Tail(rs)[i] = rs[i + 1]
    BY <2>1, HeadTailProperties, LenProperties
  <2> QED BY <2>1, <2>2
<1>5. Stored("open", ws \o so, Tail(rs))
  BY <1>1, <1>3 DEF Served
<1>6. sent'[c] = Tail(rs) /\ stage'[c] = "open"
  BY <1>1, <1>2 DEF Types
<1>7. Types'
  <2>1. stage' \in [Clients -> Stages] /\ sent' \in [Clients -> Seq(Request)]
    <3>1. "open" \in Stages
      BY DEF Stages
    <3> QED BY <1>1, <1>2, <1>4, <3>1 DEF Types
  <2> QED BY <1>1, <1>2, <2>1 DEF Types
<1>8. ASSUME NEW x \in Clients, x # c PROVE InOrder(x)'
  <2>1. InOrder(x) /\ running.client # x /\ running'.client # x
    BY <1>1, <1>2, <1>8 DEF Inv, Nobody
  <2>2. /\ stage'[x] = stage[x] /\ sent'[x] = sent[x]
        /\ x \in big' <=> x \in big
    BY <1>1, <1>2, <1>8 DEF Types
  <2> QED BY <1>1, <2>1, <2>2, Frame
<1>9. InOrder(c)'
  <2>1. Numbered(c)'
    <3> DEFINE ts == Tail(rs)
    <3>1. ts \in Seq(Request) /\ \A i \in 1 .. Len(ts) : i + 1 \in 1 .. Len(rs) /\ ts[i] = rs[i + 1]
      BY <1>4
    <3> HIDE DEF ts
    <3>2. /\ \A i \in 1 .. Len(rs) : rs[i].id <= count[c]
          /\ \A i, j \in 1 .. Len(rs) : rs[i].id = rs[j].id => i = j
          /\ c \notin big => \A i \in 1 .. Len(rs) : ~rs[i].big
          /\ \A i \in 1 .. Len(rs) : rs[i].big => rs[i].len > 1
      BY <1>3 DEF Numbered
    <3>3. \A i \in 1 .. Len(ts) : ts[i].id <= count[c]
      BY <3>1, <3>2
    <3>4. ASSUME NEW i \in 1 .. Len(ts), NEW j \in 1 .. Len(ts), ts[i].id = ts[j].id
          PROVE  i = j
      <4>1. i + 1 = j + 1
        BY <3>1, <3>2, <3>4
      <4> QED BY <4>1
    <3>5. c \notin big => \A i \in 1 .. Len(ts) : ~ts[i].big
      BY <3>1, <3>2
    <3>6. \A i \in 1 .. Len(ts) : ts[i].big => ts[i].len > 1
      BY <3>1, <3>2
    <3>7. sent'[c] = ts /\ stage'[c] # "prefix" /\ count' = count /\ (c \notin big' => c \notin big)
      BY <1>1, <1>6 DEF ts
    <3> QED BY <3>1, <3>3, <3>4, <3>5, <3>6, <3>7 DEF Numbered
  <2>2. c \in withInput' <=> Whole(ws, c \in big')
    <3>1. c \in withInput <=> Whole(ws, c \in big)
      BY <1>3 DEF Connection
    <3>2. CASE (c \in big) = (c \in big')
      BY <1>1, <3>1, <3>2
    <3>3. CASE c \notin big /\ c \in big'
      <4>1. Tail(rs) # <<>> => ~Head(Tail(rs)).big
        <5> DEFINE ts == Tail(rs)
        <5>1. ts \in Seq(Request) /\ \A i \in 1 .. Len(ts) : i + 1 \in 1 .. Len(rs) /\ ts[i] = rs[i + 1]
          BY <1>4
        <5>2. \A i \in 1 .. Len(rs) : ~rs[i].big
          BY <1>3, <3>3 DEF Numbered
        <5> HIDE DEF ts
        <5>3. ts # <<>> => Head(ts) = ts[1] /\ 1 \in 1 .. Len(ts)
          BY <5>1, HeadTailProperties, EmptySeq, LenProperties
        <5> QED BY <5>1, <5>2, <5>3 DEF ts
      <4>2. Whole(ws, TRUE) <=> Whole(ws, FALSE)
        BY <1>4, <1>5, <4>1, EnablingHidesNothing
      <4>3. (c \in big) = FALSE /\ (c \in big') = TRUE
        BY <3>3
      <4> QED BY <1>1, <3>1, <4>2, <4>3
    <3>4. c \in big => c \in big'
      BY <1>1
    <3> QED BY <3>2, <3>3, <3>4
  <2>3. running'.client # c
    BY <1>1, <1>2 DEF Nobody
  <2>4. Stored(stage'[c], After(in', c) \o socket'[c], sent'[c])
    BY <1>1, <1>5, <1>6
  <2> QED BY <1>1, <1>6, <2>1, <2>2, <2>3, <2>4 DEF InOrder, Connection
<1>10. InStep'
  BY <1>1 DEF Inv, InStep
<1> QED BY <1>7, <1>8, <1>9, <1>10 DEF Inv

LEMMA ResetGood ==
  ASSUME Inv, ~ResetBig, Reset, NEW c \in Clients, running.client = c
  PROVE  Inv'
<1> DEFINE b == BufferOf(in, c)
           h == Head(sent[c])
           so == socket[c]
           d == b.data
           u == After(in, c)
<1>1. /\ stage[c] = "open" /\ running.words[1].v > 0
      /\ ResetCurrentRequest(in, c)
      /\ running' = Nobody
      /\ UNCHANGED <<big, req_len, stage, socket, taken, eof, count, sent>>
  BY DEF Reset, clientVars, peerVars
<1>2. Types /\ InOrder(c) /\ None \notin Clients
  BY NoneAssumption DEF Inv
<1>3. Connection(c) /\ Numbered(c) /\ Served(c)
  BY <1>1, <1>2 DEF InOrder, Connection
<1>4. /\ in.input[c] # None /\ sent[c] \in Seq(Request) /\ sent[c] # <<>>
      /\ running.words = SubSeq(d, 1, b.last) /\ running.words = Contents(h)
      /\ Stored("open", u \o so, Tail(sent[c]))
  BY <1>1, <1>3 DEF Served, Numbered
<1>5. b \in Buffer /\ Fits(b) /\ u = Advance(b).data
  BY <1>2, <1>4, AfterType DEF Types
<1>6. /\ d \in Seq(W) /\ so \in Seq(W) /\ u \in Seq(W) /\ u = SubSeq(d, b.last + 1, Len(d))
      /\ b.last \in 0 .. Len(d) /\ Len(d) \in Nat /\ b.last \in Nat
  <2>1. d \in Seq(W) /\ Len(d) \in Nat /\ b.last \in 0 .. Len(d) /\ b.last \in Nat
    BY <1>5, LenProperties DEF Buffer, W, Fits
  <2>2. u \in Seq(W) /\ u = SubSeq(d, b.last + 1, Len(d))
    BY <1>5, AdvanceOf
  <2> QED BY <1>2, <2>1, <2>2 DEF Types
<1>7. /\ h \in Request /\ h.len \in Nat /\ h.len >= 1 /\ Tail(sent[c]) \in Seq(Request)
      /\ Words(h) \in Seq(W) /\ Len(Words(h)) = h.len /\ Words(h)[1] = Header(h)
  BY <1>4, HeadTailProperties, WordsOf
<1>8. ~h.big /\ Contents(h) = Words(h) /\ Header(h).v = h.len
  <2>1. h.big => h.len > 1
    BY <1>3, <1>4, NumberedIsSensible DEF Sensible
  <2>2. running.words[1] = Header(h)
    BY <1>4, <1>7, <2>1, ContentsOf
  <2>3. Header(h).v = IF h.big THEN 0 ELSE h.len
    BY <1>7, WordsOf
  <2>4. ~h.big
    BY <1>1, <2>2, <2>3
  <2> QED BY <2>3, <2>4 DEF Contents
<1> HIDE DEF h, d, u, so
<1>9. SubSeq(d, 1, b.last) = Words(h)
  BY <1>4, <1>8
<1>10. b.last = h.len /\ d[1] = Header(h) /\ Len(d) >= 1
  <2>1. /\ Len(SubSeq(d, 1, b.last)) = IF 1 <= b.last THEN b.last - 1 + 1 ELSE 0
        /\ \A i \in 1 .. Len(SubSeq(d, 1, b.last)) : SubSeq(d, 1, b.last)[i] = d[1 + i - 1]
    BY <1>6, SubSeqType
  <2>2. b.last = h.len
    BY <1>6, <1>7, <1>9, <2>1
  <2>3. 1 \in 1 .. Len(Words(h)) /\ 1 + 1 - 1 = 1
    BY <1>7
  <2>4. d[1] = Words(h)[1]
    <3>1. SubSeq(d, 1, b.last)[1] = d[1 + 1 - 1]
      <4>1. 1 \in 1 .. Len(SubSeq(d, 1, b.last))
        BY <1>9, <2>3
      <4> QED BY <2>1, <4>1
    <3> QED BY <1>9, <2>3, <3>1
  <2> QED BY <1>6, <1>7, <2>2, <2>4
<1>11. d \o so = Words(h) \o (u \o so) /\ u \o so \in Seq(W)
  <2>1. Words(h) \o u = d
    <3>1. <<>> \in Seq(W)
      OBVIOUS
    <3>2. (<<>> \o SubSeq(d, 1, b.last)) \o SubSeq(d, b.last + 1, Len(d)) = <<>> \o d
      BY <1>6, <3>1, MoveWords, Zenon
    <3> QED BY <1>6, <1>7, <1>9, <3>2, ConcatEmptySeq
  <2>2. (Words(h) \o u) \o so = Words(h) \o (u \o so)
    <3>1. Words(h) \in Seq(W) /\ u \in Seq(W) /\ so \in Seq(W)
      BY <1>6, <1>7
    <3> QED BY <3>1, JoinedThrice, Zenon
  <2>3. u \o so \in Seq(W)
    BY <1>6, Joined
  <2> QED BY <2>1, <2>2, <2>3
<1>12. Encodes(u \o so, Tail(sent[c]))
  BY <1>4, <1>7, <1>11, StoredIsEncodes
<1>13. Stored("open", d \o so, sent[c])
  BY <1>4, <1>11, <1>12 DEF Stored, FirstWords, h
<1>14. /\ BuffersOK(in') /\ After(in', c) = d /\ PartOf(in', c) = PartOf(in, c)
       /\ \A x \in Clients \ {c} : SameFor(in', in, x)
       /\ \A x \in Clients \ {c} : x \in withInput' <=> x \in withInput
       /\ withInput' \subseteq withInput \cup {c}
       /\ \A isBig : c \in withInput' <=> Whole(d, isBig)
  <2>1. d[1].v \in Nat \ {0} /\ Len(d) >= 1
    BY <1>7, <1>8, <1>10
  <2> QED BY <1>1, <1>2, <1>4, <2>1, Rewind DEF Types, d
<1>15. Types'
  BY <1>1, <1>2, <1>14 DEF Types
<1>16. ASSUME NEW x \in Clients, x # c PROVE InOrder(x)'
  <2>1. InOrder(x) /\ running.client # x /\ running'.client # x
    BY <1>1, <1>2, <1>16 DEF Inv, Nobody
  <2>2. After(in', x) = After(in, x)
    BY <1>14, <1>16, SameAfter
  <2> QED BY <1>1, <1>14, <1>16, <2>1, <2>2, Frame
<1>17. InOrder(c)'
  <2>1. Numbered(c)'
    BY <1>1, <1>3 DEF Numbered
  <2>2. running'.client # c
    BY <1>1, <1>2 DEF Nobody
  <2>3. c \in withInput' <=> Whole(After(in', c), c \in big')
    BY <1>14
  <2>4. Stored(stage'[c], After(in', c) \o socket'[c], sent'[c])
    BY <1>1, <1>13, <1>14 DEF so
  <2> QED BY <1>1, <2>1, <2>2, <2>3, <2>4 DEF InOrder, Connection
<1>18. InStep'
  <2>1. \A x \in Clients \ {c} : PartOf(in', x) = PartOf(in, x)
    BY <1>14, SameAfter
  <2>2. taken' = taken /\ InStep
    BY <1>1 DEF Inv
  <2>3. PartOf(in', c) = taken'[c]
    BY <1>14, <2>2 DEF InStep
  <2> QED BY <2>1, <2>2, <2>3, StillInStep
<1> QED BY <1>15, <1>16, <1>17, <1>18 DEF Inv

LEMMA KillGood ==
  ASSUME Inv, NEW c \in Clients, Kill(c)
  PROVE  Inv'
<1>1. CloseDown(in, c) /\ BuffersOK(in)
  BY DEF Kill, Inv, Types
<1>2. \A d \in Clients \ {c} : running.client = d => SameFor(in, in, d)
  BY DEF SameFor
<1> QED BY <1>1, <1>2, CloseDownGood

-----------------------------------------------------------------------------
(* Peers.                                                                  *)

LEMMA SetupOf ==
  ASSUME NEW auth \in AuthLengths
  PROVE  LET r == Setup(auth)
         IN  /\ r \in Request /\ r.id = 0 /\ r.len >= Prefix /\ ~r.big
             /\ [Header(r) EXCEPT !.v = Prefix] \in W
             /\ [Header(r) EXCEPT !.v = Prefix].v = Prefix
             /\ Tail(Words(r)) \in Seq(W)
             /\ FirstWords("prefix", r) = <<[Header(r) EXCEPT !.v = Prefix]>> \o Tail(Words(r))
<1> DEFINE r == Setup(auth)
           f == [Header(r) EXCEPT !.v = Prefix]
           w == Words(r)
           x == FirstWords("prefix", r)
           y == <<f>> \o Tail(w)
<1>1. auth \in Nat /\ auth <= MAXBUFSIZE - 2
  BY LengthsAssumption, SizesAssumption
<1>2. r \in Request /\ r.id = 0 /\ r.len = Prefix + auth /\ ~r.big /\ r.len >= Prefix /\ r.len \in Nat
  BY <1>1, BoundsAssumption, SizesAssumption DEF Setup, Request, Prefix
<1> HIDE DEF r
<1>3. w \in Seq(W) /\ Len(w) = r.len /\ w[1] = Header(r) /\ Header(r) \in W /\ w # <<>>
  BY <1>2, WordsOf, EmptySeq DEF Prefix
<1>4. f \in W /\ f.v = Prefix
  BY <1>3 DEF W, Prefix
<1>5. /\ Tail(w) \in Seq(W) /\ Len(Tail(w)) = r.len - 1
      /\ \A i \in 1 .. Len(Tail(w)) : Tail(w)[i] = w[i + 1]
  BY <1>3, HeadTailProperties
<1>6. /\ x \in Seq(W) /\ Len(x) = r.len /\ \A k \in 2 .. r.len : x[k] = w[k]
  BY <1>2, FirstWordsOf
<1>7. x[1] = f
  <2>1. x = [w EXCEPT ![1].v = Prefix]
    BY DEF FirstWords
  <2>2. 1 \in DOMAIN w
    BY <1>2, <1>3 DEF Prefix
  <2> HIDE DEF x, w
  <2> QED BY <1>3, <2>1, <2>2
<1> DEFINE tl == Tail(w)
<1> HIDE DEF f, w, x, tl
<1>8. /\ y \in Seq(W) /\ Len(y) = Len(tl) + 1 /\ y[1] = f
      /\ \A i \in 1 .. Len(y) : i # 1 => i - 1 \in 1 .. Len(tl) /\ y[i] = tl[i - 1]
  <2>1. tl \in Seq(W) /\ y = <<f>> \o tl
    BY <1>5 DEF tl
  <2> HIDE DEF y
  <2> QED BY <1>4, <2>1, Prepend
<1> HIDE DEF y
<1>9. Len(x) = Len(y) /\ Len(x) = r.len
  BY <1>2, <1>5, <1>6, <1>8 DEF tl
<1>10. ASSUME NEW i \in 1 .. Len(x) PROVE x[i] = y[i]
  <2>1. CASE i = 1
    BY <1>7, <1>8, <2>1
  <2>2. CASE i # 1
    <3>1. i - 1 \in 1 .. Len(tl) /\ y[i] = tl[i - 1]
      BY <1>8, <1>9, <2>2
    <3>2. tl[i - 1] = w[i - 1 + 1] /\ i - 1 + 1 = i
      BY <1>5, <1>9, <3>1 DEF tl
    <3>3. i \in 2 .. r.len
      BY <1>2, <1>9, <2>2
    <3> QED BY <1>6, <3>1, <3>2, <3>3
  <2> QED BY <2>1, <2>2
<1>11. x = y
  BY <1>6, <1>8, <1>9, <1>10, SeqEqual
<1> QED BY <1>2, <1>4, <1>5, <1>11 DEF r, f, w, x, y

LEMMA ConnectGood ==
  ASSUME Inv, NEW c \in Clients, NEW auth \in AuthLengths, Connect(c, auth)
  PROVE  Inv'
<1> DEFINE s == TakeBuffer(GiveAvailable(in, c), c)
           b == Advance(BufferOf(s, c))
           r == Setup(auth)
           fake == [Header(r) EXCEPT !.v = Prefix]
           at == IF b.at = 0 THEN 0 ELSE b.at - 1
           e == [b EXCEPT !.data = <<fake>> \o @, !.at = IF @ = 0 THEN 0 ELSE @ - 1]
           f == [e EXCEPT !.size = IF Got(e) > @ THEN Got(e) ELSE @]
           tl == Tail(Words(r))
<1>1. /\ c \notin Connected /\ running = Nobody
      /\ in' = WithBuffer(s, c, f)
      /\ withInput' = withInput \ {c}
      /\ stage' = [stage EXCEPT ![c] = "prefix"]
      /\ sent' = [sent EXCEPT ![c] = <<r>>]
      /\ socket' = [socket EXCEPT ![c] = tl]
      /\ UNCHANGED <<big, req_len, taken, eof, count, running>>
  BY DEF Connect
<1>2. /\ Types /\ InOrder(c) /\ stage[c] = "closed" /\ None \notin Clients
      /\ \A x \in Clients : running.client # x
  BY <1>1, NoneAssumption DEF Inv, Connected, Nobody
<1>3. NoConnection(c)
  BY <1>2 DEF InOrder
<1>4. /\ BuffersOK(s) /\ s.available = None /\ s.input[c] # None
      /\ \A d \in Clients : After(s, d) = After(in, d) /\ PartOf(s, d) = PartOf(in, d)
  <2> DEFINE g == GiveAvailable(in, c)
  <2>1. /\ BuffersOK(g) /\ g.available = None
        /\ \A d \in Clients : After(g, d) = After(in, d) /\ PartOf(g, d) = PartOf(in, d)
    BY <1>2, GiveKeeps DEF Types
  <2> HIDE DEF g
  <2>2. /\ BuffersOK(TakeBuffer(g, c)) /\ TakeBuffer(g, c).available = None
        /\ TakeBuffer(g, c).input[c] # None
        /\ \A d \in Clients : /\ After(TakeBuffer(g, c), d) = After(g, d)
                              /\ PartOf(TakeBuffer(g, c), d) = PartOf(g, d)
    BY <2>1, TakeKeeps
  <2> QED BY <2>1, <2>2 DEF g
<1> HIDE DEF s
<1>5. b \in Buffer /\ Fits(b) /\ b.last = 0 /\ b.data = <<>> /\ b.part = PartOf(in, c) /\ b.part = 0
  <2>1. /\ BufferOf(s, c) \in Buffer /\ Fits(BufferOf(s, c)) /\ After(s, c) = b.data
        /\ PartOf(s, c) = BufferOf(s, c).part
    BY <1>4, AfterType
  <2>2. PartOf(in, c) = 0
    BY <1>3 DEF Inv, InStep, NoConnection
  <2>3. After(in, c) = <<>>
    BY <1>3 DEF NoConnection
  <2> QED BY <1>4, <2>1, <2>2, <2>3, AdvanceOf
<1> HIDE DEF b
<1>6. /\ r \in Request /\ r.id = 0 /\ r.len >= Prefix /\ ~r.big
      /\ fake \in W /\ fake.v = Prefix /\ tl \in Seq(W)
      /\ FirstWords("prefix", r) = <<fake>> \o tl
  BY SetupOf
<1> HIDE DEF r, fake, tl
<1>7. /\ <<fake>> \o b.data = <<fake>> /\ <<fake>> \in Seq(W) /\ Len(<<fake>>) = 1
      /\ <<fake>>[1] = fake
  BY <1>5, <1>6, ConcatEmptySeq
<1>8. e \in Buffer /\ e.data = <<fake>> /\ e.at = at /\ e.last = 0 /\ e.size = b.size
      /\ e.part = b.part
  <2>1. b.at \in Nat
    BY <1>5 DEF Buffer
  <2>2. at \in Nat
    BY <2>1
  <2>3. e = [b EXCEPT !.data = <<fake>>, !.at = at]
    BY <1>5, <1>7 DEF Buffer
  <2>4. <<fake>> \in Seq([req : Nat, k : Nat, v : Nat])
    BY <1>7, Zenon DEF W
  <2> HIDE DEF at, e
  <2> QED BY <1>5, <2>2, <2>3, <2>4 DEF Buffer
<1>9. b.at \in Nat /\ b.size \in Nat /\ b.at <= b.size
  BY <1>5 DEF Buffer, Fits, bufcnt
<1> HIDE DEF e
<1>10. f \in Buffer /\ f.data = <<fake>> /\ f.last = 0 /\ f.part = b.part /\ Fits(f)
  <2> DEFINE z == IF 1 > b.size THEN 1 ELSE b.size
  <2>1. f = [e EXCEPT !.size = z] /\ z \in Nat
    BY <1>7, <1>8, <1>9 DEF Got, Buffer
  <2> HIDE DEF z
  <2>2. /\ f \in Buffer /\ f.data = <<fake>> /\ f.last = 0 /\ f.at = at /\ f.size = z
        /\ f.part = b.part
    BY <1>8, <2>1 DEF Buffer
  <2> HIDE DEF f
  <2>3. Fits(f)
    <3>1. z \in Nat /\ z >= 1 /\ z >= b.size
      BY <1>9 DEF z
    <3>2. f.at + 1 <= z
      BY <1>9, <2>2, <3>1 DEF z, at
    <3>3. Len(f.data) = 1 /\ f.part = 0 /\ f.last = 0 /\ f.size = z
      BY <1>5, <1>7, <2>2
    <3> QED BY <3>1, <3>2, <3>3 DEF Fits, bufcnt
  <2> QED BY <2>2, <2>3 DEF f
<1> HIDE DEF f
<1>11. /\ BuffersOK(in') /\ in'.input = s.input /\ BufferOf(in', c) = f
       /\ \A x \in Clients \ {c} : SameFor(in', s, x)
  <2>1. s.available # c
    BY <1>2, <1>4
  <2> QED BY <1>1, <1>4, <1>10, <2>1, PutBuffer
<1>12. After(in', c) = <<fake>>
  BY <1>4, <1>10, <1>11, AdvanceNone DEF After
<1>13. stage'[c] = "prefix" /\ sent'[c] = <<r>> /\ socket'[c] = tl
  BY <1>1, <1>2 DEF Types
<1>14. <<r>> \in Seq(Request) /\ Len(<<r>>) = 1 /\ Head(<<r>>) = r /\ Tail(<<r>>) = <<>>
       /\ <<r>> # <<>> /\ <<r>>[1] = r
  BY <1>6
<1>15. Types'
  <2>1. stage' \in [Clients -> Stages] /\ sent' \in [Clients -> Seq(Request)]
        /\ socket' \in [Clients -> Seq(W)]
    <3>1. "prefix" \in Stages
      BY DEF Stages
    <3> QED BY <1>1, <1>2, <1>6, <1>14, <3>1 DEF Types
  <2> QED BY <1>1, <1>2, <1>11, <2>1 DEF Types
<1>16. ASSUME NEW x \in Clients, x # c PROVE InOrder(x)'
  <2>1. InOrder(x) /\ running.client # x /\ running'.client # x
    BY <1>1, <1>2 DEF Inv
  <2>2. /\ stage'[x] = stage[x] /\ sent'[x] = sent[x] /\ socket'[x] = socket[x]
        /\ x \in withInput' <=> x \in withInput
    BY <1>1, <1>2, <1>16 DEF Types
  <2>3. After(in', x) = After(in, x)
    BY <1>4, <1>11, <1>16, SameAfter
  <2>4. /\ count'[x] = count[x] /\ taken'[x] = taken[x]
        /\ x \in big' <=> x \in big
        /\ x \in eof' => x \in eof
    BY <1>1
  <2> QED BY <2>1, <2>2, <2>3, <2>4, Frame
<1>17. InOrder(c)'
  <2>1. Numbered(c)'
    <3>1. count'[c] = 0
      BY <1>1, <1>3 DEF NoConnection
    <3>2. \A i \in 1 .. Len(<<r>>) : i = 1
      BY <1>14
    <3> DEFINE rs == <<r>>
    <3>3. rs \in Seq(Request) /\ Head(rs) = r /\ rs # <<>> /\ \A i \in 1 .. Len(rs) : i = 1 /\ rs[i] = r
      BY <1>14, <3>2
    <3>4. sent'[c] = rs
      BY <1>13
    <3> HIDE DEF rs
    <3> QED BY <1>6, <3>1, <3>3, <3>4 DEF Numbered
  <2>2. c \notin withInput' /\ ~Whole(<<fake>>, c \in big')
    BY <1>1, <1>6, <1>7 DEF Whole, Prefix
  <2>3. running'.client # c
    BY <1>1, <1>2
  <2>4. Stored("prefix", <<fake>> \o tl, <<r>>)
    <3>1. <<fake>> \o tl = FirstWords("prefix", r) \o <<>>
      BY <1>6, FirstWordsOf, ConcatEmptySeq
    <3>2. <<>> \in Seq(W)
      OBVIOUS
    <3> QED BY <1>14, <3>1, <3>2, EncodesNone DEF Stored
  <2> QED BY <1>12, <1>13, <2>1, <2>2, <2>3, <2>4 DEF InOrder, Connection
<1>18. InStep'
  <2>1. \A x \in Clients \ {c} : PartOf(in', x) = PartOf(in, x)
    BY <1>4, <1>11, SameAfter
  <2>2. taken' = taken /\ InStep
    BY <1>1 DEF Inv
  <2>3. PartOf(in', c) = taken'[c]
    BY <1>4, <1>5, <1>10, <1>11, <2>2 DEF InStep, PartOf
  <2> QED BY <2>1, <2>2, <2>3, StillInStep
<1> QED BY <1>15, <1>16, <1>17, <1>18 DEF Inv

LEMMA SendGood ==
  ASSUME Inv, NEW c \in Clients, NEW len \in Lengths, NEW extended \in BOOLEAN,
         Send(c, len, extended)
  PROVE  Inv'
<1> DEFINE r == [id |-> count[c] + 1, len |-> len, big |-> extended]
           rs == sent[c]
           us == Append(rs, r)
           so == socket[c]
           u == After(in, c)
<1>1. /\ stage[c] # "closed" /\ count[c] < MaxRequests
      /\ extended => c \in big /\ len > 1
      /\ socket' = [socket EXCEPT ![c] = so \o Words(r)]
      /\ sent' = [sent EXCEPT ![c] = us]
      /\ count' = [count EXCEPT ![c] = @ + 1]
      /\ UNCHANGED <<in, withInput, big, req_len, stage, taken, eof, running>>
  BY DEF Send, Connected, clientVars
<1>2. Types /\ InOrder(c)
  BY DEF Inv
<1>3. Connection(c) /\ Numbered(c)
  BY <1>1, <1>2 DEF InOrder, Connection
<1>4. /\ rs \in Seq(Request) /\ so \in Seq(W) /\ u \in Seq(W) /\ count[c] \in Nat
      /\ Len(rs) \in Nat
  BY <1>2, <1>3, AfterType, LenProperties DEF Types, Numbered
<1>5. r \in Request /\ r.id = count[c] + 1 /\ r.len = len /\ r.big = extended
  <2>1. len \in 1 .. MAXBUFSIZE /\ count[c] + 1 \in 0 .. MaxRequests
    BY <1>1, <1>4, LengthsAssumption, BoundsAssumption
  <2> QED BY <2>1 DEF Request
<1> HIDE DEF r
<1>6. /\ us \in Seq(Request) /\ us # <<>> /\ Len(us) = Len(rs) + 1 /\ us[Len(rs) + 1] = r
      /\ \A i \in 1 .. Len(rs) : us[i] = rs[i]
  BY <1>4, <1>5, AppendProperties
<1>7. rs # <<>> => Head(us) = Head(rs) /\ Tail(us) = Append(Tail(rs), r)
  BY <1>4, <1>5, HeadTailAppend
<1> HIDE DEF rs, us, so, u
<1>8. Words(r) \in Seq(W) /\ so \o Words(r) \in Seq(W)
  BY <1>4, <1>5, WordsOf, Joined
<1>9. socket'[c] = so \o Words(r) /\ sent'[c] = us /\ count'[c] = count[c] + 1
  BY <1>1, <1>2 DEF Types
<1>10. Types'
  <2>1. /\ sent' \in [Clients -> Seq(Request)] /\ socket' \in [Clients -> Seq(W)]
        /\ count' \in [Clients -> Nat]
    BY <1>1, <1>2, <1>6, <1>8 DEF Types
  <2> QED BY <1>1, <1>2, <2>1 DEF Types
<1>11. ASSUME NEW x \in Clients, x # c PROVE InOrder(x)'
  <2>1. InOrder(x)
    BY DEF Inv
  <2>2. socket'[x] = socket[x] /\ sent'[x] = sent[x] /\ count'[x] = count[x]
    BY <1>1, <1>2, <1>11 DEF Types
  <2>3. SameFor(in', in, x) /\ running' = running
    BY <1>1 DEF SameFor
  <2> QED BY <1>1, <2>1, <2>2, <2>3, Frame
<1>12. InOrder(c)'
  <2>1. Numbered(c)'
    <3>1. /\ \A i \in 1 .. Len(rs) : rs[i].id <= count[c]
          /\ \A i, j \in 1 .. Len(rs) : rs[i].id = rs[j].id => i = j
          /\ c \notin big => \A i \in 1 .. Len(rs) : ~rs[i].big
          /\ \A i \in 1 .. Len(rs) : rs[i].big => rs[i].len > 1
          /\ \A i \in 1 .. Len(rs) : rs[i].id \in Nat
          /\ stage[c] = "prefix" => rs # <<>> /\ ~Head(rs).big /\ Head(rs).len >= Prefix
      <4>1. \A i \in 1 .. Len(rs) : rs[i].id \in Nat
        BY <1>4, ElementOfSeq, WordsOf
      <4> QED BY <1>3, <4>1 DEF Numbered, rs
    <3>2. ASSUME NEW i \in 1 .. Len(us)
          PROVE  \/ i \in 1 .. Len(rs) /\ us[i] = rs[i]
                 \/ i = Len(rs) + 1 /\ us[i] = r
      BY <1>4, <1>6
    <3>3. ASSUME NEW i \in 1 .. Len(us) PROVE us[i].id <= count[c] + 1
      <4>1. CASE i \in 1 .. Len(rs) /\ us[i] = rs[i]
        BY <1>4, <3>1, <4>1
      <4>2. CASE us[i] = r
        BY <1>4, <1>5, <4>2
      <4> QED BY <3>2, <4>1, <4>2
    <3>4. ASSUME NEW i \in 1 .. Len(us), NEW j \in 1 .. Len(us), us[i].id = us[j].id
          PROVE  i = j
      <4>1. CASE us[i] = r /\ i = Len(rs) + 1 /\ j \in 1 .. Len(rs) /\ us[j] = rs[j]
        <5>1. rs[j].id <= count[c] /\ rs[j].id \in Nat /\ rs[j].id = count[c] + 1
          BY <1>5, <3>1, <3>4, <4>1
        <5> QED BY <1>4, <5>1
      <4>2. CASE us[j] = r /\ j = Len(rs) + 1 /\ i \in 1 .. Len(rs) /\ us[i] = rs[i]
        <5>1. rs[i].id <= count[c] /\ rs[i].id \in Nat /\ rs[i].id = count[c] + 1
          BY <1>5, <3>1, <3>4, <4>2
        <5> QED BY <1>4, <5>1
      <4>3. CASE i \in 1 .. Len(rs) /\ us[i] = rs[i] /\ j \in 1 .. Len(rs) /\ us[j] = rs[j]
        BY <3>1, <3>4, <4>3
      <4> QED BY <3>2, <4>1, <4>2, <4>3
    <3>5. ASSUME NEW i \in 1 .. Len(us) PROVE (c \notin big => ~us[i].big) /\ (us[i].big => us[i].len > 1)
      BY <1>1, <1>5, <3>1, <3>2
    <3>6. stage[c] = "prefix" => us # <<>> /\ ~Head(us).big /\ Head(us).len >= Prefix
      BY <1>6, <1>7, <3>1
    <3> QED BY <1>1, <1>6, <1>9, <3>3, <3>4, <3>5, <3>6 DEF Numbered
  <2>2. c \in withInput' <=> Whole(After(in', c), c \in big')
    BY <1>1, <1>3 DEF Connection
  <2>3. CASE running.client = c
    <3>1. Served(c)
      BY <1>3, <2>3 DEF Connection
    <3>2. in.input[c] # None /\ rs # <<>>
      BY <3>1 DEF Served, rs
    <3>3. Head(us) = Head(rs) /\ Tail(us) = Append(Tail(rs), r) /\ Tail(rs) \in Seq(Request)
      BY <1>4, <1>7, <3>2, HeadTailProperties
    <3>4. ASSUME stage[c] = "prefix" PROVE Served(c)'
      <4> DEFINE d == BufferOf(in, c).data
      <4>1. d \in Seq(W)
        BY <1>2, <3>2, AfterType DEF Types, Buffer, W
      <4>2. Stored("prefix", d \o so, rs)
        BY <3>1, <3>4 DEF Served, rs, so
      <4> HIDE DEF d
      <4>3. (d \o so) \o Words(r) = d \o (so \o Words(r)) /\ d \o so \in Seq(W)
        BY <1>4, <1>8, <4>1, JoinedThrice, Joined
      <4>4. Stored("prefix", (d \o so) \o Words(r), us)
        BY <1>4, <1>5, <3>2, <4>2, <4>3, StoredAppend DEF us
      <4>5. Stored("prefix", d \o (so \o Words(r)), us)
        BY <4>3, <4>4
      <4> QED BY <1>1, <1>6, <1>9, <3>1, <3>4, <4>5 DEF Served, d
    <3>5. ASSUME stage[c] # "prefix" PROVE Served(c)'
      <4>1. Stored("open", u \o so, Tail(rs))
        BY <3>1, <3>5 DEF Served, rs, so, u
      <4>2. (u \o so) \o Words(r) = u \o (so \o Words(r)) /\ u \o so \in Seq(W)
        BY <1>4, <1>8, JoinedThrice, Joined
      <4>3. Stored("open", (u \o so) \o Words(r), Append(Tail(rs), r))
        BY <1>5, <3>3, <4>1, <4>2, StoredAppend
      <4>4. Stored("open", u \o (so \o Words(r)), Tail(us))
        BY <3>3, <4>2, <4>3
      <4>5. running.words = Contents(Head(us))
        BY <3>1, <3>3, <3>5 DEF Served, rs
      <4>6. running.words = SubSeq(BufferOf(in, c).data, 1, BufferOf(in, c).last)
        BY <3>1 DEF Served
      <4> QED BY <1>1, <1>6, <1>9, <3>2, <3>5, <4>4, <4>5, <4>6 DEF Served, u
    <3>6. Served(c)'
      BY <3>4, <3>5
    <3> QED BY <1>1, <2>1, <2>2, <2>3, <3>6 DEF InOrder, Connection
  <2>4. CASE running.client # c
    <3>1. Stored(stage[c], u \o so, rs)
      BY <1>3, <2>4 DEF Connection, u, so, rs
    <3>2. stage[c] = "prefix" => rs # <<>>
      BY <1>3 DEF Numbered, rs
    <3>3. (u \o so) \o Words(r) = u \o (so \o Words(r)) /\ u \o so \in Seq(W)
      BY <1>4, <1>8, JoinedThrice, Joined
    <3>4. Stored(stage[c], (u \o so) \o Words(r), us)
      BY <1>4, <1>5, <3>1, <3>2, <3>3, StoredAppend DEF us
    <3>5. Stored(stage'[c], After(in', c) \o socket'[c], sent'[c])
      BY <1>1, <1>9, <3>3, <3>4 DEF u
    <3> QED BY <1>1, <2>1, <2>2, <2>4, <3>5 DEF InOrder, Connection
  <2> QED BY <2>3, <2>4
<1>13. InStep'
  BY <1>1 DEF Inv, InStep
<1> QED BY <1>10, <1>11, <1>12, <1>13 DEF Inv

LEMMA CloseGood ==
  ASSUME Inv, NEW c \in Clients, Close(c)
  PROVE  Inv'
<1>1. /\ stage[c] # "closed" /\ eof' = eof \cup {c}
      /\ UNCHANGED <<in, withInput, big, req_len, stage, socket, taken, count, sent, running>>
  BY DEF Close, Connected, clientVars
<1>2. Types'
  BY <1>1 DEF Inv, Types
<1>3. ASSUME NEW x \in Clients PROVE InOrder(x)'
  <2>1. InOrder(x) /\ SameFor(in', in, x)
    BY <1>1 DEF Inv, SameFor
  <2>2. x \in eof' => x \in eof \/ stage[x] # "closed"
    BY <1>1
  <2> QED BY <1>1, <2>1, <2>2, Frame
<1>4. InStep'
  BY <1>1 DEF Inv, InStep
<1> QED BY <1>2, <1>3, <1>4 DEF Inv

-----------------------------------------------------------------------------
(* The inductive invariant.                                                *)

LEMMA InitGood == Init => Inv
<1> SUFFICES ASSUME Init PROVE Inv
  OBVIOUS
<1>1. /\ NewBuffer \in Buffer /\ <<>> \in Seq(Buffers) /\ <<>> \in Seq(W)
      /\ <<>> \in Seq(Request) /\ Len(<<>>) = 0
  BY NewBufferOf
<1>2. /\ in.input = [c \in Clients |-> None] /\ in.buffer = [b \in Buffers |-> NewBuffer]
      /\ in.free = <<>> /\ in.available = None /\ in \in InputType
  BY <1>1 DEF Init, InputType
<1>3. BuffersOK(in)
  <2>1. \A i \in 1 .. Len(in.free) : FALSE
    BY <1>2
  <2>2. \A c \in Clients : in.input[c] = None
    BY <1>2
  <2> QED BY <1>2, <2>1, <2>2 DEF BuffersOK
<1>4. Types
  BY <1>1, <1>3 DEF Init, Types, Stages
<1>5. ASSUME NEW c \in Clients PROVE InOrder(c)
  <2>1. After(in, c) = <<>>
    BY <1>2 DEF After
  <2> QED BY <2>1, NoneAssumption DEF Init, InOrder, NoConnection, Nobody
<1>6. InStep
  BY <1>2 DEF Init, InStep, PartOf
<1> QED BY <1>4, <1>5, <1>6 DEF Inv

LEMMA NextGood ==
  ASSUME ~ResetBig, Inv, [Next]_vars
  PROVE  Inv'
<1>1. CASE UNCHANGED vars
  <2>1. Types'
    BY <1>1 DEF Inv, Types, vars, clientVars, peerVars
  <2>2. ASSUME NEW x \in Clients PROVE InOrder(x)'
    <3>1. InOrder(x) /\ SameFor(in', in, x)
      BY <1>1 DEF Inv, SameFor, vars
    <3> QED BY <1>1, <3>1, Frame DEF vars, clientVars, peerVars
  <2>3. InStep'
    BY <1>1 DEF Inv, InStep, PartOf, BufferOf, vars, peerVars
  <2> QED BY <2>1, <2>2, <2>3 DEF Inv
<1>2. running.client # None => running.client \in Clients
  BY DEF Inv, Types, Nobody
<1>3. ASSUME NEW c \in Clients, ReadRequestFromClient(c) PROVE Inv'
  BY <1>3, ReadGood
<1>4. CASE ProcInitialConnection
  <2>1. running.client # None
    BY <1>4 DEF ProcInitialConnection
  <2> QED BY <1>2, <1>4, <2>1, ProcInitialConnectionGood
<1>5. ASSUME NEW e \in BOOLEAN, Execute(e) PROVE Inv'
  <2>1. running.client # None
    BY <1>5 DEF Execute
  <2> QED BY <1>2, <1>5, <2>1, ExecuteGood
<1>6. CASE Reset
  <2>1. running.client # None
    BY <1>6 DEF Reset
  <2> QED BY <1>2, <1>6, <2>1, ResetGood
<1>7. ASSUME NEW c \in Clients, Kill(c) PROVE Inv'
  BY <1>7, KillGood
<1>8. ASSUME NEW c \in Clients, NEW auth \in AuthLengths, Connect(c, auth) PROVE Inv'
  BY <1>8, ConnectGood
<1>9. ASSUME NEW c \in Clients, NEW len \in Lengths, NEW e \in BOOLEAN, Send(c, len, e)
      PROVE  Inv'
  BY <1>9, SendGood
<1>10. ASSUME NEW c \in Clients, Close(c) PROVE Inv'
  BY <1>10, CloseGood
<1> QED BY <1>1, <1>3, <1>4, <1>5, <1>6, <1>7, <1>8, <1>9, <1>10 DEF Next, Server, Peer

LEMMA Invariance == ASSUME ~ResetBig PROVE Spec => []Inv
<1>1. Init => Inv
  BY InitGood
<1>2. Inv /\ [Next]_vars => Inv'
  BY NextGood
<1> QED BY <1>1, <1>2, PTL DEF Spec

-----------------------------------------------------------------------------
(* The properties.                                                         *)

LEMMA InvBufferBounds == Inv => BufferBounds
<1> SUFFICES ASSUME Inv PROVE BufferBounds
  OBVIOUS
<1>1. Types /\ BuffersOK(in)
  BY DEF Inv, Types
<1>2. running.client \in Clients \cup {None}
  BY <1>1 DEF Types, Nobody
<1>3. ASSUME NEW b \in Used(in) PROVE Fits(in.buffer[b])
  <2>1. CASE b \in Range(in.input) \ {None}
    <3>1. PICK c \in Clients : in.input[c] = b /\ b # None
      BY <1>1, <2>1, InputFields DEF Range
    <3> QED BY <1>1, <3>1 DEF BuffersOK, BufferOf
  <2>2. CASE b \in ToSet(in.free)
    <3>1. PICK i \in 1 .. Len(in.free) : in.free[i] = b
      BY <1>1, <2>2, InputFields, LenProperties DEF ToSet
    <3> QED BY <1>1, <3>1 DEF BuffersOK
  <2> QED BY <1>3, <2>1, <2>2 DEF Used
<1>4. in \in InputType
  BY <1>1 DEF BuffersOK
<1>5. ASSUME NEW b \in Used(in)
      PROVE  LET i == in.buffer[b]
             IN  i.last <= Len(i.data) /\ bufcnt(i) + (IF i.part > 0 THEN 1 ELSE 0) <= i.size
  <2> DEFINE i == in.buffer[b]
  <2>1. b \in Buffers
    <3>1. CASE b \in Range(in.input) \ {None}
      BY <1>4, <3>1 DEF Range, InputType
    <3>2. CASE b \in ToSet(in.free)
      BY <1>4, <3>2, LenProperties DEF ToSet, InputType
    <3> QED BY <3>1, <3>2 DEF Used
  <2>2. i \in Buffer /\ Fits(i)
    BY <1>3, <1>4, <2>1 DEF InputType
  <2> HIDE DEF i
  <2>3. bufcnt(i) \in Nat /\ i.size \in Nat /\ i.part \in Nat
    BY <2>2, SizesAssumption DEF Buffer, bufcnt
  <2> QED BY <2>2, <2>3 DEF Fits, i
<1> QED BY <1>1, <1>2, <1>4, <1>5 DEF BufferBounds, Types

\* BufferBounds.  The words in a buffer fit into it and the last request is
\* within them, through MakeRoom, Receive, MoveHeader and InsertFakeRequest.
THEOREM BufferBoundsHold == ASSUME ~ResetBig PROVE Spec => []BufferBounds
BY Invariance, InvBufferBounds, PTL

LEMMA InvNoHiddenRequest == Inv => NoHiddenRequest
<1> SUFFICES ASSUME Inv, running = Nobody, NEW c \in Connected
             PROVE  WholeInBuffer(c) <=> c \in withInput
  BY DEF NoHiddenRequest
<1>1. c \in Clients /\ Connection(c) /\ BuffersOK(in)
  BY DEF Inv, Types, InOrder, Connected
<1>2. c \in withInput <=> Whole(After(in, c), c \in big)
  BY <1>1 DEF Connection
<1>3. CASE in.input[c] = None
  <2>1. After(in, c) = <<>> /\ Len(<<>>) = 0
    BY <1>1, <1>3, AfterType
  <2>2. ~Whole(After(in, c), c \in big)
    BY <2>1 DEF Whole
  <2> QED BY <1>2, <1>3, <2>2 DEF WholeInBuffer
<1>4. CASE in.input[c] # None
  <2> DEFINE a == Advance(BufferOf(in, c))
  <2>1. a \in Buffer /\ a.data = After(in, c) /\ a.data \in Seq(W)
    BY <1>1, <1>4, AfterType, AdvanceOf
  <2>2. WholeInBuffer(c) <=> WholeAt(a, c, 0)
    BY <1>4 DEF WholeInBuffer
  <2> HIDE DEF a
  <2>3. WholeAt(a, c, 0) <=> Whole(SubSeq(a.data, 0 + 1, Len(a.data)), c \in big)
    BY <2>1, LenProperties, WholeIs
  <2>4. SubSeq(a.data, 0 + 1, Len(a.data)) = a.data
    <3>1. 0 + 1 = 1
      OBVIOUS
    <3> QED BY <2>1, <3>1, SubSeqFull
  <2> QED BY <1>2, <2>1, <2>2, <2>3, <2>4
<1> QED BY <1>3, <1>4

\* NoHiddenRequest.  While nobody is served, ClientsWithInput names the clients
\* whose buffers hold a whole request, so that Dispatch sleeps on none of them.
THEOREM NoHiddenRequestHolds == ASSUME ~ResetBig PROVE Spec => []NoHiddenRequest
BY Invariance, InvNoHiddenRequest, PTL

LEMMA InvOneOwner == Inv => OneOwner
<1> SUFFICES ASSUME Inv PROVE OneOwner
  OBVIOUS
<1>1. BuffersOK(in)
  BY DEF Inv, Types
<1>2. DOMAIN in.free = 1 .. Len(in.free)
  BY <1>1, InputFields, LenProperties
<1>3. \A b : b \in ToSet(in.free) <=> \E i \in 1 .. Len(in.free) : b = in.free[i]
  BY <1>2 DEF ToSet
<1>4. IsInjective(in.free)
  BY <1>1, <1>2 DEF BuffersOK, IsInjective
<1>5. ASSUME NEW c \in Clients, in.input[c] # None
      PROVE  /\ in.input[c] \notin ToSet(in.free)
             /\ \A d \in Clients \ {c} : in.input[d] # in.input[c]
  BY <1>1, <1>3, <1>5 DEF BuffersOK
<1>6. \A b \in ToSet(in.free) : Empty(in.buffer[b])
  BY <1>1, <1>3 DEF BuffersOK
<1> QED BY <1>1, <1>4, <1>5, <1>6 DEF OneOwner, BuffersOK

\* OneOwner.  A buffer is one client's or free, and only an empty one is lent.
THEOREM OneOwnerHolds == ASSUME ~ResetBig PROVE Spec => []OneOwner
BY Invariance, InvOneOwner, PTL

-----------------------------------------------------------------------------
(* The stream of requests.                                                 *)

Current(c) == IF running.client = c /\ stage[c] # "prefix" THEN Head(sent[c]) ELSE None

\* The request that is executed is the first of those that have not been.
LEMMA NowIsCurrent ==
  Inv => /\ \A c \in Clients : Now(c) = Current(c)
         /\ \A c \in Clients : running.client = c =>
              sent[c] # <<>> /\ Head(sent[c]) \in Request
<1> SUFFICES ASSUME Inv, NEW c \in Clients, running.client = c
             PROVE  /\ sent[c] # <<>> /\ Head(sent[c]) \in Request
                    /\ stage[c] # "prefix" => Now(c) = Head(sent[c])
  BY DEF Now, Current
<1> DEFINE rs == sent[c]
           h == Head(rs)
           match == {r \in ToSet(rs) : Contents(r) = running.words}
<1>1. Numbered(c) /\ Served(c)
  BY DEF Inv, InOrder, NoConnection, Connection
<1>2. /\ rs \in Seq(Request) /\ rs # <<>> /\ h \in Request /\ h = rs[1]
      /\ 1 \in 1 .. Len(rs) /\ DOMAIN rs = 1 .. Len(rs)
  BY <1>1, HeadTailProperties, EmptySeq, LenProperties DEF Numbered, Served
<1>3. ASSUME stage[c] # "prefix" PROVE Now(c) = h
  <2>1. running.words = Contents(h)
    BY <1>1, <1>3 DEF Served
  <2>2. h \in match
    BY <1>2, <2>1 DEF ToSet
  <2>3. ASSUME NEW r \in match PROVE r = h
    <3>1. PICK i \in 1 .. Len(rs) : r = rs[i]
      BY <1>2 DEF ToSet
    <3>2. rs[i] \in Request /\ (rs[i].big => rs[i].len > 1) /\ (h.big => h.len > 1)
      BY <1>1, <1>2, ElementOfSeq DEF Numbered
    <3>3. Contents(rs[i])[1] = Header(rs[i]) /\ Contents(h)[1] = Header(h)
      BY <1>2, <3>2, ContentsOf
    <3>4. Header(rs[i]).req = rs[i].id /\ Header(h).req = h.id
      BY <1>2, <3>2, WordsOf
    <3>5. Contents(rs[i]) = Contents(h)
      BY <2>1, <3>1
    <3>6. rs[i].id = rs[1].id
      BY <1>2, <3>3, <3>4, <3>5
    <3>7. i = 1
      BY <1>1, <1>2, <3>6 DEF Numbered
    <3> QED BY <1>2, <3>1, <3>7
  <2>4. Now(c) = CHOOSE r \in match : TRUE
    BY <1>3, <2>2 DEF Now
  <2> HIDE DEF match, h
  <2> QED BY <2>2, <2>3, <2>4
<1> QED BY <1>2, <1>3

LEMMA NobodyCurrent ==
  ASSUME running.client = None
  PROVE  \A c \in Clients : Current(c) = None
BY NoneAssumption DEF Current

\* Every step is one of RequestStream, with now for the current requests.
LEMMA CloseDownStep ==
  ASSUME Inv, NEW c \in Clients, NEW s, CloseDown(s, c)
  PROVE  /\ sent' = [sent EXCEPT ![c] = <<>>]
         /\ Current(c)' = None
         /\ \A d \in Clients \ {c} : Current(d)' = Current(d)
<1>1. /\ sent' = [sent EXCEPT ![c] = <<>>]
      /\ stage' = [stage EXCEPT ![c] = "closed"]
      /\ running' = IF running.client = c THEN Nobody ELSE running
  BY DEF CloseDown
<1>2. None \notin Clients /\ stage \in [Clients -> Stages] /\ sent \in [Clients -> Seq(Request)]
  BY NoneAssumption DEF Inv, Types
<1>3. running'.client # c
  BY <1>1, <1>2 DEF Nobody
<1>4. ASSUME NEW d \in Clients, d # c PROVE Current(d)' = Current(d)
  <2>1. stage'[d] = stage[d] /\ sent'[d] = sent[d]
    BY <1>1, <1>2, <1>4
  <2>2. running'.client = d <=> running.client = d
    BY <1>1, <1>2, <1>4 DEF Nobody
  <2> QED BY <2>1, <2>2 DEF Current
<1> QED BY <1>1, <1>3, <1>4 DEF Current

LEMMA ReadOutcome ==
  ASSUME NEW c \in Clients, ReadRequestFromClient(c)
  PROVE  \/ \E s : CloseDown(s, c)
         \/ /\ \E s, b, m : ReturnRequest(s, c, b, m)
            /\ running = Nobody /\ stage' = stage /\ sent' = sent
         \/ running' = running /\ stage' = stage /\ sent' = sent
<1> DEFINE s == TakeBuffer(GiveAvailable(in, c), c)
           b == Advance(BufferOf(s, c))
           needed == Needed(b, c)
           m == MakeRoom(b, needed)
           room == m.size - bufcnt(m)
           header == NeedHeader(b, c)
<1>1. /\ running = Nobody
      /\ \/ /\ ReturnRequest(s, c, b, needed)
            /\ UNCHANGED <<big, stage, peerVars, sent>>
         \/ CloseDown(s, c)
         \/ /\ NoWholeRequest(s, c, m)
            /\ UNCHANGED <<big, stage, peerVars, sent>>
         \/ /\ \E n \in 0 .. room, p \in 0 .. WordBytes - 1 :
                 /\ n < room \/ p = 0
                 /\ ReadMore(s, c, m, needed, header, n, p)
            /\ UNCHANGED <<big, stage, eof, count, sent>>
  BY Zenon DEF ReadRequestFromClient
<1> HIDE DEF s, b, needed, m, room, header
<1>2. ASSUME NEW n, NEW p, ReadMore(s, c, m, needed, header, n, p)
      PROVE  \E x, k : ReturnRequest(s, c, x, k) \/ NoWholeRequest(s, c, x)
  BY <1>2, Zenon DEF ReadMore
<1>3. ASSUME NEW x, NoWholeRequest(s, c, x) PROVE running' = running
  BY <1>3 DEF NoWholeRequest
<1> QED BY <1>1, <1>2, <1>3

LEMMA StreamStep ==
  ASSUME ~ResetBig, Inv, Inv', Next,
         \A c \in Clients : running.client = c => sent[c] # <<>> /\ Head(sent[c]) \in Request,
         \A c \in Clients : running'.client = c => sent'[c] # <<>>
  PROVE  \/ sent' = sent /\ \A d \in Clients : Current(d)' = Current(d)
         \/ \E c \in Clients :
              /\ \A d \in Clients \ {c} : Current(d)' = Current(d) /\ sent'[d] = sent[d]
              /\ \/ /\ sent[c] = <<>> /\ Current(c) = None /\ Current(c)' = None
                    /\ \E r \in Request : sent' = [sent EXCEPT ![c] = <<r>>]
                 \/ /\ Current(c)' = Current(c)
                    /\ \E r \in Request : sent' = [sent EXCEPT ![c] = Append(@, r)]
                 \/ /\ \A d \in Clients : Current(d) = None
                    /\ sent[c] # <<>> /\ sent' = sent /\ Current(c)' = Head(sent[c])
                 \/ Current(c) # None /\ Current(c)' = None /\ sent' = sent
                 \/ /\ Current(c) # None /\ Current(c)' = None
                    /\ sent' = [sent EXCEPT ![c] = Tail(@)]
                 \/ sent' = [sent EXCEPT ![c] = <<>>] /\ Current(c)' = None
<1> DEFINE Stutter == sent' = sent /\ \A d \in Clients : Current(d)' = Current(d)
           Others(c) == \A d \in Clients \ {c} : Current(d)' = Current(d) /\ sent'[d] = sent[d]
           Opened(c) == /\ sent[c] = <<>> /\ Current(c) = None /\ Current(c)' = None
                        /\ \E r \in Request : sent' = [sent EXCEPT ![c] = <<r>>]
           Sent(c) == /\ Current(c)' = Current(c)
                      /\ \E r \in Request : sent' = [sent EXCEPT ![c] = Append(@, r)]
           Begun(c) == /\ \A d \in Clients : Current(d) = None
                       /\ sent[c] # <<>> /\ sent' = sent /\ Current(c)' = Head(sent[c])
           Later(c) == Current(c) # None /\ Current(c)' = None /\ sent' = sent
           Done(c) == /\ Current(c) # None /\ Current(c)' = None
                      /\ sent' = [sent EXCEPT ![c] = Tail(@)]
           Gone(c) == sent' = [sent EXCEPT ![c] = <<>>] /\ Current(c)' = None
           Step(c) == Others(c) /\ (Opened(c) \/ Sent(c) \/ Begun(c) \/ Later(c) \/ Done(c) \/ Gone(c))
<1> SUFFICES Stutter \/ \E c \in Clients : Step(c)
  BY Zenon
<1>1. /\ Types /\ None \notin Clients /\ None \notin Request
      /\ stage \in [Clients -> Stages] /\ sent \in [Clients -> Seq(Request)]
      /\ running.client # None => running.client \in Clients
      /\ Nobody.client = None
  <2> HIDE DEF Stutter, Others, Opened, Sent, Begun, Later, Done, Gone, Step
  <2>1. None \notin Clients /\ None \notin Request
    BY NoneAssumption
  <2>2. Types
    BY DEF Inv
  <2>3. Nobody.client = None
    BY DEF Nobody
  <2>4. running = Nobody \/ running.client \in Clients
    BY <2>2 DEF Types
  <2>5. stage \in [Clients -> Stages] /\ sent \in [Clients -> Seq(Request)]
    BY <2>2 DEF Types
  <2> QED BY <2>1, <2>2, <2>3, <2>4, <2>5
<1>2. ASSUME NEW c \in Clients, NEW s, CloseDown(s, c) PROVE Step(c)
  <2>1. /\ Gone(c) /\ \A d \in Clients \ {c} : Current(d)' = Current(d)
        /\ \A d \in Clients \ {c} : sent'[d] = sent[d]
    BY <1>1, <1>2, CloseDownStep
  <2> QED BY <2>1
<1>3. ASSUME NEW c \in Clients, NEW s, NEW b, NEW n, ReturnRequest(s, c, b, n),
             running = Nobody, stage' = stage, sent' = sent
      PROVE  Stutter \/ Step(c)
  <2>1. running'.client = c
    BY <1>3 DEF ReturnRequest
  <2>2. \A d \in Clients : Current(d) = None
    BY <1>1, <1>3, NobodyCurrent
  <2>3. \A d \in Clients \ {c} : Current(d)' = None
    BY <2>1 DEF Current
  <2>4. CASE stage[c] = "prefix"
    <3>1. Current(c)' = None
      BY <1>3, <2>4 DEF Current
    <3> QED BY <1>3, <2>2, <2>3, <3>1
  <2>5. CASE stage[c] # "prefix"
    <3>1. Current(c)' = Head(sent[c]) /\ sent[c] # <<>>
      BY <1>3, <2>1, <2>5 DEF Current
    <3> QED BY <1>3, <2>2, <2>3, <3>1
  <2> QED BY <2>4, <2>5
<1>4. ASSUME NEW c \in Clients, ReadRequestFromClient(c) PROVE Stutter \/ Step(c)
  <2>1. \/ \E s : CloseDown(s, c)
        \/ /\ \E s, b, m : ReturnRequest(s, c, b, m)
           /\ running = Nobody /\ stage' = stage /\ sent' = sent
        \/ running' = running /\ stage' = stage /\ sent' = sent
    BY <1>4, ReadOutcome
  <2>2. CASE running' = running /\ stage' = stage /\ sent' = sent
    BY <2>2 DEF Current
  <2> QED BY <1>2, <1>3, <2>1, <2>2
<1>5. CASE ProcInitialConnection
  <2>1. running.client \in Clients /\ stage[running.client] = "prefix"
        /\ running' = Nobody /\ sent' = sent
    BY <1>1, <1>5 DEF ProcInitialConnection
  <2>2. \A d \in Clients : Current(d) = None /\ Current(d)' = None
    BY <1>1, <2>1 DEF Current
  <2> QED BY <2>1, <2>2
<1>6. ASSUME NEW e \in BOOLEAN, Execute(e), NEW c \in Clients, running.client = c PROVE Step(c)
  <2>1. stage[c] # "prefix" /\ running' = Nobody /\ sent' = [sent EXCEPT ![c] = Tail(@)]
    BY <1>6 DEF Execute
  <2>2. \A d \in Clients : Current(d)' = None
    BY <1>1, <2>1 DEF Current
  <2>3. Current(c) = Head(sent[c]) /\ Current(c) # None
    BY <1>1, <1>6, <2>1 DEF Current
  <2>4. \A d \in Clients \ {c} : Current(d) = None /\ sent'[d] = sent[d]
    BY <1>1, <1>6, <2>1 DEF Current
  <2> QED BY <2>1, <2>2, <2>3, <2>4
<1>7. ASSUME Reset, NEW c \in Clients, running.client = c PROVE Step(c)
  <2>1. stage[c] = "open" /\ running' = Nobody /\ sent' = sent
    BY <1>7 DEF Reset
  <2>2. \A d \in Clients : Current(d)' = None
    BY <1>1, <2>1 DEF Current
  <2>3. Current(c) = Head(sent[c]) /\ Current(c) # None
    BY <1>1, <1>7, <2>1 DEF Current
  <2>4. \A d \in Clients \ {c} : Current(d) = None
    BY <1>1, <1>7 DEF Current
  <2> QED BY <2>1, <2>2, <2>3, <2>4
<1>8. ASSUME NEW c \in Clients, Kill(c) PROVE Step(c)
  BY <1>2, <1>8 DEF Kill
<1>9. ASSUME NEW c \in Clients, NEW auth \in AuthLengths, Connect(c, auth) PROVE Step(c)
  <2>1. /\ stage[c] = "closed" /\ running = Nobody /\ running' = running
        /\ sent' = [sent EXCEPT ![c] = <<Setup(auth)>>]
    BY <1>9 DEF Connect, Connected
  <2>2. sent[c] = <<>>
    BY <2>1 DEF Inv, InOrder, NoConnection
  <2>3. Setup(auth) \in Request
    BY SetupOf
  <2>4. \A d \in Clients : Current(d) = None /\ Current(d)' = None
    BY <1>1, <2>1 DEF Current
  <2>5. \A d \in Clients \ {c} : sent'[d] = sent[d]
    BY <1>1, <2>1
  <2> QED BY <2>1, <2>2, <2>3, <2>4, <2>5
<1>10. ASSUME NEW c \in Clients, NEW len \in Lengths, NEW e \in BOOLEAN, Send(c, len, e)
       PROVE  Step(c)
  <2> DEFINE r == [id |-> count[c] + 1, len |-> len, big |-> e]
  <2>1. /\ count[c] < MaxRequests /\ sent' = [sent EXCEPT ![c] = Append(@, r)]
        /\ running' = running /\ stage' = stage
    BY <1>10 DEF Send, clientVars
  <2>2. r \in Request
    <3>1. count[c] \in Nat /\ len \in 1 .. MAXBUFSIZE
      BY <1>1, LengthsAssumption DEF Types
    <3>2. count[c] + 1 \in 0 .. MaxRequests
      BY <2>1, <3>1, BoundsAssumption
    <3> QED BY <3>1, <3>2 DEF Request
  <2> HIDE DEF r
  <2>3. \A d \in Clients \ {c} : sent'[d] = sent[d] /\ Current(d)' = Current(d)
    BY <1>1, <2>1 DEF Current
  <2>4. Current(c)' = Current(c)
    <3>1. CASE running.client = c
      <4>1. sent[c] \in Seq(Request) /\ sent[c] # <<>>
        BY <1>1, <3>1
      <4>2. Head(Append(sent[c], r)) = Head(sent[c])
        BY <2>2, <4>1, HeadTailAppend
      <4>3. sent'[c] = Append(sent[c], r)
        BY <1>1, <2>1
      <4> QED BY <2>1, <4>2, <4>3 DEF Current
    <3>2. CASE running.client # c
      BY <2>1, <3>2 DEF Current
    <3> QED BY <3>1, <3>2
  <2> QED BY <2>1, <2>2, <2>3, <2>4
<1>11. ASSUME NEW c \in Clients, Close(c) PROVE Stutter
  BY <1>11 DEF Close, clientVars, Current
<1> HIDE DEF Stutter, Step
<1>12. CASE \E e \in BOOLEAN : Execute(e)
  <2>1. running.client \in Clients
    BY <1>1, <1>12 DEF Execute
  <2> QED BY <1>6, <1>12, <2>1
<1>13. CASE Reset
  <2>1. running.client \in Clients
    BY <1>1, <1>13 DEF Reset
  <2> QED BY <1>7, <1>13, <2>1
<1>14. CASE \E c \in Clients : ReadRequestFromClient(c)
  BY <1>4, <1>14
<1>15. CASE \E c \in Clients : Kill(c)
  BY <1>8, <1>15
<1>16. CASE Peer
  BY <1>9, <1>10, <1>11, <1>16 DEF Peer
<1> QED BY <1>5, <1>12, <1>13, <1>14, <1>15, <1>16 DEF Next, Server

LEMMA NowIsCurrentNext ==
  Inv' => /\ \A c \in Clients : Now(c)' = Current(c)'
          /\ \A c \in Clients : running'.client = c => sent'[c] # <<>>
<1>1. (Inv => /\ \A c \in Clients : Now(c) = Current(c)
              /\ \A c \in Clients : running.client = c => sent[c] # <<>>)'
  <2>1. Inv => /\ \A c \in Clients : Now(c) = Current(c)
               /\ \A c \in Clients : running.client = c => sent[c] # <<>>
    BY NowIsCurrent
  <2> QED BY <2>1, PTL
<1> QED BY <1>1

LEMMA StreamInit == Init => Stream!Init
<1> SUFFICES ASSUME Init PROVE Stream!Init
  OBVIOUS
<1>1. \A c \in Clients : Now(c) = None
  BY NoneAssumption DEF Init, Now, Nobody
<1>2. [c \in Clients |-> Now(c)] = [c \in Clients |-> None]
  BY <1>1
<1> QED BY <1>2 DEF Init, Stream!Init

LEMMA StreamNext ==
  ASSUME ~ResetBig, Inv, Inv', [Next]_vars
  PROVE  [Stream!Next]_<<sent, [c \in Clients |-> Now(c)]>>
<1> DEFINE now == [c \in Clients |-> Now(c)]
           nxt == [c \in Clients |-> Now(c)']
<1>1. CASE UNCHANGED vars
  <2>1. \A c \in Clients : Now(c)' = Now(c)
    BY <1>1 DEF Now, vars, clientVars
  <2>2. now = nxt
    BY <2>1
  <2> QED BY <1>1, <2>2 DEF vars
<1>2. CASE Next
  <2>1. \A c \in Clients : Now(c) = Current(c) /\ Now(c)' = Current(c)'
    BY NowIsCurrent, NowIsCurrentNext
  <2>2. /\ now = [c \in Clients |-> Current(c)] /\ nxt = [c \in Clients |-> Current(c)']
        /\ \A c \in Clients : now[c] = Current(c) /\ nxt[c] = Current(c)'
    BY <2>1
  <2>3. sent \in [Clients -> Seq(Request)] /\ sent' \in [Clients -> Seq(Request)]
    BY DEF Inv, Types
  <2> DEFINE Stutter == sent' = sent /\ \A d \in Clients : Current(d)' = Current(d)
             Others(c) == \A d \in Clients \ {c} : Current(d)' = Current(d) /\ sent'[d] = sent[d]
             Opened(c) == /\ sent[c] = <<>> /\ Current(c) = None /\ Current(c)' = None
                          /\ \E r \in Request : sent' = [sent EXCEPT ![c] = <<r>>]
             Sent(c) == /\ Current(c)' = Current(c)
                        /\ \E r \in Request : sent' = [sent EXCEPT ![c] = Append(@, r)]
             Begun(c) == /\ \A d \in Clients : Current(d) = None
                         /\ sent[c] # <<>> /\ sent' = sent /\ Current(c)' = Head(sent[c])
             Later(c) == Current(c) # None /\ Current(c)' = None /\ sent' = sent
             Done(c) == /\ Current(c) # None /\ Current(c)' = None
                        /\ sent' = [sent EXCEPT ![c] = Tail(@)]
             Gone(c) == sent' = [sent EXCEPT ![c] = <<>>] /\ Current(c)' = None
             Step(c) == Others(c) /\ (Opened(c) \/ Sent(c) \/ Begun(c) \/ Later(c)
                                      \/ Done(c) \/ Gone(c))
  <2>4. Stutter \/ \E c \in Clients : Step(c)
    BY <1>2, NowIsCurrent, NowIsCurrentNext, StreamStep, Zenon
  <2>5. CASE Stutter
    <3>1. now = nxt
      BY <2>2, <2>5
    <3> QED BY <2>5, <3>1
  <2>6. ASSUME NEW c \in Clients, Step(c) PROVE Stream!Next
    <3> HIDE DEF now, nxt
    <3>1. nxt = [now EXCEPT ![c] = Current(c)'] /\ now[c] = Current(c)
      BY <2>2, <2>6
    <3>2. Current(c)' = Current(c) => nxt = now
      BY <2>2, <2>6
    <3>3. ASSUME Opened(c) PROVE Stream!Connect(c)
      <4>1. nxt = now
        BY <3>2, <3>3
      <4> QED BY <3>1, <3>3, <4>1 DEF Stream!Connect, now, nxt
    <3>4. ASSUME Sent(c) PROVE Stream!Send(c)
      <4>1. nxt = now
        BY <3>2, <3>4
      <4> QED BY <3>4, <4>1 DEF Stream!Send, now, nxt
    <3>5. ASSUME Begun(c) PROVE Stream!Begin(c)
      <4>1. \A d \in Clients : now[d] = None
        BY <2>2, <3>5
      <4>2. nxt = [now EXCEPT ![c] = Head(sent[c])]
        BY <3>1, <3>5
      <4> QED BY <3>5, <4>1, <4>2 DEF Stream!Begin, now, nxt
    <3>6. ASSUME Later(c) PROVE Stream!Again(c)
      <4>1. now[c] # None /\ nxt = [now EXCEPT ![c] = None]
        BY <3>1, <3>6
      <4> QED BY <3>6, <4>1 DEF Stream!Again, now, nxt
    <3>7. ASSUME Done(c) PROVE Stream!Finish(c)
      <4>1. now[c] # None /\ nxt = [now EXCEPT ![c] = None]
        BY <3>1, <3>7
      <4> QED BY <3>7, <4>1 DEF Stream!Finish, now, nxt
    <3>8. ASSUME Gone(c) PROVE Stream!Close(c)
      <4>1. nxt = [now EXCEPT ![c] = None]
        BY <3>1, <3>8
      <4> QED BY <3>8, <4>1 DEF Stream!Close, now, nxt
    <3> QED BY <2>6, <3>3, <3>4, <3>5, <3>6, <3>7, <3>8 DEF Stream!Next
  <2> QED BY <2>4, <2>5, <2>6
<1> QED BY <1>1, <1>2

\* ImplementsStream.  The request procs are given the requests that were sent,
\* whole, each once and in order, and again when they reset them, at whatever byte
\* read() cuts the stream and whoever's buffer the words go through.
THEOREM Implements == ASSUME ~ResetBig PROVE Spec => ImplementsStream
<1>1. Init => Stream!Init
  BY StreamInit
<1>2. ~ResetBig => (Inv /\ Inv' /\ [Next]_vars => [Stream!Next]_<<sent, [c \in Clients |-> Now(c)]>>)
  BY StreamNext
<1>3. ~ResetBig
  OBVIOUS
<1> QED BY <1>1, <1>2, <1>3, Invariance, PTL DEF Spec, ImplementsStream, Stream!Spec

================================================================================
