------------------------- MODULE RecordCodecProofs -------------------------
(***************************************************************************)
(* What the readers of src/record_codec.cpp make of what its writers wrote: *)
(* for every value of every field of all 22 record types, and at any limits *)
(* of texts and lists, a reader that does not refuse gives back exactly the *)
(* record.  So the file of LedgerFile, with this codec in it, loads as what *)
(* was saved, with no assumption about the codec left.                      *)
(*                                                                          *)
(* The proof goes up the levels of the codec: a token or a text, the parts  *)
(* of a group, the elements of a list, the fields of a layout, a body, a    *)
(* record.  At each level: what is written stands in the wire after the     *)
(* cursor, and a reader that is still ok has moved over it and holds it.    *)
(***************************************************************************)
EXTENDS LedgerFileProofs, EncodedFile

(* What tokens and values are taken from: numbers, and all sequences of its *)
(* own members (a text, a digest, a group).  The finite sequences of finite *)
(* sequences ... of numbers, to any depth, are such a set.                  *)
Closed(T) == Nat \subseteq T /\ Seq(T) \subseteq T

LEMMA InClosed ==
  ASSUME NEW T, Closed(T)
  PROVE  /\ \A n \in Nat : n \in T
         /\ \A s \in Seq(T) : s \in T /\ Len(s) \in Nat
         /\ << >> \in Seq(T)
         /\ \A x \in T : << x >> \in Seq(T)
         /\ \A x, y \in T : << x, y >> \in Seq(T)
         /\ \A x, y, z \in T : << x, y, z >> \in Seq(T)
  BY DEF Closed

-----------------------------------------------------------------------------
(* Cursors: a reader, and how a step leaves it. *)

Cursor(r) == r = [ ok |-> r.ok, at |-> r.at, value |-> r.value ]

(* s is the cursor r, moved over the encoding e of v, unless it was refused. *)
Passes(r, s, e, v) ==
  s.ok => r.ok /\ s.at = r.at + Len(e) /\ s.value = Append(r.value, v)

LEMMA StartingCursor ==
  ASSUME NEW at
  PROVE  /\ Cursor(Reader(at)) /\ Reader(at).ok
         /\ Reader(at).at = at /\ Reader(at).value = << >>
  BY DEF Reader, Cursor

LEMMA FailedCursor ==
  ASSUME NEW r, Cursor(r)
  PROVE  Cursor(Failed(r)) /\ ~Failed(r).ok
<1> DEFINE o == r.ok
           a == r.at
           v == r.value
           no == FALSE
<1>1. r = [ ok |-> o, at |-> a, value |-> v ]
  BY DEF Cursor
<1> HIDE DEF o, a, v, no
<1>2. [ [ ok |-> o, at |-> a, value |-> v ] EXCEPT !.ok = no ]
        = [ ok |-> no, at |-> a, value |-> v ]
  OBVIOUS
<1>3. Failed(r) = [ [ ok |-> o, at |-> a, value |-> v ] EXCEPT !.ok = no ]
  BY <1>1, Zenon DEF Failed, no
<1>4. Failed(r) = [ ok |-> FALSE, at |-> a, value |-> v ]
  BY <1>2, <1>3, Zenon DEF no
<1> QED BY <1>4 DEF Cursor

LEMMA TookCursor ==
  ASSUME NEW r, NEW n, NEW v
  PROVE  /\ Cursor(Took(r, n, v))
         /\ Took(r, n, v).ok = r.ok /\ Took(r, n, v).at = r.at + n
         /\ Took(r, n, v).value = Append(r.value, v)
  BY DEF Took, Cursor

LEMMA NestedCursor ==
  ASSUME NEW r, Cursor(r), NEW q, Cursor(q)
  PROVE  LET s == Nested(r, q) IN
         /\ Cursor(s)
         /\ s.ok => r.ok /\ q.ok /\ s.at = q.at /\ s.value = Append(r.value, q.value)
<1> DEFINE s == Nested(r, q)
           o == q.ok
           a == q.at
           v == q.value
           w == Append(r.value, v)
<1>1. CASE r.ok
  <2>1. q = [ ok |-> o, at |-> a, value |-> v ]
    BY DEF Cursor
  <2>2. s = [ q EXCEPT !.value = w ]
    BY <1>1 DEF Nested
  <2> HIDE DEF o, a, v, w, s
  <2>3. [ [ ok |-> o, at |-> a, value |-> v ] EXCEPT !.value = w ]
          = [ ok |-> o, at |-> a, value |-> w ]
    OBVIOUS
  <2>4. s = [ ok |-> o, at |-> a, value |-> w ]
    BY <2>1, <2>2, <2>3, Zenon
  <2>5. Cursor(s) /\ s.ok = o /\ s.at = a /\ s.value = w
    BY <2>4 DEF Cursor
  <2> QED BY <1>1, <2>5 DEF o, a, v, w, s
<1>2. CASE ~r.ok
  <2>1. s = r
    BY <1>2 DEF Nested
  <2> QED BY <1>2, <2>1
<1> QED BY <1>1, <1>2

LEMMA NestedKeeps ==
  ASSUME NEW r, r.ok, NEW q, Cursor(q), q.ok
  PROVE  Nested(r, q).ok
<1> DEFINE o == q.ok
           a == q.at
           v == q.value
           w == Append(r.value, v)
<1>1. q = [ ok |-> o, at |-> a, value |-> v ]
  BY DEF Cursor
<1>2. Nested(r, q) = [ q EXCEPT !.value = w ]
  BY DEF Nested
<1> HIDE DEF o, a, v, w
<1>3. [ [ ok |-> o, at |-> a, value |-> v ] EXCEPT !.value = w ].ok = o
  OBVIOUS
<1>4. Nested(r, q).ok = o
  BY <1>1, <1>2, <1>3, Zenon
<1> QED BY <1>4 DEF o

LEMMA NamedKeeps ==
  ASSUME NEW r, r.ok, NEW q, Cursor(q), q.ok, NEW name
  PROVE  Named(name, r, q).ok
<1> DEFINE o == q.ok
           a == q.at
           v == q.value
           w == WithField(r.value, name, v[1])
<1>1. q = [ ok |-> o, at |-> a, value |-> v ]
  BY DEF Cursor
<1>2. Named(name, r, q) = [ q EXCEPT !.value = w ]
  BY DEF Named
<1> HIDE DEF o, a, v, w
<1>3. [ [ ok |-> o, at |-> a, value |-> v ] EXCEPT !.value = w ].ok = o
  OBVIOUS
<1>4. Named(name, r, q).ok = o
  BY <1>1, <1>2, <1>3, Zenon
<1> QED BY <1>4 DEF o

LEMMA NamedCursor ==
  ASSUME NEW r, Cursor(r), NEW q, Cursor(q), NEW name
  PROVE  LET s == Named(name, r, q) IN
         /\ Cursor(s)
         /\ s.ok => /\ r.ok /\ q.ok /\ s.at = q.at
                    /\ s.value = WithField(r.value, name, q.value[1])
<1> DEFINE s == Named(name, r, q)
           o == q.ok
           a == q.at
           v == q.value
           w == WithField(r.value, name, v[1])
<1>1. CASE r.ok /\ q.ok
  <2>1. q = [ ok |-> o, at |-> a, value |-> v ]
    BY DEF Cursor
  <2>2. s = [ q EXCEPT !.value = w ]
    BY <1>1 DEF Named
  <2> HIDE DEF o, a, v, w, s
  <2>3. [ [ ok |-> o, at |-> a, value |-> v ] EXCEPT !.value = w ]
          = [ ok |-> o, at |-> a, value |-> w ]
    OBVIOUS
  <2>4. s = [ ok |-> o, at |-> a, value |-> w ]
    BY <2>1, <2>2, <2>3, Zenon
  <2>5. Cursor(s) /\ s.ok = o /\ s.at = a /\ s.value = w
    BY <2>4 DEF Cursor
  <2> QED BY <1>1, <2>5 DEF o, a, v, w, s
<1>2. CASE ~(r.ok /\ q.ok)
  <2>1. s = Failed(r)
    BY <1>2 DEF Named
  <2> QED BY <2>1, FailedCursor
<1> QED BY <1>1, <1>2

-----------------------------------------------------------------------------
(* One simple field: a token, a text, a tagged number or a subject. *)

TokenKind == { "word", "finite", "boolean", "byte", "enum", "code" }

(* The reader g expects what the writer f writes. *)
Same(f, g) ==
  \/ f = g /\ f.is \in { "text", "subject" }
  \/ f = g /\ f.is = "tagged" /\ f.n \in Nat
  \/ f.is \in TokenKind /\ g.is \in TokenKind

IsSimple(f, v, T) ==
  /\ v \in T
  /\ f.is = "text" => v \in Seq(T)
  /\ f.is = "subject" => v = << 0, 0 >> \/ v \in (1 .. 12) \X T

LEMMA TagsAreNumbers == \A kind \in 1 .. 12 : DomainOf[kind] \in Nat
<1>1. SUFFICES ASSUME NEW kind \in 1 .. 12 PROVE DomainOf[kind] \in Nat
  OBVIOUS
<1> QED BY DEF DomainOf, Domain

LEMMA SimpleCursor ==
  ASSUME NEW g, NEW wire, NEW r, Cursor(r)
  PROVE  LET s == ReadSimple(g, wire, r) IN Cursor(s) /\ (s.ok => r.ok)
<1> DEFINE s == ReadSimple(g, wire, r)
<1>1. \/ s = r \/ s = Failed(r) \/ \E n, v : s = Took(r, n, v)
  BY DEF ReadSimple, ReadText, ReadTagged, ReadSubject, ReadToken
<1> HIDE DEF s
<1>2. CASE s = Failed(r)
  BY <1>2, FailedCursor DEF s
<1>3. CASE \E n, v : s = Took(r, n, v)
  BY <1>3, TookCursor DEF s
<1> QED BY <1>1, <1>2, <1>3 DEF s

LEMMA SimpleWritten ==
  ASSUME NEW T, Closed(T), NEW f, NEW g, Same(f, g), NEW v, IsSimple(f, v, T)
  PROVE  WriteSimple(f, v) \in Seq(T)
<1>1. CASE f.is = "text"
  <2>1. v \in Seq(T) /\ << Len(v) >> \in Seq(T)
    BY <1>1, InClosed DEF IsSimple
  <2>2. << Len(v) >> \o v \in Seq(T)
    BY <2>1, Joining
  <2> QED BY <1>1, <2>2 DEF WriteSimple
<1>2. CASE f.is = "tagged"
  <2>1. << f.n, v >> \in Seq(T)
    BY <1>2, InClosed DEF Same, IsSimple, TokenKind
  <2> QED BY <1>2, <2>1 DEF WriteSimple
<1>3. CASE f.is = "subject"
  <2>1. CASE v = << 0, 0 >>
    <3>1. << 0 >> \in Seq(T) /\ v[1] = 0
      BY <2>1, InClosed
    <3> QED BY <1>3, <3>1 DEF WriteSimple
  <2>2. CASE v \in (1 .. 12) \X T
    <3>1. v[1] \in 1 .. 12 /\ v[2] \in T /\ DomainOf[v[1]] \in Nat
      BY <2>2, TagsAreNumbers
    <3>2. << v[1], DomainOf[v[1]], v[2] >> \in Seq(T) /\ v[1] # 0
      BY <3>1, InClosed
    <3> QED BY <1>3, <3>2 DEF WriteSimple
  <2> QED BY <1>3, <2>1, <2>2 DEF IsSimple
<1>4. CASE f.is \in TokenKind
  <2>1. << v >> \in Seq(T)
    BY InClosed DEF IsSimple
  <2> QED BY <1>4, <2>1 DEF WriteSimple, TokenKind
<1> QED BY <1>1, <1>2, <1>3, <1>4 DEF Same

LEMMA Tokens ==
  ASSUME NEW T, NEW x \in T, NEW e \in Seq(T)
  PROVE  /\ << x >> \o e \in Seq(T) /\ Len(<< x >> \o e) = 1 + Len(e)
         /\ \A wire \in Seq(T), at \in Nat : Stands(<< x >> \o e, wire, at) =>
              at + 1 \in Nat /\ wire[at + 1] = x /\ Stands(e, wire, at + 1)
<1> DEFINE one == << x >>
           all == one \o e
<1>1. one \in Seq(T) /\ Len(one) = 1 /\ one[1] = x
  OBVIOUS
<1> HIDE DEF one
<1>2. /\ all \in Seq(T) /\ Len(all) = 1 + Len(e)
      /\ Stands(one, all, 0) /\ Stands(e, all, 1)
  BY <1>1, JoinedStand
<1> HIDE DEF all
<1>3. ASSUME NEW wire \in Seq(T), NEW at \in Nat, Stands(all, wire, at)
      PROVE  at + 1 \in Nat /\ wire[at + 1] = x /\ Stands(e, wire, at + 1)
  <2>1. Stands(one, wire, at + 0) /\ Stands(e, wire, at + 1)
    BY <1>1, <1>2, <1>3, StandsInside
  <2>2. wire[at + 1] = x
    BY <1>1, <2>1 DEF Stands
  <2> QED BY <2>1, <2>2
<1> QED BY <1>2, <1>3 DEF all, one

(* What the reader makes of one simple field: what was written. *)
LEMMA SimpleRead ==
  ASSUME NEW T, Closed(T), NEW wire \in Seq(T),
         NEW f, NEW g, Same(f, g), NEW v, IsSimple(f, v, T),
         NEW r, Cursor(r), r.at \in Nat, Stands(WriteSimple(f, v), wire, r.at)
  PROVE  Passes(r, ReadSimple(g, wire, r), WriteSimple(f, v), v)
<1> DEFINE at == r.at
           s == ReadSimple(g, wire, r)
           e == WriteSimple(f, v)
<1>1. SUFFICES ASSUME s.ok PROVE r.ok /\ s.at = at + Len(e) /\ s.value = Append(r.value, v)
  BY DEF Passes
<1>2. r.ok /\ s # Failed(r)
  BY <1>1, SimpleCursor, FailedCursor
<1>3. CASE f.is = "text"
  <2> DEFINE one == << Len(v) >>
             part == SubSeq(wire, at + 2, at + 1 + wire[at + 1])
  <2>1. v \in Seq(T) /\ one \in Seq(T) /\ Len(v) \in Nat /\ Len(one) = 1 /\ one[1] = Len(v)
    BY <1>3, InClosed DEF IsSimple
  <2>2. e = one \o v /\ e \in Seq(T)
    BY <1>3, SimpleWritten DEF WriteSimple
  <2>3. s = Took(r, 1 + wire[at + 1], part)
    <3>1. g.is = "text"
      BY <1>3 DEF Same, TokenKind
    <3>2. s = ReadText(g, wire, r)
      BY <1>2, <3>1 DEF ReadSimple
    <3> QED BY <1>2, <3>2 DEF ReadText
  <2> HIDE DEF one, part, s, e
  <2>4. /\ Len(e) = 1 + Len(v)
        /\ Stands(one, e, 0) /\ Stands(v, e, 1)
    BY <2>1, <2>2, JoinedStand
  <2>5. Stands(e, wire, at)
    BY DEF e
  <2>6. Stands(one, wire, at + 0) /\ Stands(v, wire, at + 1)
    BY <2>1, <2>2, <2>4, <2>5, StandsInside
  <2>7. wire[at + 1] = Len(v)
    BY <2>1, <2>6 DEF Stands
  <2>8. SubSeq(wire, (at + 1) + 1, (at + 1) + Len(v)) = v
    <3>1. at + 1 \in Nat
      OBVIOUS
    <3> HIDE DEF at
    <3> QED BY <2>1, <2>6, <3>1, StandingPart
  <2>9. part = v
    <3>1. (at + 1) + 1 = at + 2 /\ (at + 1) + Len(v) = at + 1 + wire[at + 1]
      BY <2>1, <2>7
    <3> HIDE DEF at
    <3> QED BY <2>8, <3>1 DEF part
  <2>10. s = Took(r, 1 + Len(v), v)
    BY <2>3, <2>7, <2>9
  <2>11. s.at = r.at + (1 + Len(v)) /\ s.value = Append(r.value, v)
    BY <2>10, TookCursor
  <2> QED BY <1>2, <2>4, <2>11
<1>4. CASE f.is = "tagged"
  <2>1. e = << f.n, v >>
    BY <1>4 DEF WriteSimple
  <2>2. wire[at + 2] = v /\ Len(e) = 2
    BY <2>1 DEF Stands
  <2>3. s = Took(r, 2, wire[at + 2])
    <3>1. g.is = "tagged"
      BY <1>4 DEF Same, TokenKind
    <3>2. s = ReadTagged(g, wire, r)
      BY <1>2, <3>1 DEF ReadSimple
    <3> QED BY <1>2, <3>2 DEF ReadTagged
  <2>4. s = Took(r, 2, v)
    BY <2>2, <2>3
  <2> HIDE DEF s
  <2>5. s.at = r.at + 2 /\ s.value = Append(r.value, v)
    BY <2>4, TookCursor
  <2> QED BY <1>2, <2>2, <2>5
<1>5. CASE f.is = "subject"
  <2>1. s = ReadSubject(g, wire, r)
    <3>1. g.is = "subject"
      BY <1>5 DEF Same, TokenKind
    <3> QED BY <1>2, <3>1 DEF ReadSimple
  <2>2. CASE v = << 0, 0 >>
    <3>1. e = << 0 >>
      BY <1>5, <2>2 DEF WriteSimple
    <3>2. wire[at + 1] = 0 /\ Len(e) = 1
      BY <3>1 DEF Stands
    <3>3. s = Took(r, 1, << 0, 0 >>)
      BY <1>2, <2>1, <3>2 DEF ReadSubject
    <3>4. s = Took(r, 1, v)
      BY <2>2, <3>3
    <3> HIDE DEF s
    <3>5. s.at = at + 1 /\ s.value = Append(r.value, v)
      BY <3>4, TookCursor
    <3> QED BY <1>2, <3>2, <3>5
  <2>3. CASE v \in (1 .. 12) \X T
    <3>1. v = << v[1], v[2] >> /\ v[1] \in 1 .. 12
      BY <2>3
    <3>2. e = << v[1], DomainOf[v[1]], v[2] >>
      BY <1>5, <3>1 DEF WriteSimple
    <3>3. wire[at + 1] = v[1] /\ wire[at + 3] = v[2] /\ Len(e) = 3
      BY <3>2 DEF Stands
    <3>4. s = Took(r, 3, << v[1], v[2] >>)
      BY <1>2, <2>1, <3>1, <3>3 DEF ReadSubject
    <3>5. s = Took(r, 3, v)
      BY <3>1, <3>4
    <3> HIDE DEF s
    <3>6. s.at = r.at + 3 /\ s.value = Append(r.value, v)
      BY <3>5, TookCursor
    <3> QED BY <1>2, <3>3, <3>6
  <2> QED BY <1>5, <2>2, <2>3 DEF IsSimple
<1>6. CASE f.is \in TokenKind
  <2>1. e = << v >>
    BY <1>6 DEF WriteSimple, TokenKind
  <2>2. wire[at + 1] = v /\ Len(e) = 1
    BY <2>1 DEF Stands
  <2>3. s = Took(r, 1, wire[at + 1])
    <3>1. g.is \in TokenKind
      BY <1>6 DEF Same, TokenKind
    <3>2. s = ReadToken(g, wire, r)
      BY <1>2, <3>1 DEF ReadSimple, TokenKind
    <3> QED BY <1>2, <3>2 DEF ReadToken
  <2>4. s = Took(r, 1, v)
    BY <2>2, <2>3
  <2> HIDE DEF s
  <2>5. s.at = r.at + 1 /\ s.value = Append(r.value, v)
    BY <2>4, TookCursor
  <2> QED BY <1>2, <2>2, <2>5
<1> QED BY <1>3, <1>4, <1>5, <1>6 DEF Same

(* What the reader lets through: a text of the length its field may have,    *)
(* an identity, a subject and a token that it does not refuse.              *)
Valid(f, g, v) ==
  /\ f.is = "tagged" => v # 0
  /\ f.is = "subject" /\ v[1] # 0 => v[1] <= g.n /\ v[2] # 0
  /\ f.is \in TokenKind => Admits(g, v)

Takes(f, g, v) == (f.is = "text" => Len(v) <= f.n) /\ Valid(f, g, v)

(* What was written and may be read is not refused. *)
LEMMA SimpleTaken ==
  ASSUME NEW T, Closed(T), NEW wire \in Seq(T),
         NEW f, NEW g, Same(f, g), NEW v, IsSimple(f, v, T), Takes(f, g, v),
         NEW r, r.at \in Nat, r.ok, Stands(WriteSimple(f, v), wire, r.at)
  PROVE  ReadSimple(g, wire, r).ok
<1> DEFINE at == r.at
           s == ReadSimple(g, wire, r)
           e == WriteSimple(f, v)
<1>1. \A n, x : Took(r, n, x).ok
  BY TookCursor
<1>2. at \in Nat /\ Len(wire) \in Nat
  OBVIOUS
<1>3. CASE f.is = "text"
  <2> DEFINE n == Len(v)
  <2>1. v \in Seq(T) /\ n \in Nat /\ n \in T /\ e = << n >> \o v
    BY <1>3, InClosed DEF IsSimple, WriteSimple
  <2>2. Stands(e, wire, at) /\ n <= f.n
    BY <1>3 DEF Takes
  <2>3. s = ReadText(g, wire, r) /\ f = g
    BY <1>3 DEF ReadSimple, Same, TokenKind
  <2> HIDE DEF n, s, e
  <2>4. Len(e) = 1 + n
    BY <2>1, Tokens DEF n
  <2>5. wire[at + 1] = n
    BY <2>1, <2>2, Tokens
  <2>6. at + (1 + n) <= Len(wire)
    BY <2>2, <2>4 DEF Stands
  <2>7. Has(r, wire, 1) /\ Has(r, wire, 1 + wire[at + 1]) /\ wire[at + 1] <= g.n
    BY <1>2, <2>1, <2>2, <2>3, <2>5, <2>6 DEF Has
  <2> QED BY <1>1, <2>3, <2>7 DEF ReadText, s
<1>4. CASE f.is = "tagged"
  <2>1. e = << f.n, v >> /\ v # 0 /\ f = g
    BY <1>4 DEF WriteSimple, Takes, Valid, Same, TokenKind
  <2>2. wire[at + 1] = f.n /\ wire[at + 2] = v /\ at + 2 <= Len(wire)
    BY <2>1 DEF Stands
  <2>3. s = ReadTagged(g, wire, r)
    BY <1>4, <2>1 DEF ReadSimple
  <2> QED BY <1>1, <2>1, <2>2, <2>3 DEF ReadTagged, Has
<1>5. CASE f.is = "subject"
  <2>1. s = ReadSubject(g, wire, r)
    BY <1>5 DEF ReadSimple, Same, TokenKind
  <2>2. CASE v = << 0, 0 >>
    <3>1. e = << 0 >>
      BY <1>5, <2>2 DEF WriteSimple
    <3>2. wire[at + 1] = 0 /\ at + 1 <= Len(wire)
      BY <3>1 DEF Stands
    <3> QED BY <1>1, <2>1, <3>2 DEF ReadSubject, Has
  <2>3. CASE v \in (1 .. 12) \X T
    <3>1. v = << v[1], v[2] >> /\ v[1] \in 1 .. 12 /\ v[1] # 0
      BY <2>3
    <3>2. e = << v[1], DomainOf[v[1]], v[2] >>
      BY <1>5, <3>1 DEF WriteSimple
    <3>3. v[1] <= g.n /\ v[2] # 0
      BY <1>5, <3>1 DEF Takes, Valid
    <3>4. /\ wire[at + 1] = v[1] /\ wire[at + 2] = DomainOf[v[1]] /\ wire[at + 3] = v[2]
          /\ at + 3 <= Len(wire)
      BY <3>2 DEF Stands
    <3>5. Has(r, wire, 1) /\ Has(r, wire, 3)
      BY <1>2, <3>4 DEF Has
    <3> QED BY <1>1, <2>1, <3>1, <3>3, <3>4, <3>5 DEF ReadSubject
  <2> QED BY <1>5, <2>2, <2>3 DEF IsSimple
<1>6. CASE f.is \in TokenKind
  <2>1. e = << v >> /\ Admits(g, v)
    BY <1>6 DEF WriteSimple, TokenKind, Takes, Valid
  <2>2. wire[at + 1] = v /\ at + 1 <= Len(wire)
    BY <2>1 DEF Stands
  <2>3. g.is \in TokenKind
    BY <1>6 DEF Same, TokenKind
  <2>4. s = ReadToken(g, wire, r)
    BY <2>3 DEF ReadSimple, TokenKind
  <2> QED BY <1>1, <2>1, <2>2, <2>4 DEF ReadToken, Has
<1> QED BY <1>3, <1>4, <1>5, <1>6 DEF Same

-----------------------------------------------------------------------------
(* One value after the other: a reader that goes through n pieces of the    *)
(* wire, at + b[0], at + b[1], ..., and appends a value for each.           *)
Collects(g, vs, T, b, at) ==
  /\ vs \in Seq(T) /\ at \in Nat /\ b \in [ 0 .. Len(vs) -> Nat ] /\ b[0] = 0
  /\ g[0] = Reader(at)
  /\ \A i \in 1 .. Len(vs) :
       Cursor(g[i - 1]) /\ (g[i - 1].ok => g[i - 1].at = at + b[i - 1]) =>
         /\ Cursor(g[i])
         /\ g[i].ok => /\ g[i - 1].ok /\ g[i].at = at + b[i]
                       /\ g[i].value = Append(g[i - 1].value, vs[i])

(* It has them all at the end, or one of its steps was the first to refuse. *)
Collected(g, vs, b, at) ==
  /\ Cursor(g[Len(vs)])
  /\ g[Len(vs)].ok => g[Len(vs)].at = at + b[Len(vs)] /\ g[Len(vs)].value = vs
  /\ \/ g[Len(vs)].ok
     \/ \E i \in 1 .. Len(vs) :
          g[i - 1].ok /\ g[i - 1].at = at + b[i - 1] /\ ~g[i].ok

LEMMA Collecting ==
  ASSUME NEW g, NEW vs, NEW T, NEW b, NEW at, Collects(g, vs, T, b, at)
  PROVE  Collected(g, vs, b, at)
<1> DEFINE n == Len(vs)
           Step(i) ==
             Cursor(g[i - 1]) /\ (g[i - 1].ok => g[i - 1].at = at + b[i - 1]) =>
               /\ Cursor(g[i])
               /\ g[i].ok => /\ g[i - 1].ok /\ g[i].at = at + b[i]
                             /\ g[i].value = Append(g[i - 1].value, vs[i])
           Good(m) ==
             /\ Cursor(g[m])
             /\ g[m].ok => /\ g[m].at = at + b[m]
                           /\ g[m].value \in Seq(T) /\ Len(g[m].value) = m
                           /\ \A k \in 1 .. m : g[m].value[k] = vs[k]
           M == { m \in Nat : m <= n => Good(m) }
<1>1. vs \in Seq(T) /\ n \in Nat /\ b[0] = 0 /\ at \in Nat /\ g[0] = Reader(at)
  BY DEF Collects
<1>2. \A i \in 1 .. n : Step(i) /\ vs[i] \in T
  BY <1>1 DEF Collects
<1> HIDE DEF Good, Step, n
<1>3. 0 \in M
  <2>1. Cursor(g[0]) /\ g[0].at = at + b[0] /\ g[0].value = << >>
    BY <1>1, StartingCursor
  <2>2. << >> \in Seq(T) /\ Len(<< >>) = 0 /\ 1 .. 0 = {}
    OBVIOUS
  <2>3. g[0].value \in Seq(T) /\ Len(g[0].value) = 0
    BY <2>1, <2>2, Zenon
  <2>4. Good(0)
    BY <2>1, <2>2, <2>3 DEF Good
  <2> QED BY <2>4
<1>4. ASSUME NEW m \in Nat, m \in M PROVE m + 1 \in M
  <2>1. SUFFICES ASSUME m + 1 <= n PROVE Good(m + 1)
    OBVIOUS
  <2> DEFINE i == m + 1
             u == g[m].value
             w == g[i].value
  <2>2. i \in 1 .. n /\ i - 1 = m /\ Good(m) /\ i \in Nat
    BY <1>1, <1>4, <2>1
  <2> HIDE DEF i
  <2>3. Cursor(g[m]) /\ Step(i) /\ vs[i] \in T
    BY <1>2, <2>2 DEF Good
  <2>4. /\ Cursor(g[i])
        /\ g[i].ok => g[m].ok /\ g[i].at = at + b[i] /\ w = Append(u, vs[i])
    BY <2>2, <2>3 DEF Step, Good
  <2>5. ASSUME g[i].ok
        PROVE  /\ g[i].at = at + b[i]
               /\ w \in Seq(T) /\ Len(w) = i
               /\ \A k \in 1 .. i : w[k] = vs[k]
    <3>1. /\ g[i].at = at + b[i] /\ w = Append(u, vs[i])
          /\ u \in Seq(T) /\ Len(u) = m /\ \A k \in 1 .. m : u[k] = vs[k]
      BY <2>2, <2>4, <2>5 DEF Good
    <3> HIDE DEF u, w
    <3>2. /\ w \in Seq(T) /\ Len(w) = m + 1 /\ w[m + 1] = vs[i]
          /\ \A k \in 1 .. m : w[k] = u[k]
      BY <2>3, <3>1
    <3> QED BY <3>1, <3>2 DEF i
  <2> QED BY <2>4, <2>5 DEF i, Good
<1> HIDE DEF M
<1>5. Nat \subseteq M
  BY <1>3, <1>4, Induction
<1>6. Good(n)
  BY <1>1, <1>5 DEF M
<1>7. ASSUME g[n].ok PROVE g[n].value = vs
  <2> DEFINE w == g[n].value
  <2>1. w \in Seq(T) /\ Len(w) = n /\ \A k \in 1 .. n : w[k] = vs[k]
    BY <1>6, <1>7 DEF Good
  <2> HIDE DEF w
  <2>2. w = vs
    BY <1>1, <2>1, SameSequence DEF n
  <2> QED BY <2>2 DEF w
(* It is refused somewhere for the first time, or not at all. *)
<1>8. ASSUME \A i \in 1 .. n :
               ~(g[i - 1].ok /\ g[i - 1].at = at + b[i - 1] /\ ~g[i].ok)
      PROVE  g[n].ok
  <2> DEFINE K == { m \in Nat : m <= n => g[m].ok }
  <2>1. 0 \in K
    BY <1>1, StartingCursor
  <2>2. ASSUME NEW m \in Nat, m \in K PROVE m + 1 \in K
    <3>1. SUFFICES ASSUME m + 1 <= n PROVE g[m + 1].ok
      OBVIOUS
    <3>2. m <= n /\ m + 1 \in 1 .. n /\ (m + 1) - 1 = m /\ g[m].ok
      BY <1>1, <2>2, <3>1
    <3>3. g[m].at = at + b[m]
      BY <1>5, <3>2 DEF M, Good
    <3> QED BY <1>8, <3>2, <3>3
  <2> HIDE DEF K
  <2>3. Nat \subseteq K
    BY <2>1, <2>2, Induction
  <2> QED BY <1>1, <2>3 DEF K
<1> QED BY <1>6, <1>7, <1>8 DEF Good, n, Collected

(* Where the pieces of a part of the wire stand in the wire.                *)
LEMMA LocatedInside ==
  ASSUME NEW S, NEW pieces \in Seq(Seq(S)), NEW wire \in Seq(S), NEW at \in Nat,
         Stands(FlattenSeq(pieces), wire, at)
  PROVE  \E b \in [ 0 .. Len(pieces) -> Nat ] :
           /\ b[0] = 0 /\ b[Len(pieces)] = Len(FlattenSeq(pieces))
           /\ \A i \in 1 .. Len(pieces) :
                /\ b[i] = b[i - 1] + Len(pieces[i])
                /\ at + b[i - 1] \in Nat
                /\ Stands(pieces[i], wire, at + b[i - 1])
<1> DEFINE flat == FlattenSeq(pieces)
           n == Len(pieces)
<1>1. flat \in Seq(S) /\ \E b : Located(pieces, flat, b)
  BY PiecesAreLocated
<1>2. PICK b : Located(pieces, flat, b)
  BY <1>1
<1>3. n \in Nat /\ \A i \in 1 .. n : pieces[i] \in Seq(S)
  OBVIOUS
<1> HIDE DEF flat, n
<1>4. /\ b \in [ 0 .. n -> Nat ] /\ b[0] = 0 /\ b[n] = Len(flat)
      /\ \A i \in 1 .. n :
           b[i] = b[i - 1] + Len(pieces[i]) /\ Stands(pieces[i], flat, b[i - 1])
  BY <1>2 DEF Located, n
<1>5. ASSUME NEW i \in 1 .. n
      PROVE  at + b[i - 1] \in Nat /\ Stands(pieces[i], wire, at + b[i - 1])
  <2>1. b[i - 1] \in Nat
    <3>1. i - 1 \in 0 .. n
      BY <1>3
    <3> QED BY <1>4, <3>1
  <2>2. Stands(flat, wire, at)
    BY DEF flat
  <2>3. Stands(pieces[i], flat, b[i - 1]) /\ pieces[i] \in Seq(S)
    BY <1>3, <1>4
  <2> QED BY <1>1, <2>1, <2>2, <2>3, StandsInside
<1> QED BY <1>4, <1>5 DEF n, flat

-----------------------------------------------------------------------------
(* The parts of a group, of a present option, of an element of a list.      *)

IsAll(fields, vs, T) ==
  /\ vs \in Seq(T) /\ Len(vs) = Len(fields)
  /\ \A i \in 1 .. Len(fields) : IsSimple(fields[i], vs[i], T)

SameAll(fs, gs) ==
  /\ Len(fs) \in Nat /\ Len(gs) = Len(fs)
  /\ \A i \in 1 .. Len(fs) : Same(fs[i], gs[i])

(* The reader refuses none of the parts. *)
TakesAll(fs, gs, vs) == \A i \in 1 .. Len(fs) : Takes(fs[i], gs[i], vs[i])

Written(fields, vs) == [ i \in 1 .. Len(fields) |-> WriteSimple(fields[i], vs[i]) ]

LEMMA AllWritten ==
  ASSUME NEW T, Closed(T), NEW fs, NEW gs, SameAll(fs, gs),
         NEW vs, IsAll(fs, vs, T)
  PROVE  /\ Written(fs, vs) \in Seq(Seq(T)) /\ Len(Written(fs, vs)) = Len(fs)
         /\ \A i \in 1 .. Len(fs) : Written(fs, vs)[i] = WriteSimple(fs[i], vs[i])
         /\ WriteAll(fs, vs) = FlattenSeq(Written(fs, vs))
         /\ WriteAll(fs, vs) \in Seq(T)
<1> DEFINE pieces == Written(fs, vs)
<1>1. \A i \in 1 .. Len(fs) : WriteSimple(fs[i], vs[i]) \in Seq(T)
  BY SimpleWritten DEF SameAll, IsAll
<1>2. /\ pieces \in Seq(Seq(T)) /\ Len(pieces) = Len(fs)
      /\ \A i \in 1 .. Len(fs) : pieces[i] = WriteSimple(fs[i], vs[i])
  BY <1>1 DEF Written, SameAll
<1>3. WriteAll(fs, vs) = FlattenSeq(pieces)
  BY DEF WriteAll, Written
<1> HIDE DEF pieces
<1>4. FlattenSeq(pieces) \in Seq(T)
  BY <1>2, PiecesAreLocated
<1> QED BY <1>2, <1>3, <1>4 DEF pieces

ReadsAll(gs, wire, at, m, g) ==
  g = [ i \in 0 .. m |-> IF i = 0 THEN Reader(at) ELSE ReadSimple(gs[i], wire, g[i - 1]) ]

LEMMA AllCanBeRead ==
  ASSUME NEW gs, NEW wire, NEW at, NEW n \in Nat
  PROVE  \E g : ReadsAll(gs, wire, at, n, g)
<1> DEFINE M == { m \in Nat : \E g : ReadsAll(gs, wire, at, m, g) }
<1>1. 0 \in M
  <2>1. ReadsAll(gs, wire, at, 0, [ i \in 0 .. 0 |-> Reader(at) ])
    BY DEF ReadsAll
  <2> QED BY <2>1
<1>2. ASSUME NEW m \in Nat, m \in M PROVE m + 1 \in M
  <2>1. PICK g : ReadsAll(gs, wire, at, m, g)
    BY <1>2
  <2> DEFINE h == [ i \in 0 .. m + 1 |->
                      IF i <= m THEN g[i] ELSE ReadSimple(gs[m + 1], wire, g[m]) ]
  <2>2. \A i \in 0 .. m :
          g[i] = IF i = 0 THEN Reader(at) ELSE ReadSimple(gs[i], wire, g[i - 1])
    <3> HIDE DEF h
    <3> QED BY <2>1 DEF ReadsAll
  <2>3. \A i \in 0 .. m + 1 :
          h[i] = IF i = 0 THEN Reader(at) ELSE ReadSimple(gs[i], wire, h[i - 1])
    <3> SUFFICES ASSUME NEW i \in 0 .. m + 1
                 PROVE  h[i] = IF i = 0 THEN Reader(at)
                               ELSE ReadSimple(gs[i], wire, h[i - 1])
      OBVIOUS
    <3>1. CASE i = 0
      BY <2>2, <3>1
    <3>2. CASE i # 0 /\ i <= m
      <4>1. h[i] = g[i] /\ h[i - 1] = g[i - 1] /\ i \in 0 .. m
        BY <3>2
      <4> QED BY <2>2, <3>2, <4>1
    <3>3. CASE i = m + 1
      <4>1. h[i] = ReadSimple(gs[m + 1], wire, g[m]) /\ h[i - 1] = g[m]
        BY <3>3
      <4> QED BY <3>3, <4>1
    <3> QED BY <3>1, <3>2, <3>3
  <2>4. h = [ i \in 0 .. m + 1 |-> h[i] ]
    OBVIOUS
  <2> HIDE DEF h
  <2>5. ReadsAll(gs, wire, at, m + 1, h)
    BY <2>3, <2>4 DEF ReadsAll
  <2> QED BY <2>5
<1> HIDE DEF M
<1>3. Nat \subseteq M
  BY <1>1, <1>2, Induction
<1> QED BY <1>3 DEF M

LEMMA AllIsRead ==
  ASSUME NEW gs, NEW wire, NEW at, Len(gs) \in Nat
  PROVE  \E g : /\ g[0] = Reader(at) /\ ReadAll(gs, wire, at) = g[Len(gs)]
                /\ \A i \in 1 .. Len(gs) : g[i] = ReadSimple(gs[i], wire, g[i - 1])
<1> DEFINE n == Len(gs)
           r[i \in 0 .. n] == IF i = 0 THEN Reader(at) ELSE ReadSimple(gs[i], wire, r[i - 1])
<1>1. ReadAll(gs, wire, at) = r[n]
  BY DEF ReadAll
<1>2. r = CHOOSE g : ReadsAll(gs, wire, at, n, g)
  BY DEF ReadsAll
<1> HIDE DEF r
<1>3. \E g : ReadsAll(gs, wire, at, n, g)
  BY AllCanBeRead
<1>4. ReadsAll(gs, wire, at, n, r)
  BY <1>2, <1>3
<1> HIDE DEF n
<1>5. n \in Nat
  BY DEF n
<1>6. r[0] = Reader(at) /\ \A i \in 1 .. n : r[i] = ReadSimple(gs[i], wire, r[i - 1])
  BY <1>4, <1>5 DEF ReadsAll
<1> QED BY <1>1, <1>6 DEF n

(* s has read v, which was written as e, from `at` on, if nothing refused.  *)
Obtains(s, at, e, v) == Cursor(s) /\ (s.ok => s.at = at + Len(e) /\ s.value = v)

(* What the reader makes of the parts: what was written, and all of it if    *)
(* it may be read.                                                          *)
LEMMA AllRead ==
  ASSUME NEW T, Closed(T), NEW wire \in Seq(T), NEW fs, NEW gs, SameAll(fs, gs),
         NEW vs, IsAll(fs, vs, T), NEW at \in Nat,
         Stands(WriteAll(fs, vs), wire, at)
  PROVE  /\ Obtains(ReadAll(gs, wire, at), at, WriteAll(fs, vs), vs)
         /\ TakesAll(fs, gs, vs) => ReadAll(gs, wire, at).ok
<1> DEFINE n == Len(fs)
           pieces == Written(fs, vs)
           s == ReadAll(gs, wire, at)
<1>1. /\ pieces \in Seq(Seq(T)) /\ Len(pieces) = n /\ n \in Nat /\ Len(gs) = n
      /\ \A i \in 1 .. n : pieces[i] = WriteSimple(fs[i], vs[i])
      /\ WriteAll(fs, vs) = FlattenSeq(pieces)
  BY AllWritten DEF SameAll
<1>2. PICK g : /\ g[0] = Reader(at) /\ s = g[n]
               /\ \A i \in 1 .. n : g[i] = ReadSimple(gs[i], wire, g[i - 1])
  <2> HIDE DEF n
  <2>1. Len(gs) \in Nat
    BY <1>1
  <2>2. \E g : /\ g[0] = Reader(at) /\ ReadAll(gs, wire, at) = g[Len(gs)]
              /\ \A i \in 1 .. Len(gs) : g[i] = ReadSimple(gs[i], wire, g[i - 1])
    BY <2>1, AllIsRead
  <2> QED BY <1>1, <2>2
<1> HIDE DEF pieces, s
<1>3. PICK b \in [ 0 .. n -> Nat ] :
           /\ b[0] = 0 /\ b[n] = Len(WriteAll(fs, vs))
           /\ \A i \in 1 .. n :
                /\ b[i] = b[i - 1] + Len(pieces[i])
                /\ at + b[i - 1] \in Nat
                /\ Stands(pieces[i], wire, at + b[i - 1])
  BY <1>1, LocatedInside
<1>4. \A i \in 1 .. n :
        Cursor(g[i - 1]) /\ (g[i - 1].ok => g[i - 1].at = at + b[i - 1]) =>
          /\ Cursor(g[i])
          /\ g[i].ok => /\ g[i - 1].ok /\ g[i].at = at + b[i]
                        /\ g[i].value = Append(g[i - 1].value, vs[i])
  <2> SUFFICES ASSUME NEW i \in 1 .. n, Cursor(g[i - 1]),
                      g[i - 1].ok => g[i - 1].at = at + b[i - 1]
               PROVE  /\ Cursor(g[i])
                      /\ g[i].ok => /\ g[i - 1].ok /\ g[i].at = at + b[i]
                                    /\ g[i].value = Append(g[i - 1].value, vs[i])
    OBVIOUS
  <2> DEFINE q == g[i - 1]
             v == vs[i]
             e == pieces[i]
             c == b[i - 1]
  <2>1. /\ g[i] = ReadSimple(gs[i], wire, q) /\ Cursor(q)
        /\ q.ok => q.at = at + c
    BY <1>2
  <2>2. /\ e = WriteSimple(fs[i], v) /\ IsSimple(fs[i], v, T) /\ Same(fs[i], gs[i])
        /\ b[i] = c + Len(e) /\ at + c \in Nat /\ Stands(e, wire, at + c)
    BY <1>1, <1>3 DEF IsAll, SameAll
  <2>3. c \in Nat /\ Len(e) \in Nat
    <3>1. e \in Seq(T) /\ i - 1 \in 0 .. n
      BY <1>1
    <3> QED BY <3>1
  <2> HIDE DEF q, v, e, c
  <2>4. Cursor(g[i]) /\ (g[i].ok => q.ok)
    BY <2>1, SimpleCursor
  <2>5. ASSUME g[i].ok
        PROVE  g[i].at = at + b[i] /\ g[i].value = Append(q.value, v)
    <3>1. q.at = at + c
      BY <2>1, <2>4, <2>5
    <3>2. Passes(q, g[i], e, v)
      BY <2>1, <2>2, <3>1, SimpleRead
    <3>3. g[i].at = (at + c) + Len(e) /\ g[i].value = Append(q.value, v)
      BY <2>5, <3>1, <3>2 DEF Passes
    <3> QED BY <2>2, <2>3, <3>3
  <2> QED BY <2>4, <2>5 DEF q, v, c
<1>5. vs \in Seq(T) /\ n = Len(vs)
  BY DEF IsAll
<1>6. ASSUME TakesAll(fs, gs, vs), NEW i \in 1 .. n,
             g[i - 1].ok, g[i - 1].at = at + b[i - 1]
      PROVE  g[i].ok
  <2> DEFINE q == g[i - 1]
             v == vs[i]
             c == b[i - 1]
  <2>1. g[i] = ReadSimple(gs[i], wire, q) /\ q.ok /\ q.at = at + c
    BY <1>2, <1>6
  <2>2. /\ IsSimple(fs[i], v, T) /\ Same(fs[i], gs[i]) /\ Takes(fs[i], gs[i], v)
        /\ at + c \in Nat /\ Stands(WriteSimple(fs[i], v), wire, at + c)
    BY <1>1, <1>3, <1>6 DEF IsAll, SameAll, TakesAll
  <2> HIDE DEF q, v, c
  <2> QED BY <2>1, <2>2, SimpleTaken
<1> HIDE DEF n
<1>7. Collects(g, vs, T, b, at)
  BY <1>2, <1>3, <1>4, <1>5 DEF Collects
<1>8. /\ Cursor(s) /\ (s.ok => s.at = at + b[n] /\ s.value = vs)
      /\ \/ s.ok
         \/ \E i \in 1 .. n : g[i - 1].ok /\ g[i - 1].at = at + b[i - 1] /\ ~g[i].ok
  <2>1. Collected(g, vs, b, at)
    BY <1>7, Collecting
  <2>2. s = g[n] /\ n = Len(vs)
    BY <1>2, <1>5
  <2> QED BY <2>1, <2>2 DEF Collected
<1> QED BY <1>3, <1>6, <1>8 DEF s, Obtains

-----------------------------------------------------------------------------
(* The elements of a list, each the sequence of its own parts.              *)

WrittenElements(fields, es) == [ i \in 1 .. Len(es) |-> WriteAll(fields, es[i]) ]

LEMMA ElementsWritten ==
  ASSUME NEW T, Closed(T), NEW fs, NEW gs, SameAll(fs, gs),
         NEW es \in Seq(T), \A i \in 1 .. Len(es) : IsAll(fs, es[i], T)
  PROVE  LET pieces == WrittenElements(fs, es) IN
         /\ pieces \in Seq(Seq(T)) /\ Len(pieces) = Len(es)
         /\ \A i \in 1 .. Len(es) : pieces[i] = WriteAll(fs, es[i])
         /\ WriteElements(fs, es) = FlattenSeq(pieces)
         /\ WriteElements(fs, es) \in Seq(T)
<1> DEFINE pieces == WrittenElements(fs, es)
           n == Len(es)
<1>1. \A i \in 1 .. n : WriteAll(fs, es[i]) \in Seq(T)
  BY AllWritten
<1>2. n \in Nat
  OBVIOUS
<1>3. WriteElements(fs, es) = FlattenSeq(pieces)
  BY DEF WriteElements, WrittenElements
<1> HIDE DEF n
<1>4. pieces = [ i \in 1 .. n |-> WriteAll(fs, es[i]) ]
  BY DEF WrittenElements, n
<1> HIDE DEF pieces
<1>5. /\ pieces \in Seq(Seq(T)) /\ Len(pieces) = n
      /\ \A i \in 1 .. n : pieces[i] = WriteAll(fs, es[i])
  BY <1>1, <1>2, <1>4
<1>6. FlattenSeq(pieces) \in Seq(T)
  BY <1>5, PiecesAreLocated
<1> QED BY <1>3, <1>5, <1>6 DEF pieces, n

NextElement(gs, wire, q) == Nested(q, ReadAll(gs, wire, q.at))

ReadsElements(gs, wire, at, m, g) ==
  g = [ i \in 0 .. m |-> IF i = 0 THEN Reader(at) ELSE NextElement(gs, wire, g[i - 1]) ]

LEMMA ElementsCanBeRead ==
  ASSUME NEW gs, NEW wire, NEW at, NEW n \in Nat
  PROVE  \E g : ReadsElements(gs, wire, at, n, g)
<1> DEFINE M == { m \in Nat : \E g : ReadsElements(gs, wire, at, m, g) }
<1>1. 0 \in M
  <2>1. ReadsElements(gs, wire, at, 0, [ i \in 0 .. 0 |-> Reader(at) ])
    BY DEF ReadsElements
  <2> QED BY <2>1
<1>2. ASSUME NEW m \in Nat, m \in M PROVE m + 1 \in M
  <2>1. PICK g : ReadsElements(gs, wire, at, m, g)
    BY <1>2
  <2> DEFINE h == [ i \in 0 .. m + 1 |->
                      IF i <= m THEN g[i] ELSE NextElement(gs, wire, g[m]) ]
  <2>2. \A i \in 0 .. m :
          g[i] = IF i = 0 THEN Reader(at) ELSE NextElement(gs, wire, g[i - 1])
    <3> HIDE DEF h
    <3> QED BY <2>1 DEF ReadsElements
  <2>3. \A i \in 0 .. m + 1 :
          h[i] = IF i = 0 THEN Reader(at) ELSE NextElement(gs, wire, h[i - 1])
    <3> SUFFICES ASSUME NEW i \in 0 .. m + 1
                 PROVE  h[i] = IF i = 0 THEN Reader(at)
                               ELSE NextElement(gs, wire, h[i - 1])
      OBVIOUS
    <3>1. CASE i = 0
      BY <2>2, <3>1
    <3>2. CASE i # 0 /\ i <= m
      <4>1. h[i] = g[i] /\ h[i - 1] = g[i - 1] /\ i \in 0 .. m
        BY <3>2
      <4> QED BY <2>2, <3>2, <4>1
    <3>3. CASE i = m + 1
      <4>1. h[i] = NextElement(gs, wire, g[m]) /\ h[i - 1] = g[m]
        BY <3>3
      <4> QED BY <3>3, <4>1
    <3> QED BY <3>1, <3>2, <3>3
  <2>4. h = [ i \in 0 .. m + 1 |-> h[i] ]
    OBVIOUS
  <2> HIDE DEF h
  <2>5. ReadsElements(gs, wire, at, m + 1, h)
    BY <2>3, <2>4 DEF ReadsElements
  <2> QED BY <2>5
<1> HIDE DEF M
<1>3. Nat \subseteq M
  BY <1>1, <1>2, Induction
<1> QED BY <1>3 DEF M

LEMMA ElementsAreRead ==
  ASSUME NEW gs, NEW wire, NEW at, NEW n \in Nat
  PROVE  \E g : /\ g[0] = Reader(at) /\ ReadElements(gs, wire, at, n) = g[n]
                /\ \A i \in 1 .. n : g[i] = NextElement(gs, wire, g[i - 1])
<1> DEFINE r[i \in 0 .. n] ==
             IF i = 0 THEN Reader(at)
             ELSE LET before == r[i - 1] IN Nested(before, ReadAll(gs, wire, before.at))
<1>1. ReadElements(gs, wire, at, n) = r[n]
  BY DEF ReadElements
<1>2. r = CHOOSE g : ReadsElements(gs, wire, at, n, g)
  BY DEF ReadsElements, NextElement
<1> HIDE DEF r
<1>3. \E g : ReadsElements(gs, wire, at, n, g)
  BY ElementsCanBeRead
<1>4. ReadsElements(gs, wire, at, n, r)
  BY <1>2, <1>3
<1>5. r[0] = Reader(at) /\ \A i \in 1 .. n : r[i] = NextElement(gs, wire, r[i - 1])
  BY <1>4 DEF ReadsElements
<1> QED BY <1>1, <1>5

(* What the reader makes of a list: the elements that were written, and all *)
(* of them if they may be read.                                             *)
LEMMA ElementsRead ==
  ASSUME NEW T, Closed(T), NEW wire \in Seq(T), NEW fs, NEW gs, SameAll(fs, gs),
         NEW es \in Seq(T), \A i \in 1 .. Len(es) : IsAll(fs, es[i], T),
         NEW at \in Nat, Stands(WriteElements(fs, es), wire, at)
  PROVE  /\ Obtains(ReadElements(gs, wire, at, Len(es)), at, WriteElements(fs, es), es)
         /\ (\A i \in 1 .. Len(es) : TakesAll(fs, gs, es[i])) =>
              ReadElements(gs, wire, at, Len(es)).ok
<1> DEFINE n == Len(es)
           pieces == WrittenElements(fs, es)
           s == ReadElements(gs, wire, at, n)
<1>1. /\ pieces \in Seq(Seq(T)) /\ Len(pieces) = n
      /\ \A i \in 1 .. n : pieces[i] = WriteAll(fs, es[i])
      /\ WriteElements(fs, es) = FlattenSeq(pieces)
  BY ElementsWritten
<1>2. n \in Nat
  OBVIOUS
<1>3. PICK g : /\ g[0] = Reader(at) /\ s = g[n]
               /\ \A i \in 1 .. n : g[i] = NextElement(gs, wire, g[i - 1])
  <2> HIDE DEF n
  <2> QED BY <1>2, ElementsAreRead
<1> HIDE DEF pieces, s
<1>4. PICK b \in [ 0 .. n -> Nat ] :
           /\ b[0] = 0 /\ b[n] = Len(WriteElements(fs, es))
           /\ \A i \in 1 .. n :
                /\ b[i] = b[i - 1] + Len(pieces[i])
                /\ at + b[i - 1] \in Nat
                /\ Stands(pieces[i], wire, at + b[i - 1])
  <2> DEFINE flat == WriteElements(fs, es)
  <2>1. Stands(flat, wire, at) /\ flat = FlattenSeq(pieces) /\ pieces \in Seq(Seq(T))
    BY <1>1
  <2>2. Len(pieces) = n
    BY <1>1
  <2> HIDE DEF flat, n
  <2>3. Stands(FlattenSeq(pieces), wire, at)
    BY <2>1
  <2>4. \E b \in [ 0 .. Len(pieces) -> Nat ] :
           /\ b[0] = 0 /\ b[Len(pieces)] = Len(FlattenSeq(pieces))
           /\ \A i \in 1 .. Len(pieces) :
                /\ b[i] = b[i - 1] + Len(pieces[i])
                /\ at + b[i - 1] \in Nat
                /\ Stands(pieces[i], wire, at + b[i - 1])
    BY <2>1, <2>3, LocatedInside
  <2> QED BY <2>1, <2>2, <2>4, Zenon DEF flat
<1>5. \A i \in 1 .. n :
        Cursor(g[i - 1]) /\ (g[i - 1].ok => g[i - 1].at = at + b[i - 1]) =>
          /\ Cursor(g[i])
          /\ g[i].ok => /\ g[i - 1].ok /\ g[i].at = at + b[i]
                        /\ g[i].value = Append(g[i - 1].value, es[i])
  <2> SUFFICES ASSUME NEW i \in 1 .. n, Cursor(g[i - 1]),
                      g[i - 1].ok => g[i - 1].at = at + b[i - 1]
               PROVE  /\ Cursor(g[i])
                      /\ g[i].ok => /\ g[i - 1].ok /\ g[i].at = at + b[i]
                                    /\ g[i].value = Append(g[i - 1].value, es[i])
    OBVIOUS
  <2> DEFINE q == g[i - 1]
             v == es[i]
             e == pieces[i]
             c == b[i - 1]
             inner == ReadAll(gs, wire, q.at)
  <2>1. /\ g[i] = Nested(q, inner) /\ Cursor(q)
        /\ q.ok => q.at = at + c
    BY <1>3 DEF NextElement
  <2>2. /\ e = WriteAll(fs, v) /\ IsAll(fs, v, T)
        /\ b[i] = c + Len(e) /\ at + c \in Nat /\ Stands(e, wire, at + c)
    BY <1>1, <1>4
  <2>3. c \in Nat /\ Len(e) \in Nat
    <3>1. e \in Seq(T) /\ i - 1 \in 0 .. n
      BY <1>1, <1>2
    <3> QED BY <3>1
  <2>4. q.ok => Obtains(inner, at + c, e, v)
    <3> HIDE DEF q, v, e, c, inner
    <3> SUFFICES ASSUME q.ok PROVE Obtains(inner, at + c, e, v)
      OBVIOUS
    <3>1. Obtains(ReadAll(gs, wire, at + c), at + c, WriteAll(fs, v), v)
      BY <2>2, AllRead
    <3>2. inner = ReadAll(gs, wire, at + c)
      BY <2>1 DEF inner
    <3> QED BY <2>2, <3>1, <3>2
  <2> HIDE DEF q, v, e, c, inner
  <2>5. CASE q.ok
    <3>1. /\ Cursor(inner)
          /\ inner.ok => inner.at = (at + c) + Len(e) /\ inner.value = v
      BY <2>4, <2>5 DEF Obtains
    <3>2. /\ Cursor(g[i])
          /\ g[i].ok => /\ q.ok /\ inner.ok /\ g[i].at = inner.at
                        /\ g[i].value = Append(q.value, inner.value)
      BY <2>1, <3>1, NestedCursor
    <3> QED BY <2>2, <2>3, <3>1, <3>2 DEF q, v, c
  <2>6. CASE ~q.ok
    <3>1. g[i] = q
      BY <2>1, <2>6 DEF Nested
    <3> QED BY <2>1, <2>6, <3>1
  <2> QED BY <2>5, <2>6
<1>6. ASSUME \A i \in 1 .. n : TakesAll(fs, gs, es[i]), NEW i \in 1 .. n,
             g[i - 1].ok, g[i - 1].at = at + b[i - 1]
      PROVE  g[i].ok
  <2> DEFINE q == g[i - 1]
             v == es[i]
             c == b[i - 1]
  <2>1. g[i] = NextElement(gs, wire, q) /\ q.ok /\ q.at = at + c
    BY <1>3, <1>6
  <2>2. /\ IsAll(fs, v, T) /\ TakesAll(fs, gs, v)
        /\ at + c \in Nat /\ Stands(WriteAll(fs, v), wire, at + c)
    BY <1>1, <1>4, <1>6
  <2> HIDE DEF q, v, c
  <2>3. ReadAll(gs, wire, at + c).ok
    BY <2>2, AllRead
  <2>4. ReadAll(gs, wire, q.at).ok
    BY <2>1, <2>3
  <2>5. /\ Obtains(ReadAll(gs, wire, at + c), at + c, WriteAll(fs, v), v)
    BY <2>2, AllRead
  <2>6. Cursor(ReadAll(gs, wire, q.at))
    BY <2>1, <2>5 DEF Obtains
  <2> QED BY <2>1, <2>4, <2>6, NestedKeeps DEF NextElement
<1> HIDE DEF n
<1>7. Collects(g, es, T, b, at)
  BY <1>3, <1>4, <1>5 DEF Collects, n
<1>8. /\ Cursor(s) /\ (s.ok => s.at = at + b[n] /\ s.value = es)
      /\ \/ s.ok
         \/ \E i \in 1 .. n : g[i - 1].ok /\ g[i - 1].at = at + b[i - 1] /\ ~g[i].ok
  <2>1. Collected(g, es, b, at)
    BY <1>7, Collecting
  <2>2. s = g[n] /\ n = Len(es)
    BY <1>3 DEF n
  <2> QED BY <2>1, <2>2 DEF Collected
<1>9. s.ok => s.at = at + Len(WriteElements(fs, es)) /\ s.value = es
  BY <1>4, <1>8
<1> QED BY <1>6, <1>8, <1>9 DEF s, n, Obtains

-----------------------------------------------------------------------------
(* One field: an option, a group, a list, a metric value or a simple one.   *)

Compound == { "option", "group", "list", "metric" }

(* The reader g expects what the writer f writes. *)
SameField(f, g) ==
  /\ f.is = "option" => g.is = "option" /\ SameAll(f.of, g.of) /\ Len(f.of) # 0
  /\ f.is = "group" => g.is = "group" /\ SameAll(f.of, g.of)
  /\ f.is = "list" => g.is = "list" /\ g.n = f.n /\ SameAll(f.of, g.of)
  /\ f.is = "metric" => g.is = "metric"
  /\ f.is \notin Compound => Same(f, g)

IsMetric(v, T) ==
  /\ v = << v[1], v[2] >> /\ v[1] \in 0 .. 11
  /\ IsAll(MetricPayload(v[1]), v[2], T)

IsValue(f, v, T) ==
  /\ f.is = "option" => v = << >> \/ IsAll(f.of, v, T)
  /\ f.is = "group" => IsAll(f.of, v, T)
  /\ f.is = "list" => v \in Seq(T) /\ \A i \in 1 .. Len(v) : IsAll(f.of, v[i], T)
  /\ f.is = "metric" => IsMetric(v, T)
  /\ f.is \notin Compound => IsSimple(f, v, T)

LEMMA PayloadsAgree ==
  ASSUME NEW kind \in 0 .. 11
  PROVE  SameAll(MetricPayload(kind), MetricPayload(kind))
<1> DEFINE fs == MetricPayload(kind)
<1>1. \/ fs = << >> \/ fs = << Finite >> \/ fs = << Boolean >>
      \/ fs = << Text("string") >> \/ fs = << Word >>
  BY DEF MetricPayload
<1>2. /\ Same(Finite, Finite) /\ Same(Boolean, Boolean)
      /\ Same(Text("string"), Text("string")) /\ Same(Word, Word)
  BY DEF Same, TokenKind, Finite, Boolean, Text, Word, Field
<1> HIDE DEF fs
<1>3. CASE fs = << >>
  BY <1>3 DEF SameAll, fs
<1>4. ASSUME NEW f, fs = << f >>, Same(f, f) PROVE SameAll(fs, fs)
  <2>1. Len(fs) = 1 /\ fs[1] = f /\ 1 .. 1 = { 1 }
    BY <1>4
  <2> QED BY <1>4, <2>1 DEF SameAll
<1> QED BY <1>1, <1>2, <1>3, <1>4 DEF fs

LEMMA Refusal ==
  ASSUME NEW at, NEW b, NEW e, NEW v
  PROVE  Obtains(Failed(Reader(at)), b, e, v)
  BY StartingCursor, FailedCursor DEF Obtains

LEMMA NestedValue ==
  ASSUME NEW at, NEW q, NEW b, NEW e, NEW v, Obtains(q, b, e, v)
  PROVE  Obtains(Nested(Reader(at), q), b, e, << v >>)
<1> DEFINE r == Reader(at)
           s == Nested(r, q)
<1>1. Cursor(r) /\ r.value = << >> /\ Cursor(q)
  BY StartingCursor DEF Obtains
<1> HIDE DEF r
<1>2. Cursor(s) /\ (s.ok => q.ok /\ s.at = q.at /\ s.value = Append(r.value, q.value))
  BY <1>1, NestedCursor
<1>3. Append(<< >>, v) = << v >>
  OBVIOUS
<1>4. s.ok => s.at = b + Len(e) /\ s.value = << v >>
  BY <1>1, <1>2, <1>3 DEF Obtains
<1> QED BY <1>2, <1>4 DEF Obtains, r

LEMMA OfKindCursor ==
  ASSUME NEW kind, NEW q, NEW b, NEW e, NEW v, Obtains(q, b, e, v)
  PROVE  Obtains(OfKind(kind, q), b, e, << kind, v >>)
<1> DEFINE s == OfKind(kind, q)
           o == q.ok
           a == q.at
           u == q.value
           w == << kind, u >>
<1>1. q = [ ok |-> o, at |-> a, value |-> u ]
  BY DEF Obtains, Cursor
<1>2. s = [ q EXCEPT !.value = w ]
  BY DEF OfKind
<1> HIDE DEF o, a, u, w, s
<1>3. [ [ ok |-> o, at |-> a, value |-> u ] EXCEPT !.value = w ]
        = [ ok |-> o, at |-> a, value |-> w ]
  OBVIOUS
<1>4. s = [ ok |-> o, at |-> a, value |-> w ]
  BY <1>1, <1>2, <1>3, Zenon
<1>5. Cursor(s) /\ s.ok = o /\ s.at = a /\ s.value = w
  BY <1>4 DEF Cursor
<1> QED BY <1>5 DEF Obtains, o, a, u, w, s

LEMMA FieldWritten ==
  ASSUME NEW T, Closed(T), NEW f, NEW g, SameField(f, g), NEW v, IsValue(f, v, T)
  PROVE  WriteField(f, v) \in Seq(T)
<1>1. CASE f.is = "option"
  <2>1. CASE v = << >>
    <3>1. << 0 >> \in Seq(T)
      BY InClosed
    <3> QED BY <1>1, <2>1, <3>1 DEF WriteField
  <2>2. CASE v # << >>
    <3>1. WriteAll(f.of, v) \in Seq(T)
      BY <1>1, <2>2, AllWritten DEF SameField, IsValue
    <3>2. 1 \in T
      BY InClosed
    <3>3. << 1 >> \o WriteAll(f.of, v) \in Seq(T)
      BY <3>1, <3>2, Tokens
    <3> QED BY <1>1, <2>2, <3>3 DEF WriteField
  <2> QED BY <2>1, <2>2
<1>2. CASE f.is = "group"
  BY <1>2, AllWritten DEF SameField, IsValue, WriteField
<1>3. CASE f.is = "list"
  <2>1. WriteElements(f.of, v) \in Seq(T)
    BY <1>3, ElementsWritten DEF SameField, IsValue
  <2>2. Len(v) \in T
    BY <1>3, InClosed DEF IsValue
  <2>3. << Len(v) >> \o WriteElements(f.of, v) \in Seq(T)
    BY <2>1, <2>2, Tokens
  <2> QED BY <1>3, <2>3 DEF WriteField
<1>4. CASE f.is = "metric"
  <2>1. WriteAll(MetricPayload(v[1]), v[2]) \in Seq(T)
    BY <1>4, PayloadsAgree, AllWritten DEF IsValue, IsMetric
  <2>2. v[1] \in T
    BY <1>4, InClosed DEF IsValue, IsMetric
  <2>3. << v[1] >> \o WriteAll(MetricPayload(v[1]), v[2]) \in Seq(T)
    BY <2>1, <2>2, Tokens
  <2> QED BY <1>4, <2>3 DEF WriteField
<1>5. CASE f.is \notin Compound
  <2>1. WriteSimple(f, v) \in Seq(T)
    BY <1>5, SimpleWritten DEF SameField, IsValue
  <2> QED BY <1>5, <2>1 DEF WriteField, Compound
<1> QED BY <1>1, <1>2, <1>3, <1>4, <1>5 DEF Compound

(* What the reader makes of one field: what was written. *)
LEMMA OptionRead ==
  ASSUME NEW T, Closed(T), NEW wire \in Seq(T), NEW f, NEW g, SameAll(f.of, g.of),
         f.is = "option", Len(f.of) # 0, NEW v, v = << >> \/ IsAll(f.of, v, T),
         NEW at \in Nat, Stands(WriteField(f, v), wire, at)
  PROVE  Obtains(ReadOption(g, wire, Reader(at)), at, WriteField(f, v), << v >>)
<1> DEFINE r == Reader(at)
           e == WriteField(f, v)
           s == ReadOption(g, wire, r)
<1>1. r.at = at /\ r.ok /\ r.value = << >> /\ Cursor(r)
  BY StartingCursor
<1>2. Stands(e, wire, at)
  OBVIOUS
<1> HIDE DEF r, e
<1>3. SUFFICES ASSUME s # Failed(r) PROVE Obtains(s, at, e, << v >>)
  BY <1>1, Refusal DEF r, e
<1>4. CASE v = << >>
  <2>1. e = << 0 >>
    BY <1>4 DEF e, WriteField
  <2>2. wire[at + 1] = 0 /\ Len(e) = 1
    BY <1>2, <2>1 DEF Stands
  <2>3. s = Took(r, 1, << >>)
    BY <1>1, <1>3, <2>2 DEF ReadOption
  <2> HIDE DEF s
  <2>4. Cursor(s) /\ s.at = at + 1 /\ s.value = Append(<< >>, << >>)
    BY <1>1, <2>3, TookCursor
  <2>5. Append(<< >>, << >>) = << << >> >>
    OBVIOUS
  <2> QED BY <1>4, <2>2, <2>4, <2>5 DEF Obtains
<1>5. CASE v # << >>
  <2> DEFINE rest == WriteAll(f.of, v)
  <2>1. IsAll(f.of, v, T) /\ rest \in Seq(T)
    BY <1>5, AllWritten
  <2>2. e = << 1 >> \o rest
    BY <1>5 DEF e, WriteField
  <2> HIDE DEF rest
  <2>3. 1 \in T
    BY InClosed
  <2>4. /\ Len(e) = 1 + Len(rest) /\ at + 1 \in Nat
        /\ wire[at + 1] = 1 /\ Stands(rest, wire, at + 1)
    BY <1>2, <2>1, <2>2, <2>3, Tokens
  <2>5. s = Nested(r, ReadAll(g.of, wire, at + 1))
    BY <1>1, <1>3, <2>4 DEF ReadOption
  <2>6. Obtains(ReadAll(g.of, wire, at + 1), at + 1, rest, v)
    BY <2>1, <2>4, AllRead DEF rest
  <2> HIDE DEF s
  <2>7. Obtains(s, at + 1, rest, << v >>)
    BY <2>5, <2>6, NestedValue DEF r
  <2>8. (at + 1) + Len(rest) = at + Len(e)
    <3>1. Len(rest) \in Nat
      BY <2>1
    <3> QED BY <2>4, <3>1
  <2> QED BY <2>7, <2>8 DEF Obtains
<1> QED BY <1>4, <1>5

LEMMA ListRead ==
  ASSUME NEW T, Closed(T), NEW wire \in Seq(T), NEW f, NEW g, SameAll(f.of, g.of),
         f.is = "list", NEW v \in Seq(T), \A i \in 1 .. Len(v) : IsAll(f.of, v[i], T),
         NEW at \in Nat, Stands(WriteField(f, v), wire, at)
  PROVE  Obtains(ReadList(g, wire, Reader(at)), at, WriteField(f, v), << v >>)
<1> DEFINE r == Reader(at)
           e == WriteField(f, v)
           s == ReadList(g, wire, r)
           rest == WriteElements(f.of, v)
           n == Len(v)
<1>1. r.at = at
  BY StartingCursor
<1>2. Stands(e, wire, at) /\ rest \in Seq(T) /\ e = << n >> \o rest /\ n \in T
  BY ElementsWritten, InClosed DEF WriteField
<1> HIDE DEF r, e, rest, n
<1>3. SUFFICES ASSUME s # Failed(r) PROVE Obtains(s, at, e, << v >>)
  BY <1>1, Refusal DEF r, e
<1>4. /\ Len(e) = 1 + Len(rest) /\ at + 1 \in Nat
      /\ wire[at + 1] = n /\ Stands(rest, wire, at + 1)
  BY <1>2, Tokens
<1>5. s = Nested(r, ReadElements(g.of, wire, at + 1, n))
  BY <1>1, <1>3, <1>4 DEF ReadList
<1>6. Obtains(ReadElements(g.of, wire, at + 1, n), at + 1, rest, v)
  BY <1>4, ElementsRead DEF rest, n
<1> HIDE DEF s
<1>7. Obtains(s, at + 1, rest, << v >>)
  BY <1>5, <1>6, NestedValue DEF r
<1>8. (at + 1) + Len(rest) = at + Len(e)
  <2>1. Len(rest) \in Nat
    BY <1>2
  <2> QED BY <1>4, <2>1
<1> QED BY <1>7, <1>8 DEF Obtains

LEMMA MetricRead ==
  ASSUME NEW T, Closed(T), NEW wire \in Seq(T), NEW f, NEW g,
         f.is = "metric", NEW v, IsMetric(v, T),
         NEW at \in Nat, Stands(WriteField(f, v), wire, at)
  PROVE  Obtains(ReadMetric(g, wire, Reader(at)), at, WriteField(f, v), << v >>)
<1> DEFINE r == Reader(at)
           e == WriteField(f, v)
           s == ReadMetric(g, wire, r)
           kind == v[1]
           payload == v[2]
           fields == MetricPayload(kind)
           rest == WriteAll(fields, payload)
<1>1. r.at = at
  BY StartingCursor
<1>2. /\ v = << kind, payload >> /\ kind \in 0 .. 11 /\ IsAll(fields, payload, T)
      /\ SameAll(fields, fields)
  BY PayloadsAgree DEF IsMetric
<1>3. Stands(e, wire, at) /\ e = << kind >> \o rest
  BY DEF WriteField
<1>4. kind \in T
  BY <1>2, InClosed
<1>5. rest \in Seq(T)
  <2> HIDE DEF fields, payload
  <2> QED BY <1>2, AllWritten
<1> HIDE DEF r, e, rest, kind, payload, fields
<1>6. SUFFICES ASSUME s # Failed(r) PROVE Obtains(s, at, e, << v >>)
  BY <1>1, Refusal DEF r, e
<1>7. /\ Len(e) = 1 + Len(rest) /\ at + 1 \in Nat
      /\ wire[at + 1] = kind /\ Stands(rest, wire, at + 1)
  BY <1>3, <1>4, <1>5, Tokens
<1> DEFINE inner == ReadAll(fields, wire, at + 1)
<1>8. s = Nested(r, OfKind(kind, inner))
  BY <1>1, <1>6, <1>7 DEF ReadMetric, fields
<1>9. Obtains(inner, at + 1, rest, payload)
  BY <1>2, <1>7, AllRead DEF rest
<1> HIDE DEF s, inner
<1>10. Obtains(OfKind(kind, inner), at + 1, rest, v)
  BY <1>2, <1>9, OfKindCursor
<1>11. Obtains(s, at + 1, rest, << v >>)
  BY <1>8, <1>10, NestedValue DEF r
<1>12. (at + 1) + Len(rest) = at + Len(e)
  <2>1. Len(rest) \in Nat
    BY <1>5
  <2> QED BY <1>7, <2>1
<1> QED BY <1>11, <1>12 DEF Obtains

LEMMA FieldRead ==
  ASSUME NEW T, Closed(T), NEW wire \in Seq(T), NEW f, NEW g, SameField(f, g),
         NEW v, IsValue(f, v, T), NEW at \in Nat, Stands(WriteField(f, v), wire, at)
  PROVE  Obtains(ReadField(g, wire, Reader(at)), at, WriteField(f, v), << v >>)
<1>1. CASE f.is = "option"
  BY <1>1, OptionRead DEF SameField, IsValue, ReadField
<1>2. CASE f.is = "group"
  <2> DEFINE inner == ReadAll(g.of, wire, at)
  <2>1. /\ WriteField(f, v) = WriteAll(f.of, v)
        /\ SameAll(f.of, g.of) /\ IsAll(f.of, v, T)
        /\ ReadField(g, wire, Reader(at)) = Nested(Reader(at), inner)
    BY <1>2, StartingCursor DEF WriteField, SameField, IsValue, ReadField, ReadGroup
  <2>2. Obtains(inner, at, WriteAll(f.of, v), v)
    BY <2>1, AllRead
  <2> HIDE DEF inner
  <2>3. Obtains(Nested(Reader(at), inner), at, WriteAll(f.of, v), << v >>)
    BY <2>2, NestedValue
  <2> QED BY <2>1, <2>3
<1>3. CASE f.is = "list"
  BY <1>3, ListRead DEF SameField, IsValue, ReadField
<1>4. CASE f.is = "metric"
  BY <1>4, MetricRead DEF SameField, IsValue, ReadField
<1>5. CASE f.is \notin Compound
  <2> DEFINE r == Reader(at)
             s == ReadSimple(g, wire, r)
             e == WriteSimple(f, v)
  <2>1. g.is \notin Compound
    BY <1>5 DEF SameField, Same, TokenKind, Compound
  <2>2. WriteField(f, v) = e /\ Same(f, g) /\ IsSimple(f, v, T)
    BY <1>5 DEF WriteField, SameField, IsValue, Compound
  <2>3. ReadField(g, wire, r) = s
    BY <2>1 DEF ReadField, Compound
  <2>4. r.at = at /\ r.ok /\ r.value = << >> /\ Cursor(r)
    BY StartingCursor
  <2>5. Stands(e, wire, at)
    BY <2>2
  <2> HIDE DEF r, e
  <2>6. Cursor(s) /\ Passes(r, s, e, v)
    BY <2>2, <2>4, <2>5, SimpleRead, SimpleCursor DEF e
  <2>7. Append(<< >>, v) = << v >>
    OBVIOUS
  <2> HIDE DEF s
  <2>8. Obtains(s, at, e, << v >>)
    BY <2>4, <2>6, <2>7 DEF Obtains, Passes
  <2> QED BY <2>2, <2>3, <2>8 DEF r
<1> QED BY <1>1, <1>2, <1>3, <1>4, <1>5 DEF Compound

(* The reader refuses no part of the field: a list is of a length it may    *)
(* have, a metric value of a kind there is.                                 *)
TakesField(f, g, v) ==
  /\ f.is = "option" => v = << >> \/ TakesAll(f.of, g.of, v)
  /\ f.is = "group" => TakesAll(f.of, g.of, v)
  /\ f.is = "list" => Len(v) <= f.n /\ \A i \in 1 .. Len(v) : TakesAll(f.of, g.of, v[i])
  /\ f.is = "metric" =>
       v[1] <= g.n /\ TakesAll(MetricPayload(v[1]), MetricPayload(v[1]), v[2])
  /\ f.is \notin Compound => Takes(f, g, v)

LEMMA OfKindKeeps ==
  ASSUME NEW kind, NEW q, Cursor(q), q.ok
  PROVE  OfKind(kind, q).ok
<1> DEFINE o == q.ok
           a == q.at
           u == q.value
           w == << kind, u >>
<1>1. q = [ ok |-> o, at |-> a, value |-> u ]
  BY DEF Cursor
<1>2. OfKind(kind, q) = [ q EXCEPT !.value = w ]
  BY DEF OfKind
<1> HIDE DEF o, a, u, w
<1>3. [ [ ok |-> o, at |-> a, value |-> u ] EXCEPT !.value = w ].ok = o
  OBVIOUS
<1>4. OfKind(kind, q).ok = o
  BY <1>1, <1>2, <1>3, Zenon
<1> QED BY <1>4 DEF o

LEMMA OptionTaken ==
  ASSUME NEW T, Closed(T), NEW wire \in Seq(T), NEW f, NEW g, SameAll(f.of, g.of),
         f.is = "option", NEW v,
         v = << >> \/ (IsAll(f.of, v, T) /\ TakesAll(f.of, g.of, v)),
         NEW at \in Nat, Stands(WriteField(f, v), wire, at)
  PROVE  ReadOption(g, wire, Reader(at)).ok
<1> DEFINE r == Reader(at)
           e == WriteField(f, v)
           s == ReadOption(g, wire, r)
<1>1. r.at = at /\ r.ok
  BY StartingCursor
<1>2. Stands(e, wire, at) /\ Len(wire) \in Nat
  OBVIOUS
<1> HIDE DEF r, e
<1>3. CASE v = << >>
  <2>1. e = << 0 >>
    BY <1>3 DEF e, WriteField
  <2>2. wire[at + 1] = 0 /\ at + 1 <= Len(wire)
    BY <1>2, <2>1 DEF Stands
  <2>3. s = Took(r, 1, << >>)
    BY <1>1, <2>2 DEF ReadOption, Has
  <2> HIDE DEF s
  <2> QED BY <1>1, <2>3, TookCursor DEF s, r
<1>4. CASE v # << >>
  <2> DEFINE rest == WriteAll(f.of, v)
             inner == ReadAll(g.of, wire, at + 1)
  <2>1. IsAll(f.of, v, T) /\ TakesAll(f.of, g.of, v) /\ rest \in Seq(T)
    BY <1>4, AllWritten
  <2>2. e = << 1 >> \o rest
    BY <1>4 DEF e, WriteField
  <2> HIDE DEF rest
  <2>3. 1 \in T /\ Len(rest) \in Nat
    BY <2>1, InClosed
  <2>4. /\ Len(e) = 1 + Len(rest) /\ at + 1 \in Nat
        /\ wire[at + 1] = 1 /\ Stands(rest, wire, at + 1)
    BY <1>2, <2>1, <2>2, <2>3, Tokens
  <2>5. Has(r, wire, 1)
    BY <1>1, <1>2, <2>3, <2>4 DEF Has, Stands
  <2>6. s = Nested(r, inner)
    BY <1>1, <2>4, <2>5 DEF ReadOption
  <2>7. inner.ok /\ Obtains(inner, at + 1, rest, v)
    BY <2>1, <2>4, AllRead DEF rest
  <2> HIDE DEF s, inner
  <2>8. s.ok
    BY <1>1, <2>6, <2>7, NestedKeeps DEF Obtains
  <2> QED BY <2>8 DEF s, r
<1> QED BY <1>3, <1>4

LEMMA ListTaken ==
  ASSUME NEW T, Closed(T), NEW wire \in Seq(T), NEW f, NEW g, SameAll(f.of, g.of),
         f.is = "list", g.n = f.n, NEW v \in Seq(T), Len(v) <= f.n,
         \A i \in 1 .. Len(v) : IsAll(f.of, v[i], T) /\ TakesAll(f.of, g.of, v[i]),
         NEW at \in Nat, Stands(WriteField(f, v), wire, at)
  PROVE  ReadList(g, wire, Reader(at)).ok
<1> DEFINE r == Reader(at)
           e == WriteField(f, v)
           s == ReadList(g, wire, r)
           rest == WriteElements(f.of, v)
           n == Len(v)
           inner == ReadElements(g.of, wire, at + 1, n)
<1>1. r.at = at /\ r.ok
  BY StartingCursor
<1>2. /\ Stands(e, wire, at) /\ rest \in Seq(T) /\ e = << n >> \o rest /\ n \in T
      /\ Len(wire) \in Nat /\ n \in Nat /\ n <= g.n
  BY ElementsWritten, InClosed DEF WriteField
<1> HIDE DEF r, e, rest, n
<1>3. Len(rest) \in Nat
  BY <1>2
<1>4. /\ Len(e) = 1 + Len(rest) /\ at + 1 \in Nat
      /\ wire[at + 1] = n /\ Stands(rest, wire, at + 1)
  BY <1>2, Tokens
<1>5. Has(r, wire, 1)
  BY <1>1, <1>2, <1>3, <1>4 DEF Has, Stands
<1>6. wire[r.at + 1] <= g.n
  BY <1>1, <1>2, <1>4
<1>7. s = Nested(r, inner)
  BY <1>1, <1>4, <1>5, <1>6 DEF ReadList
<1>8. inner.ok /\ Obtains(inner, at + 1, rest, v)
  <2>1. /\ Stands(WriteElements(f.of, v), wire, at + 1)
        /\ \A i \in 1 .. Len(v) : IsAll(f.of, v[i], T)
        /\ \A i \in 1 .. Len(v) : TakesAll(f.of, g.of, v[i])
    BY <1>4 DEF rest
  <2> QED BY <1>4, <2>1, ElementsRead DEF rest, n
<1> HIDE DEF s, inner
<1>9. s.ok
  BY <1>1, <1>7, <1>8, NestedKeeps DEF Obtains
<1> QED BY <1>9 DEF s, r

LEMMA MetricTaken ==
  ASSUME NEW T, Closed(T), NEW wire \in Seq(T), NEW f, NEW g,
         f.is = "metric", NEW v, IsMetric(v, T), v[1] <= g.n,
         TakesAll(MetricPayload(v[1]), MetricPayload(v[1]), v[2]),
         NEW at \in Nat, Stands(WriteField(f, v), wire, at)
  PROVE  ReadMetric(g, wire, Reader(at)).ok
<1> DEFINE r == Reader(at)
           e == WriteField(f, v)
           s == ReadMetric(g, wire, r)
           kind == v[1]
           payload == v[2]
           fields == MetricPayload(kind)
           rest == WriteAll(fields, payload)
<1>1. r.at = at /\ r.ok
  BY StartingCursor
<1>2. /\ kind \in 0 .. 11 /\ IsAll(fields, payload, T) /\ SameAll(fields, fields)
      /\ TakesAll(fields, fields, payload) /\ kind <= g.n
  BY PayloadsAgree DEF IsMetric
<1>3. Stands(e, wire, at) /\ e = << kind >> \o rest /\ Len(wire) \in Nat
  BY DEF WriteField
<1>4. kind \in T
  BY <1>2, InClosed
<1>5. rest \in Seq(T)
  <2> HIDE DEF fields, payload
  <2> QED BY <1>2, AllWritten
<1> HIDE DEF r, e, rest, kind, payload, fields
<1>6. Len(rest) \in Nat
  BY <1>5
<1>7. /\ Len(e) = 1 + Len(rest) /\ at + 1 \in Nat
      /\ wire[at + 1] = kind /\ Stands(rest, wire, at + 1)
  BY <1>3, <1>4, <1>5, Tokens
<1>8. Has(r, wire, 1) /\ wire[r.at + 1] <= g.n
  BY <1>1, <1>2, <1>3, <1>6, <1>7 DEF Has, Stands
<1> DEFINE inner == ReadAll(fields, wire, at + 1)
<1>9. s = Nested(r, OfKind(kind, inner))
  BY <1>1, <1>7, <1>8 DEF ReadMetric, fields
<1>10. inner.ok /\ Obtains(inner, at + 1, rest, payload)
  BY <1>2, <1>7, AllRead DEF rest
<1> HIDE DEF s, inner
<1>11. OfKind(kind, inner).ok /\ Cursor(OfKind(kind, inner))
  BY <1>10, OfKindKeeps, OfKindCursor DEF Obtains
<1>12. s.ok
  BY <1>1, <1>9, <1>11, NestedKeeps
<1> QED BY <1>12 DEF s, r

LEMMA FieldTaken ==
  ASSUME NEW T, Closed(T), NEW wire \in Seq(T), NEW f, NEW g, SameField(f, g),
         NEW v, IsValue(f, v, T), TakesField(f, g, v),
         NEW at \in Nat, Stands(WriteField(f, v), wire, at)
  PROVE  ReadField(g, wire, Reader(at)).ok
<1>1. CASE f.is = "option"
  <2>1. /\ SameAll(f.of, g.of) /\ g.is = "option"
        /\ v = << >> \/ (IsAll(f.of, v, T) /\ TakesAll(f.of, g.of, v))
    BY <1>1 DEF SameField, IsValue, TakesField
  <2> QED BY <1>1, <2>1, OptionTaken DEF ReadField
<1>2. CASE f.is = "group"
  <2> DEFINE inner == ReadAll(g.of, wire, at)
  <2>1. /\ WriteField(f, v) = WriteAll(f.of, v)
        /\ SameAll(f.of, g.of) /\ IsAll(f.of, v, T) /\ TakesAll(f.of, g.of, v)
        /\ ReadField(g, wire, Reader(at)) = Nested(Reader(at), inner)
    BY <1>2, StartingCursor
    DEF WriteField, SameField, IsValue, ReadField, ReadGroup, TakesField
  <2>2. inner.ok /\ Obtains(inner, at, WriteAll(f.of, v), v)
    BY <2>1, AllRead
  <2> HIDE DEF inner
  <2>3. Nested(Reader(at), inner).ok
    BY <2>2, StartingCursor, NestedKeeps DEF Obtains
  <2> QED BY <2>1, <2>3
<1>3. CASE f.is = "list"
  <2>1. /\ SameAll(f.of, g.of) /\ g.is = "list" /\ g.n = f.n
        /\ v \in Seq(T) /\ Len(v) <= f.n
        /\ \A i \in 1 .. Len(v) : IsAll(f.of, v[i], T) /\ TakesAll(f.of, g.of, v[i])
    BY <1>3 DEF SameField, IsValue, TakesField
  <2> QED BY <1>3, <2>1, ListTaken DEF ReadField
<1>4. CASE f.is = "metric"
  <2>1. /\ g.is = "metric" /\ IsMetric(v, T) /\ v[1] <= g.n
        /\ TakesAll(MetricPayload(v[1]), MetricPayload(v[1]), v[2])
    BY <1>4 DEF SameField, IsValue, TakesField
  <2> QED BY <1>4, <2>1, MetricTaken DEF ReadField
<1>5. CASE f.is \notin Compound
  <2> DEFINE r == Reader(at)
  <2>1. g.is \notin Compound
    BY <1>5 DEF SameField, Same, TokenKind, Compound
  <2>2. /\ WriteField(f, v) = WriteSimple(f, v)
        /\ Same(f, g) /\ IsSimple(f, v, T) /\ Takes(f, g, v)
    BY <1>5 DEF WriteField, SameField, IsValue, Compound, TakesField
  <2>3. ReadField(g, wire, r) = ReadSimple(g, wire, r)
    BY <2>1 DEF ReadField, Compound
  <2>4. r.at = at /\ r.ok
    BY StartingCursor
  <2> HIDE DEF r
  <2>5. ReadSimple(g, wire, r).ok
    BY <2>2, <2>4, SimpleTaken
  <2> QED BY <2>3, <2>5 DEF r
<1> QED BY <1>1, <1>2, <1>3, <1>4, <1>5 DEF Compound

-----------------------------------------------------------------------------
(* The fields of a layout, into the function from their names to values.    *)

SameLayout(W, R) ==
  /\ Len(W) \in Nat /\ Len(R) = Len(W)
  /\ \A i \in 1 .. Len(W) : R[i][1] = W[i][1] /\ SameField(W[i][2], R[i][2])

NamesOf(W, m) == { W[i][1] : i \in 1 .. m }

IsBody(W, body, T) ==
  /\ body = [ x \in NamesOf(W, Len(W)) |-> body[x] ]
  /\ \A i \in 1 .. Len(W) : IsValue(W[i][2], body[W[i][1]], T)

(* The reader of the layout refuses no field of the body. *)
TakesFields(W, R, body) ==
  \A i \in 1 .. Len(W) : TakesField(W[i][2], R[i][2], body[W[i][1]])

WrittenFields(W, body) ==
  [ i \in 1 .. Len(W) |-> WriteField(W[i][2], body[W[i][1]]) ]

LEMMA FieldsWritten ==
  ASSUME NEW T, Closed(T), NEW W, NEW R, SameLayout(W, R),
         NEW body, IsBody(W, body, T)
  PROVE  LET pieces == WrittenFields(W, body) IN
         /\ pieces \in Seq(Seq(T)) /\ Len(pieces) = Len(W)
         /\ \A i \in 1 .. Len(W) : pieces[i] = WriteField(W[i][2], body[W[i][1]])
         /\ WriteFields(W, body) = FlattenSeq(pieces)
         /\ WriteFields(W, body) \in Seq(T)
<1> DEFINE pieces == WrittenFields(W, body)
           n == Len(W)
<1>1. \A i \in 1 .. n : WriteField(W[i][2], body[W[i][1]]) \in Seq(T)
  BY FieldWritten DEF SameLayout, IsBody
<1>2. n \in Nat
  BY DEF SameLayout
<1>3. WriteFields(W, body) = FlattenSeq(pieces)
  BY DEF WriteFields, WrittenFields
<1> HIDE DEF n
<1>4. pieces = [ i \in 1 .. n |-> WriteField(W[i][2], body[W[i][1]]) ]
  BY DEF WrittenFields, n
<1> HIDE DEF pieces
<1>5. /\ pieces \in Seq(Seq(T)) /\ Len(pieces) = n
      /\ \A i \in 1 .. n : pieces[i] = WriteField(W[i][2], body[W[i][1]])
  BY <1>1, <1>2, <1>4
<1>6. FlattenSeq(pieces) \in Seq(T)
  BY <1>5, PiecesAreLocated
<1> QED BY <1>3, <1>5, <1>6 DEF pieces, n

NextField(R, wire, i, q) == Named(R[i][1], q, ReadField(R[i][2], wire, Reader(q.at)))

ReadsFields(R, wire, at, m, g) ==
  g = [ i \in 0 .. m |-> IF i = 0 THEN Reader(at) ELSE NextField(R, wire, i, g[i - 1]) ]

LEMMA FieldsCanBeRead ==
  ASSUME NEW R, NEW wire, NEW at, NEW n \in Nat
  PROVE  \E g : ReadsFields(R, wire, at, n, g)
<1> DEFINE M == { m \in Nat : \E g : ReadsFields(R, wire, at, m, g) }
<1>1. 0 \in M
  <2>1. ReadsFields(R, wire, at, 0, [ i \in 0 .. 0 |-> Reader(at) ])
    BY DEF ReadsFields
  <2> QED BY <2>1
<1>2. ASSUME NEW m \in Nat, m \in M PROVE m + 1 \in M
  <2>1. PICK g : ReadsFields(R, wire, at, m, g)
    BY <1>2
  <2> DEFINE h == [ i \in 0 .. m + 1 |->
                      IF i <= m THEN g[i] ELSE NextField(R, wire, m + 1, g[m]) ]
  <2>2. \A i \in 0 .. m :
          g[i] = IF i = 0 THEN Reader(at) ELSE NextField(R, wire, i, g[i - 1])
    <3> HIDE DEF h
    <3> QED BY <2>1 DEF ReadsFields
  <2>3. \A i \in 0 .. m + 1 :
          h[i] = IF i = 0 THEN Reader(at) ELSE NextField(R, wire, i, h[i - 1])
    <3> SUFFICES ASSUME NEW i \in 0 .. m + 1
                 PROVE  h[i] = IF i = 0 THEN Reader(at)
                               ELSE NextField(R, wire, i, h[i - 1])
      OBVIOUS
    <3>1. CASE i = 0
      BY <2>2, <3>1
    <3>2. CASE i # 0 /\ i <= m
      <4>1. h[i] = g[i] /\ h[i - 1] = g[i - 1] /\ i \in 0 .. m
        BY <3>2
      <4> QED BY <2>2, <3>2, <4>1
    <3>3. CASE i = m + 1
      <4>1. h[i] = NextField(R, wire, m + 1, g[m]) /\ h[i - 1] = g[m]
        BY <3>3
      <4> QED BY <3>3, <4>1
    <3> QED BY <3>1, <3>2, <3>3
  <2>4. h = [ i \in 0 .. m + 1 |-> h[i] ]
    OBVIOUS
  <2> HIDE DEF h
  <2>5. ReadsFields(R, wire, at, m + 1, h)
    BY <2>3, <2>4 DEF ReadsFields
  <2> QED BY <2>5
<1> HIDE DEF M
<1>3. Nat \subseteq M
  BY <1>1, <1>2, Induction
<1> QED BY <1>3 DEF M

LEMMA FieldsAreRead ==
  ASSUME NEW R, NEW wire, NEW at, Len(R) \in Nat
  PROVE  \E g : /\ g[0] = Reader(at) /\ ReadFields(R, wire, at) = g[Len(R)]
                /\ \A i \in 1 .. Len(R) : g[i] = NextField(R, wire, i, g[i - 1])
<1> DEFINE n == Len(R)
           r[i \in 0 .. n] ==
             IF i = 0 THEN Reader(at)
             ELSE LET before == r[i - 1]
                  IN Named(R[i][1], before, ReadField(R[i][2], wire, Reader(before.at)))
<1>1. ReadFields(R, wire, at) = r[n]
  BY DEF ReadFields
<1>2. r = CHOOSE g : ReadsFields(R, wire, at, n, g)
  BY DEF ReadsFields, NextField
<1> HIDE DEF r
<1>3. \E g : ReadsFields(R, wire, at, n, g)
  BY FieldsCanBeRead
<1>4. ReadsFields(R, wire, at, n, r)
  BY <1>2, <1>3
<1> HIDE DEF n
<1>5. n \in Nat
  BY DEF n
<1>6. r[0] = Reader(at) /\ \A i \in 1 .. n : r[i] = NextField(R, wire, i, r[i - 1])
  BY <1>4, <1>5 DEF ReadsFields
<1> QED BY <1>1, <1>6 DEF n

(* One more field: its value is that of the body. *)
LEMMA FieldAdded ==
  ASSUME NEW W, NEW body, NEW m \in Nat, NEW v, v = << body[W[m + 1][1]] >>
  PROVE  WithField([ x \in NamesOf(W, m) |-> body[x] ], W[m + 1][1], v[1])
           = [ x \in NamesOf(W, m + 1) |-> body[x] ]
<1> DEFINE name == W[m + 1][1]
           old == NamesOf(W, m)
           f == [ x \in old |-> body[x] ]
<1>1. v[1] = body[name]
  OBVIOUS
<1>2. NamesOf(W, m + 1) = old \cup { name }
  <2>1. 1 .. m + 1 = (1 .. m) \cup { m + 1 }
    OBVIOUS
  <2> QED BY <2>1 DEF NamesOf
<1>3. DOMAIN f = old /\ \A x \in old : f[x] = body[x]
  OBVIOUS
<1> HIDE DEF name, old, f
<1>4. WithField(f, name, v[1]) = [ x \in old \cup { name } |-> body[x] ]
  BY <1>1, <1>3 DEF WithField
<1> QED BY <1>2, <1>4 DEF f, old, name

(* What the reader makes of a layout: the body that was written. *)
LEMMA FieldsRead ==
  ASSUME NEW T, Closed(T), NEW wire \in Seq(T), NEW W, NEW R, SameLayout(W, R),
         NEW body, IsBody(W, body, T), NEW at \in Nat,
         Stands(WriteFields(W, body), wire, at)
  PROVE  /\ Obtains(ReadFields(R, wire, at), at, WriteFields(W, body), body)
         /\ TakesFields(W, R, body) => ReadFields(R, wire, at).ok
<1> DEFINE n == Len(W)
           pieces == WrittenFields(W, body)
           s == ReadFields(R, wire, at)
           flat == WriteFields(W, body)
<1>1. /\ pieces \in Seq(Seq(T)) /\ Len(pieces) = n
      /\ \A i \in 1 .. n : pieces[i] = WriteField(W[i][2], body[W[i][1]])
      /\ flat = FlattenSeq(pieces) /\ Stands(flat, wire, at)
  BY FieldsWritten
<1>2. n \in Nat /\ Len(R) = n
  BY DEF SameLayout
<1>3. PICK g : /\ g[0] = Reader(at) /\ s = g[n]
               /\ \A i \in 1 .. n : g[i] = NextField(R, wire, i, g[i - 1])
  <2> HIDE DEF n, s
  <2>1. Len(R) \in Nat
    BY <1>2
  <2>2. \E g : /\ g[0] = Reader(at) /\ ReadFields(R, wire, at) = g[Len(R)]
               /\ \A i \in 1 .. Len(R) : g[i] = NextField(R, wire, i, g[i - 1])
    BY <2>1, FieldsAreRead
  <2> QED BY <1>2, <2>2 DEF s
<1> HIDE DEF pieces, s, flat, n
<1>4. PICK b \in [ 0 .. n -> Nat ] :
           /\ b[0] = 0 /\ b[n] = Len(flat)
           /\ \A i \in 1 .. n :
                /\ b[i] = b[i - 1] + Len(pieces[i])
                /\ at + b[i - 1] \in Nat
                /\ Stands(pieces[i], wire, at + b[i - 1])
  <2>1. Stands(FlattenSeq(pieces), wire, at)
    BY <1>1
  <2>2. \E b \in [ 0 .. Len(pieces) -> Nat ] :
           /\ b[0] = 0 /\ b[Len(pieces)] = Len(FlattenSeq(pieces))
           /\ \A i \in 1 .. Len(pieces) :
                /\ b[i] = b[i - 1] + Len(pieces[i])
                /\ at + b[i - 1] \in Nat
                /\ Stands(pieces[i], wire, at + b[i - 1])
    BY <1>1, <2>1, LocatedInside
  <2> QED BY <1>1, <2>2, Zenon
<1> DEFINE Part(m) == [ x \in NamesOf(W, m) |-> body[x] ]
           Good(m) == /\ Cursor(g[m])
                      /\ g[m].ok => g[m].at = at + b[m] /\ g[m].value = Part(m)
                      /\ TakesFields(W, R, body) => g[m].ok
           M == { m \in Nat : m <= n => Good(m) }
<1> HIDE DEF Part, Good
<1>5. 0 \in M
  <2>1. Cursor(g[0]) /\ g[0].ok /\ g[0].at = at + b[0] /\ g[0].value = << >>
    BY <1>3, <1>4, StartingCursor
  <2>2. NamesOf(W, 0) = {}
    BY DEF NamesOf
  <2>3. << >> = Part(0)
    BY <2>2 DEF Part
  <2>4. Good(0)
    BY <2>1, <2>3 DEF Good
  <2> QED BY <2>4
<1>6. ASSUME NEW m \in Nat, m \in M PROVE m + 1 \in M
  <2>1. SUFFICES ASSUME m + 1 <= n PROVE Good(m + 1)
    OBVIOUS
  <2> DEFINE i == m + 1
             q == g[m]
             f == W[i][2]
             h == R[i][2]
             v == body[W[i][1]]
             e == pieces[i]
             c == b[m]
             inner == ReadField(h, wire, Reader(q.at))
  <2>2. i \in 1 .. n /\ i - 1 = m /\ Good(m)
    BY <1>2, <1>6, <2>1
  <2>3. R[i][1] = W[i][1] /\ SameField(f, h) /\ IsValue(f, v, T)
    <3> HIDE DEF i
    <3> QED BY <2>2 DEF SameLayout, IsBody, n
  <2>4. g[i] = Named(W[i][1], q, inner)
    <3>1. g[i] = NextField(R, wire, i, g[i - 1])
      <4> HIDE DEF i
      <4> QED BY <1>3, <2>2
    <3>2. NextField(R, wire, i, q) = Named(R[i][1], q, inner)
      BY DEF NextField
    <3> HIDE DEF q, inner, i
    <3> QED BY <2>2, <2>3, <3>1, <3>2 DEF q
  <2>5. /\ e = WriteField(f, v) /\ e \in Seq(T) /\ Len(e) \in Nat /\ c \in Nat
        /\ b[i] = c + Len(e) /\ at + c \in Nat /\ Stands(e, wire, at + c)
    <3> HIDE DEF i
    <3>1. pieces[i] = WriteField(W[i][2], body[W[i][1]]) /\ pieces[i] \in Seq(T)
      BY <1>1, <2>2
    <3>2. /\ b[i] = b[i - 1] + Len(pieces[i]) /\ at + b[i - 1] \in Nat
          /\ Stands(pieces[i], wire, at + b[i - 1])
      BY <1>4, <2>2
    <3>3. b[m] \in Nat
      <4>1. m \in 0 .. n
        BY <1>2, <2>1
      <4> QED BY <1>4, <4>1
    <3> QED BY <2>2, <3>1, <3>2, <3>3
  <2>6. /\ Cursor(q) /\ (q.ok => q.at = at + c /\ q.value = Part(m))
        /\ TakesFields(W, R, body) => q.ok
    BY <2>2 DEF Good
  <2>9. TakesFields(W, R, body) => TakesField(f, h, v)
    <3> HIDE DEF i
    <3> QED BY <2>2 DEF TakesFields, n
  <2> HIDE DEF q, f, h, v, e, c, inner, i
  <2>7. CASE q.ok
    <3>1. inner = ReadField(h, wire, Reader(at + c))
      BY <2>6, <2>7 DEF inner
    <3>2. Obtains(inner, at + c, e, << v >>)
      BY <2>3, <2>5, <3>1, FieldRead
    <3> DEFINE u == << v >>
    <3> HIDE DEF u
    <3>3. Cursor(inner) /\ (inner.ok => inner.at = (at + c) + Len(e) /\ inner.value = u)
      BY <3>2 DEF Obtains, u
    <3>4. /\ Cursor(g[i])
          /\ g[i].ok => /\ inner.ok /\ g[i].at = inner.at
                        /\ g[i].value = WithField(q.value, W[i][1], inner.value[1])
      BY <2>4, <2>6, <3>3, NamedCursor
    <3>5. WithField(Part(m), W[i][1], u[1]) = Part(i)
      <4>1. u = << body[W[m + 1][1]] >>
        BY DEF u, v, i
      <4>2. WithField([ x \in NamesOf(W, m) |-> body[x] ], W[m + 1][1], u[1])
              = [ x \in NamesOf(W, m + 1) |-> body[x] ]
        BY <4>1, FieldAdded
      <4> QED BY <4>2, Zenon DEF Part, i
    <3>6. ASSUME g[i].ok PROVE g[i].at = at + b[i] /\ g[i].value = Part(i)
      <4>1. /\ g[i].at = (at + c) + Len(e)
            /\ g[i].value = WithField(q.value, W[i][1], u[1])
        BY <3>3, <3>4, <3>6
      <4>2. g[i].value = Part(i)
        BY <2>6, <2>7, <3>5, <4>1
      <4> QED BY <2>5, <4>1, <4>2
    <3>7. ASSUME TakesFields(W, R, body) PROVE g[i].ok
      <4>1. inner.ok
        BY <2>3, <2>5, <2>9, <3>1, <3>7, FieldTaken
      <4> QED BY <2>4, <2>7, <3>3, <4>1, NamedKeeps
    <3> QED BY <3>4, <3>6, <3>7 DEF Good, i
  <2>8. CASE ~q.ok
    <3>1. g[i] = Failed(q)
      BY <2>4, <2>8 DEF Named
    <3>2. Cursor(g[i]) /\ ~g[i].ok
      BY <2>6, <3>1, FailedCursor
    <3> QED BY <2>6, <2>8, <3>2 DEF Good, i
  <2> QED BY <2>7, <2>8
<1> HIDE DEF M
<1>7. Nat \subseteq M
  BY <1>5, <1>6, Induction
<1>8. Good(n)
  BY <1>2, <1>7 DEF M
<1>9. Part(n) = body
  BY DEF Part, IsBody, n
<1>10. /\ Cursor(s) /\ (s.ok => s.at = at + Len(flat) /\ s.value = body)
       /\ TakesFields(W, R, body) => s.ok
  BY <1>3, <1>4, <1>8, <1>9 DEF Good
<1> QED BY <1>10 DEF Obtains, s, flat

-----------------------------------------------------------------------------
(* For every record type the reader's layout is the writer's.               *)

LEMMA SimpleAgrees ==
  /\ \A name \in DOMAIN Domain : Same(Id(name), Id(name))
  /\ \A limit : Same(Text(limit), Text(limit))
  /\ Same(Word, Word) /\ Same(Boolean, Boolean) /\ Same(Subject, Subject)
  /\ \A n : Same(Byte, Enum(n)) /\ Same(Byte, Code(n)) /\ Same(Word, Enum(n))
<1>1. \A name \in DOMAIN Domain : Domain[name] \in Nat
  BY DEF Domain
<1>2. ASSUME NEW name \in DOMAIN Domain PROVE Same(Id(name), Id(name))
  <2>1. Domain[name] \in Nat
    BY <1>1
  <2> QED BY <2>1 DEF Same, Id, Tagged, Field
<1>3. \A limit : Same(Text(limit), Text(limit))
  BY DEF Same, Text, Field
<1> QED
  BY <1>2, <1>3 DEF Same, TokenKind, Word, Boolean, Subject, Byte, Enum, Code, Field

LEMMA PartsAgree ==
  ASSUME NEW f, NEW g, Same(f, g)
  PROVE  /\ SameAll(<< f >>, << g >>)
         /\ \A f2, g2 : Same(f2, g2) =>
              /\ SameAll(<< f, f2 >>, << g, g2 >>)
              /\ \A f3, g3 : Same(f3, g3) =>
                   /\ SameAll(<< f, f2, f3 >>, << g, g2, g3 >>)
                   /\ \A f4, g4 : Same(f4, g4) =>
                        SameAll(<< f, f2, f3, f4 >>, << g, g2, g3, g4 >>)
  BY DEF SameAll

LEMMA CompoundAgrees ==
  ASSUME NEW fs, NEW gs, SameAll(fs, gs)
  PROVE  /\ Len(fs) # 0 => SameField(Option(fs), Option(gs))
         /\ SameField(Group(fs), Group(gs))
         /\ \A limit : SameField(List(limit, fs), List(limit, gs))
<1>1. Len(fs) # 0 => SameField(Option(fs), Option(gs))
  BY DEF SameField, Option, Field, Compound
<1>2. SameField(Group(fs), Group(gs))
  BY DEF SameField, Group, Field, Compound
<1>3. ASSUME NEW limit PROVE SameField(List(limit, fs), List(limit, gs))
  BY DEF SameField, List, Field, Compound
<1> QED BY <1>1, <1>2, <1>3

LEMMA SimpleFieldsAgree ==
  ASSUME NEW f, NEW g, Same(f, g)
  PROVE  SameField(f, g)
  BY DEF Same, SameField, TokenKind, Compound

Ids == { "Session", "Hypothesis", "HypothesisGeneration", "Experiment",
         "ExperimentGeneration", "Branch", "Attempt", "AttemptGeneration", "ModelCall",
         "ToolCall", "Input", "Artifact", "ArtifactGeneration", "Observation", "Metric",
         "Failure", "Decision", "Result", "ResultGeneration", "Worker", "WorkerBoot",
         "CoordinatorEpoch", "LedgerGeneration", "RecordSequence", "Record",
         "PolicyGeneration" }

LEMMA IdsAreTagged == Ids \subseteq DOMAIN Domain
  BY DEF Ids, Domain

(* Every kind of field that the layouts use. *)
LEMMA FieldsAgree ==
  /\ \A name \in Ids :
       /\ SameField(Id(name), Id(name))
       /\ SameField(Option(<< Id(name) >>), Option(<< Id(name) >>))
       /\ \A limit : SameField(List(limit, << Id(name) >>), List(limit, << Id(name) >>))
  /\ SameField(Option(<< Id("Hypothesis"), Id("HypothesisGeneration") >>),
               Option(<< Id("Hypothesis"), Id("HypothesisGeneration") >>))
  /\ SameField(Label, Label) /\ SameField(String, String)
  /\ \A limit : SameField(Text(limit), Text(limit))
  /\ SameField(Word, Word) /\ SameField(Boolean, Boolean)
  /\ SameField(Subject, Subject) /\ SameField(Metric, Metric)
  /\ SameField(OptionalDigest, OptionalDigest)
  /\ \A n : /\ SameField(Byte, Enum(n)) /\ SameField(Byte, Code(n))
            /\ SameField(Word, Enum(n))
  /\ SameField(WrittenMeasure, ReadMeasure) /\ SameField(WrittenMonetary, ReadMonetary)
  /\ \A limit, key, value :
       SameField(List(limit, << Text(key), Text(value) >>),
                 List(limit, << Text(key), Text(value) >>))
  /\ \A limit : SameField(List(limit, << Id("Input"), String >>),
                          List(limit, << Id("Input"), String >>))
  /\ \A limit : SameField(List(limit, << String >>), List(limit, << String >>))
  /\ \A limit : SameField(List(limit, << Subject, Id("RecordSequence") >>),
                          List(limit, << Subject, Id("RecordSequence") >>))
<1>1. \A name \in Ids : Same(Id(name), Id(name))
  BY SimpleAgrees, IdsAreTagged
<1>2. ASSUME NEW name \in Ids
      PROVE  /\ SameField(Id(name), Id(name))
             /\ SameField(Option(<< Id(name) >>), Option(<< Id(name) >>))
             /\ \A limit : SameField(List(limit, << Id(name) >>), List(limit, << Id(name) >>))
  <2> DEFINE f == Id(name)
  <2>1. Same(f, f)
    BY <1>1
  <2> HIDE DEF f
  <2>2. SameAll(<< f >>, << f >>) /\ SameField(f, f) /\ Len(<< f >>) # 0
    BY <2>1, PartsAgree, SimpleFieldsAgree
  <2> QED BY <2>2, CompoundAgrees DEF f
<1>3. /\ "Hypothesis" \in Ids /\ "HypothesisGeneration" \in Ids
      /\ "Input" \in Ids /\ "RecordSequence" \in Ids
  BY DEF Ids
<1>4. SameField(Option(<< Id("Hypothesis"), Id("HypothesisGeneration") >>),
                Option(<< Id("Hypothesis"), Id("HypothesisGeneration") >>))
  <2> DEFINE f == Id("Hypothesis")
             g == Id("HypothesisGeneration")
  <2>1. Same(f, f) /\ Same(g, g)
    BY <1>1, <1>3
  <2> HIDE DEF f, g
  <2>2. SameAll(<< f, g >>, << f, g >>)
    BY <2>1, PartsAgree
  <2>3. Len(<< f, g >>) # 0
    OBVIOUS
  <2>4. SameField(Option(<< f, g >>), Option(<< f, g >>))
    BY <2>2, <2>3, CompoundAgrees
  <2> QED BY <2>4 DEF f, g
<1>5. /\ SameField(Label, Label) /\ SameField(String, String)
      /\ \A limit : SameField(Text(limit), Text(limit))
      /\ SameField(Word, Word) /\ SameField(Boolean, Boolean)
      /\ SameField(Subject, Subject)
      /\ \A n : /\ SameField(Byte, Enum(n)) /\ SameField(Byte, Code(n))
                /\ SameField(Word, Enum(n))
  BY SimpleAgrees, SimpleFieldsAgree DEF Label, String
<1>6. SameField(Metric, Metric)
  BY DEF SameField, Metric, Field, Compound
<1>7. SameField(OptionalDigest, OptionalDigest)
  <2>1. SameAll(<< Word >>, << Word >>) /\ Len(<< Word >>) # 0
    BY SimpleAgrees, PartsAgree
  <2> QED BY <2>1, CompoundAgrees DEF OptionalDigest
<1>8. SameField(WrittenMeasure, ReadMeasure) /\ SameField(WrittenMonetary, ReadMonetary)
  <2> DEFINE code == Code(6)
  <2>1. /\ Same(Boolean, Boolean) /\ Same(Word, Word) /\ Same(Label, Label)
        /\ Same(Byte, code)
    BY SimpleAgrees DEF Label
  <2> HIDE DEF code
  <2>2. SameAll(<< Boolean, Word, Byte >>, << Boolean, Word, code >>)
    BY <2>1, PartsAgree
  <2>3. SameAll(<< Boolean, Word, Label, Byte >>, << Boolean, Word, Label, code >>)
    BY <2>1, PartsAgree
  <2> QED BY <2>2, <2>3, CompoundAgrees
          DEF WrittenMeasure, ReadMeasure, WrittenMonetary, ReadMonetary, code
<1>9. ASSUME NEW limit, NEW key, NEW value
      PROVE  SameField(List(limit, << Text(key), Text(value) >>),
                       List(limit, << Text(key), Text(value) >>))
  <2> DEFINE f == Text(key)
             g == Text(value)
  <2>1. Same(f, f) /\ Same(g, g)
    BY SimpleAgrees
  <2> HIDE DEF f, g
  <2>2. SameAll(<< f, g >>, << f, g >>)
    BY <2>1, PartsAgree
  <2> QED BY <2>2, CompoundAgrees DEF f, g
<1>10. ASSUME NEW limit
       PROVE  /\ SameField(List(limit, << Id("Input"), String >>),
                           List(limit, << Id("Input"), String >>))
              /\ SameField(List(limit, << String >>), List(limit, << String >>))
              /\ SameField(List(limit, << Subject, Id("RecordSequence") >>),
                           List(limit, << Subject, Id("RecordSequence") >>))
  <2> DEFINE f == Id("Input")
             g == Id("RecordSequence")
  <2>1. Same(f, f) /\ Same(g, g) /\ Same(String, String) /\ Same(Subject, Subject)
    BY <1>1, <1>3, SimpleAgrees DEF String
  <2> HIDE DEF f, g
  <2>2. SameAll(<< f, String >>, << f, String >>)
    BY <2>1, PartsAgree
  <2>3. SameAll(<< String >>, << String >>)
    BY <2>1, PartsAgree
  <2>4. SameAll(<< Subject, g >>, << Subject, g >>)
    BY <2>1, PartsAgree
  <2> QED BY <2>2, <2>3, <2>4, CompoundAgrees DEF f, g
<1> QED BY <1>2, <1>4, <1>5, <1>6, <1>7, <1>8, <1>9, <1>10

LEMMA SessionOpenedAgrees == SameLayout(WriteSessionOpened, ReadSessionOpened)
<1> DEFINE session == Id("Session")
           metadataList ==
             List("metadata", << Text("metadata_key"), Text("metadata_value") >>)
<1>1. /\ SameField(session, session) /\ SameField(Label, Label)
      /\ SameField(String, String) /\ SameField(metadataList, metadataList)
  BY FieldsAgree DEF Ids
<1> HIDE DEF session, metadataList
<1> QED BY <1>1 DEF SameLayout, WriteSessionOpened, ReadSessionOpened,
                  session, metadataList

LEMMA SessionClosedAgrees == SameLayout(WriteSessionClosed, ReadSessionClosed)
<1> DEFINE session == Id("Session")
<1>1. /\ SameField(session, session) /\ SameField(String, String)
  BY FieldsAgree DEF Ids
<1> HIDE DEF session
<1> QED BY <1>1 DEF SameLayout, WriteSessionClosed, ReadSessionClosed, session

LEMMA SessionAnnotationAgrees ==
  SameLayout(WriteSessionAnnotation, ReadSessionAnnotation)
<1> DEFINE session == Id("Session")
<1>1. /\ SameField(session, session) /\ SameField(String, String)
  BY FieldsAgree DEF Ids
<1> HIDE DEF session
<1> QED BY <1>1 DEF SameLayout, WriteSessionAnnotation, ReadSessionAnnotation,
                  session

LEMMA HypothesisDeclaredAgrees ==
  SameLayout(WriteHypothesisDeclared, ReadHypothesisDeclared)
<1> DEFINE hypothesis == Id("Hypothesis")
           hypothesisGeneration == Id("HypothesisGeneration")
           session == Id("Session")
           maybeHypothesis == Option(<< Id("Hypothesis"), Id("HypothesisGeneration") >>)
<1>1. /\ SameField(hypothesis, hypothesis)
      /\ SameField(hypothesisGeneration, hypothesisGeneration)
      /\ SameField(session, session) /\ SameField(String, String)
      /\ SameField(maybeHypothesis, maybeHypothesis)
  BY FieldsAgree DEF Ids
<1> HIDE DEF hypothesis, hypothesisGeneration, session, maybeHypothesis
<1> QED BY <1>1 DEF SameLayout, WriteHypothesisDeclared,
                  ReadHypothesisDeclared, hypothesis, hypothesisGeneration,
                  session, maybeHypothesis

LEMMA HypothesisStatusChangedAgrees ==
  SameLayout(WriteHypothesisStatusChanged, ReadHypothesisStatusChanged)
<1> DEFINE hypothesis == Id("Hypothesis")
           hypothesisGeneration == Id("HypothesisGeneration")
           enum7 == Enum(7)
           maybeDecision == Option(<< Id("Decision") >>)
<1>1. /\ SameField(hypothesis, hypothesis)
      /\ SameField(hypothesisGeneration, hypothesisGeneration)
      /\ SameField(Byte, enum7) /\ SameField(maybeDecision, maybeDecision)
      /\ SameField(String, String)
  BY FieldsAgree DEF Ids
<1> HIDE DEF hypothesis, hypothesisGeneration, enum7, maybeDecision
<1> QED BY <1>1 DEF SameLayout, WriteHypothesisStatusChanged,
                  ReadHypothesisStatusChanged, hypothesis,
                  hypothesisGeneration, enum7, maybeDecision

LEMMA ExperimentDeclaredAgrees ==
  SameLayout(WriteExperimentDeclared, ReadExperimentDeclared)
<1> DEFINE experiment == Id("Experiment")
           experimentGeneration == Id("ExperimentGeneration")
           session == Id("Session")
           hypothesisList == List("hypotheses_per_experiment", << Id("Hypothesis") >>)
           branch == Id("Branch")
           maybeExperiment == Option(<< Id("Experiment") >>)
           inputsList == List("inputs", << Id("Input"), String >>)
           expected_outputsList == List("expected_outputs", << String >>)
<1>1. /\ SameField(experiment, experiment)
      /\ SameField(experimentGeneration, experimentGeneration)
      /\ SameField(session, session)
      /\ SameField(hypothesisList, hypothesisList)
      /\ SameField(branch, branch)
      /\ SameField(maybeExperiment, maybeExperiment)
      /\ SameField(String, String) /\ SameField(inputsList, inputsList)
      /\ SameField(expected_outputsList, expected_outputsList)
  BY FieldsAgree DEF Ids
<1> HIDE DEF experiment, experimentGeneration, session, hypothesisList,
             branch, maybeExperiment, inputsList, expected_outputsList
<1> QED BY <1>1 DEF SameLayout, WriteExperimentDeclared,
                  ReadExperimentDeclared, experiment, experimentGeneration,
                  session, hypothesisList, branch, maybeExperiment,
                  inputsList, expected_outputsList

LEMMA BranchDeclaredAgrees ==
  SameLayout(WriteBranchDeclared, ReadBranchDeclared)
<1> DEFINE branch == Id("Branch")
           session == Id("Session")
           enum9 == Enum(9)
           maybeBranch == Option(<< Id("Branch") >>)
<1>1. /\ SameField(branch, branch) /\ SameField(session, session)
      /\ SameField(Byte, enum9) /\ SameField(maybeBranch, maybeBranch)
      /\ SameField(Label, Label) /\ SameField(String, String)
  BY FieldsAgree DEF Ids
<1> HIDE DEF branch, session, enum9, maybeBranch
<1> QED BY <1>1 DEF SameLayout, WriteBranchDeclared, ReadBranchDeclared,
                  branch, session, enum9, maybeBranch

LEMMA AttemptStartedAgrees ==
  SameLayout(WriteAttemptStarted, ReadAttemptStarted)
<1> DEFINE attempt == Id("Attempt")
           attemptGeneration == Id("AttemptGeneration")
           experiment == Id("Experiment")
           branch == Id("Branch")
<1>1. /\ SameField(attempt, attempt)
      /\ SameField(attemptGeneration, attemptGeneration)
      /\ SameField(experiment, experiment) /\ SameField(branch, branch)
      /\ SameField(String, String)
  BY FieldsAgree DEF Ids
<1> HIDE DEF attempt, attemptGeneration, experiment, branch
<1> QED BY <1>1 DEF SameLayout, WriteAttemptStarted, ReadAttemptStarted,
                  attempt, attemptGeneration, experiment, branch

LEMMA AttemptCompletedAgrees ==
  SameLayout(WriteAttemptCompleted, ReadAttemptCompleted)
<1> DEFINE attempt == Id("Attempt")
           attemptGeneration == Id("AttemptGeneration")
<1>1. /\ SameField(attempt, attempt)
      /\ SameField(attemptGeneration, attemptGeneration)
      /\ SameField(String, String)
  BY FieldsAgree DEF Ids
<1> HIDE DEF attempt, attemptGeneration
<1> QED BY <1>1 DEF SameLayout, WriteAttemptCompleted, ReadAttemptCompleted,
                  attempt, attemptGeneration

LEMMA AttemptFailedAgrees == SameLayout(WriteAttemptFailed, ReadAttemptFailed)
<1> DEFINE attempt == Id("Attempt")
           attemptGeneration == Id("AttemptGeneration")
           failure == Id("Failure")
<1>1. /\ SameField(attempt, attempt)
      /\ SameField(attemptGeneration, attemptGeneration)
      /\ SameField(failure, failure)
  BY FieldsAgree DEF Ids
<1> HIDE DEF attempt, attemptGeneration, failure
<1> QED BY <1>1 DEF SameLayout, WriteAttemptFailed, ReadAttemptFailed,
                  attempt, attemptGeneration, failure

LEMMA AttemptCancelledAgrees ==
  SameLayout(WriteAttemptCancelled, ReadAttemptCancelled)
<1> DEFINE attempt == Id("Attempt")
           attemptGeneration == Id("AttemptGeneration")
<1>1. /\ SameField(attempt, attempt)
      /\ SameField(attemptGeneration, attemptGeneration)
      /\ SameField(String, String)
  BY FieldsAgree DEF Ids
<1> HIDE DEF attempt, attemptGeneration
<1> QED BY <1>1 DEF SameLayout, WriteAttemptCancelled, ReadAttemptCancelled,
                  attempt, attemptGeneration

LEMMA ModelCallRecordedAgrees ==
  SameLayout(WriteModelCallRecorded, ReadModelCallRecorded)
<1> DEFINE modelCall == Id("ModelCall")
           attempt == Id("Attempt")
           enum4 == Enum(4)
           modelCallList == List("calls_per_attempt", << Id("ModelCall") >>)
<1>1. /\ SameField(modelCall, modelCall) /\ SameField(attempt, attempt)
      /\ SameField(String, String)
      /\ SameField(OptionalDigest, OptionalDigest)
      /\ SameField(WrittenMeasure, ReadMeasure)
      /\ SameField(WrittenMonetary, ReadMonetary) /\ SameField(Byte, enum4)
      /\ SameField(modelCallList, modelCallList)
  BY FieldsAgree DEF Ids
<1> HIDE DEF modelCall, attempt, enum4, modelCallList
<1> QED BY <1>1 DEF SameLayout, WriteModelCallRecorded, ReadModelCallRecorded,
                  modelCall, attempt, enum4, modelCallList

LEMMA ArtifactReferencedAgrees ==
  SameLayout(WriteArtifactReferenced, ReadArtifactReferenced)
<1> DEFINE artifact == Id("Artifact")
           artifactGeneration == Id("ArtifactGeneration")
           session == Id("Session")
           enum11 == Enum(11)
           location == Text("location")
           artifactList == List("parents_per_artifact", << Id("Artifact") >>)
           enum3 == Enum(3)
<1>1. /\ SameField(artifact, artifact)
      /\ SameField(artifactGeneration, artifactGeneration)
      /\ SameField(session, session) /\ SameField(Word, Word)
      /\ SameField(Byte, enum11) /\ SameField(String, String)
      /\ SameField(Subject, Subject) /\ SameField(location, location)
      /\ SameField(artifactList, artifactList) /\ SameField(Byte, enum3)
  BY FieldsAgree DEF Ids
<1> HIDE DEF artifact, artifactGeneration, session, enum11, location,
             artifactList, enum3
<1> QED BY <1>1 DEF SameLayout, WriteArtifactReferenced,
                  ReadArtifactReferenced, artifact, artifactGeneration,
                  session, enum11, location, artifactList, enum3

LEMMA ArtifactInvalidatedAgrees ==
  SameLayout(WriteArtifactInvalidated, ReadArtifactInvalidated)
<1> DEFINE artifact == Id("Artifact")
           artifactGeneration == Id("ArtifactGeneration")
           maybeFailure == Option(<< Id("Failure") >>)
           maybeDecision == Option(<< Id("Decision") >>)
<1>1. /\ SameField(artifact, artifact)
      /\ SameField(artifactGeneration, artifactGeneration)
      /\ SameField(maybeFailure, maybeFailure)
      /\ SameField(maybeDecision, maybeDecision) /\ SameField(String, String)
  BY FieldsAgree DEF Ids
<1> HIDE DEF artifact, artifactGeneration, maybeFailure, maybeDecision
<1> QED BY <1>1 DEF SameLayout, WriteArtifactInvalidated,
                  ReadArtifactInvalidated, artifact, artifactGeneration,
                  maybeFailure, maybeDecision

LEMMA MetricDeclaredAgrees ==
  SameLayout(WriteMetricDeclared, ReadMetricDeclared)
<1> DEFINE metric == Id("Metric")
           session == Id("Session")
           enum13 == Enum(13)
           code11 == Code(11)
<1>1. /\ SameField(metric, metric) /\ SameField(session, session)
      /\ SameField(String, String) /\ SameField(Byte, enum13)
      /\ SameField(Byte, code11)
  BY FieldsAgree DEF Ids
<1> HIDE DEF metric, session, enum13, code11
<1> QED BY <1>1 DEF SameLayout, WriteMetricDeclared, ReadMetricDeclared,
                  metric, session, enum13, code11

LEMMA ObservationRecordedAgrees ==
  SameLayout(WriteObservationRecorded, ReadObservationRecorded)
<1> DEFINE observation == Id("Observation")
           attempt == Id("Attempt")
           maybeMetric == Option(<< Id("Metric") >>)
           enum13 == Enum(13)
<1>1. /\ SameField(observation, observation) /\ SameField(attempt, attempt)
      /\ SameField(maybeMetric, maybeMetric) /\ SameField(String, String)
      /\ SameField(Byte, enum13) /\ SameField(Metric, Metric)
      /\ SameField(Word, Word)
  BY FieldsAgree DEF Ids
<1> HIDE DEF observation, attempt, maybeMetric, enum13
<1> QED BY <1>1 DEF SameLayout, WriteObservationRecorded,
                  ReadObservationRecorded, observation, attempt, maybeMetric,
                  enum13

LEMMA FailureRecordedAgrees ==
  SameLayout(WriteFailureRecorded, ReadFailureRecorded)
<1> DEFINE failure == Id("Failure")
           enum12 == Enum(12)
           failure_message == Text("failure_message")
           maybeFailure == Option(<< Id("Failure") >>)
           maybeAttempt == Option(<< Id("Attempt") >>)
<1>1. /\ SameField(failure, failure) /\ SameField(Subject, Subject)
      /\ SameField(Byte, enum12)
      /\ SameField(failure_message, failure_message)
      /\ SameField(Boolean, Boolean) /\ SameField(maybeFailure, maybeFailure)
      /\ SameField(maybeAttempt, maybeAttempt) /\ SameField(String, String)
  BY FieldsAgree DEF Ids
<1> HIDE DEF failure, enum12, failure_message, maybeFailure, maybeAttempt
<1> QED BY <1>1 DEF SameLayout, WriteFailureRecorded, ReadFailureRecorded,
                  failure, enum12, failure_message, maybeFailure, maybeAttempt

LEMMA DecisionRecordedAgrees ==
  SameLayout(WriteDecisionRecorded, ReadDecisionRecorded)
<1> DEFINE decision == Id("Decision")
           session == Id("Session")
           enum9 == Enum(9)
           enum7 == Enum(7)
           maybePolicyGeneration == Option(<< Id("PolicyGeneration") >>)
           evidence ==
             List("evidence_refs_per_decision", << Subject, Id("RecordSequence") >>)
           explanation == Text("explanation")
<1>1. /\ SameField(decision, decision) /\ SameField(session, session)
      /\ SameField(Subject, Subject) /\ SameField(Byte, enum9)
      /\ SameField(Byte, enum7) /\ SameField(String, String)
      /\ SameField(maybePolicyGeneration, maybePolicyGeneration)
      /\ SameField(evidence, evidence)
      /\ SameField(explanation, explanation)
  BY FieldsAgree DEF Ids
<1> HIDE DEF decision, session, enum9, enum7, maybePolicyGeneration,
             evidence, explanation
<1> QED BY <1>1 DEF SameLayout, WriteDecisionRecorded, ReadDecisionRecorded,
                  decision, session, enum9, enum7, maybePolicyGeneration,
                  evidence, explanation

LEMMA ResultDeclaredAgrees ==
  SameLayout(WriteResultDeclared, ReadResultDeclared)
<1> DEFINE result == Id("Result")
           resultGeneration == Id("ResultGeneration")
           session == Id("Session")
           hypothesisList == List("hypotheses_per_experiment", << Id("Hypothesis") >>)
           experimentList == List("experiments_per_result", << Id("Experiment") >>)
           artifactList == List("artifacts_per_result", << Id("Artifact") >>)
           observationList == List("observations_per_result", << Id("Observation") >>)
           modelCallList == List("calls_per_attempt", << Id("ModelCall") >>)
           toolCallList == List("calls_per_attempt", << Id("ToolCall") >>)
<1>1. /\ SameField(result, result)
      /\ SameField(resultGeneration, resultGeneration)
      /\ SameField(session, session) /\ SameField(String, String)
      /\ SameField(hypothesisList, hypothesisList)
      /\ SameField(experimentList, experimentList)
      /\ SameField(artifactList, artifactList)
      /\ SameField(observationList, observationList)
      /\ SameField(modelCallList, modelCallList)
      /\ SameField(toolCallList, toolCallList)
      /\ SameField(OptionalDigest, OptionalDigest)
  BY FieldsAgree DEF Ids
<1> HIDE DEF result, resultGeneration, session, hypothesisList,
             experimentList, artifactList, observationList, modelCallList,
             toolCallList
<1> QED BY <1>1 DEF SameLayout, WriteResultDeclared, ReadResultDeclared,
                  result, resultGeneration, session, hypothesisList,
                  experimentList, artifactList, observationList,
                  modelCallList, toolCallList

LEMMA ResultStatusChangedAgrees ==
  SameLayout(WriteResultStatusChanged, ReadResultStatusChanged)
<1> DEFINE result == Id("Result")
           resultGeneration == Id("ResultGeneration")
           enum6 == Enum(6)
           decision == Id("Decision")
<1>1. /\ SameField(result, result)
      /\ SameField(resultGeneration, resultGeneration)
      /\ SameField(Byte, enum6) /\ SameField(decision, decision)
  BY FieldsAgree DEF Ids
<1> HIDE DEF result, resultGeneration, enum6, decision
<1> QED BY <1>1 DEF SameLayout, WriteResultStatusChanged,
                  ReadResultStatusChanged, result, resultGeneration, enum6,
                  decision

LEMMA HeaderAgrees == SameLayout(WriteHeader, ReadHeader)
<1> DEFINE recordSequence == Id("RecordSequence")
           enum22 == Enum(22)
           record == Id("Record")
           ledgerGeneration == Id("LedgerGeneration")
           coordinatorEpoch == Id("CoordinatorEpoch")
           worker == Id("Worker")
           workerBoot == Id("WorkerBoot")
           enum6 == Enum(6)
<1>1. /\ SameField(recordSequence, recordSequence) /\ SameField(Word, enum22)
      /\ SameField(record, record)
      /\ SameField(ledgerGeneration, ledgerGeneration)
      /\ SameField(coordinatorEpoch, coordinatorEpoch)
      /\ SameField(worker, worker) /\ SameField(workerBoot, workerBoot)
      /\ SameField(Word, Word) /\ SameField(Byte, enum6)
  BY FieldsAgree DEF Ids
<1> HIDE DEF recordSequence, enum22, record, ledgerGeneration,
             coordinatorEpoch, worker, workerBoot, enum6
<1> QED BY <1>1 DEF SameLayout, WriteHeader, ReadHeader, recordSequence,
                  enum22, record, ledgerGeneration, coordinatorEpoch, worker,
                  workerBoot, enum6

(* A row of a layout, and the layouts made of two. *)
Listed(W) == Len(W) \in Nat /\ W = [ i \in 1 .. Len(W) |-> W[i] ]

LEMMA ListedIn ==
  ASSUME NEW W, Listed(W), NEW S, \A i \in 1 .. Len(W) : W[i] \in S
  PROVE  W \in Seq(S)
<1> DEFINE n == Len(W)
<1>1. n \in Nat /\ W = [ i \in 1 .. n |-> W[i] ] /\ \A i \in 1 .. n : W[i] \in S
  BY DEF Listed
<1> HIDE DEF n
<1>2. W \in [ 1 .. n -> S ]
  BY <1>1
<1> QED BY <1>1, <1>2

LEMMA LayoutsJoin ==
  ASSUME NEW W, NEW R, SameLayout(W, R), Listed(W), Listed(R),
         NEW V, NEW Q, SameLayout(V, Q), Listed(V), Listed(Q)
  PROVE  SameLayout(W \o V, R \o Q) /\ Listed(W \o V) /\ Listed(R \o Q)
<1> DEFINE S == { W[i] : i \in 1 .. Len(W) } \cup { R[i] : i \in 1 .. Len(R) }
                  \cup { V[i] : i \in 1 .. Len(V) } \cup { Q[i] : i \in 1 .. Len(Q) }
           n == Len(W)
           m == Len(V)
<1>1. W \in Seq(S) /\ R \in Seq(S) /\ V \in Seq(S) /\ Q \in Seq(S)
  <2>1. /\ \A i \in 1 .. Len(W) : W[i] \in S
        /\ \A i \in 1 .. Len(R) : R[i] \in S
        /\ \A i \in 1 .. Len(V) : V[i] \in S
        /\ \A i \in 1 .. Len(Q) : Q[i] \in S
    OBVIOUS
  <2> HIDE DEF S
  <2> QED BY <2>1, ListedIn
<1> HIDE DEF S
<1>2. /\ n \in Nat /\ Len(R) = n /\ m \in Nat /\ Len(Q) = m
      /\ \A i \in 1 .. n : R[i][1] = W[i][1] /\ SameField(W[i][2], R[i][2])
      /\ \A i \in 1 .. m : Q[i][1] = V[i][1] /\ SameField(V[i][2], Q[i][2])
  BY DEF SameLayout
<1> DEFINE WV == W \o V
           RQ == R \o Q
<1> HIDE DEF n, m
<1>3. /\ WV \in Seq(S) /\ Len(WV) = n + m /\ RQ \in Seq(S) /\ Len(RQ) = n + m
      /\ \A i \in 1 .. n + m : WV[i] = IF i <= n THEN W[i] ELSE V[i - n]
      /\ \A i \in 1 .. n + m : RQ[i] = IF i <= n THEN R[i] ELSE Q[i - n]
  <2>1. /\ WV \in Seq(S) /\ Len(WV) = Len(W) + Len(V)
        /\ \A i \in 1 .. Len(W) + Len(V) : WV[i] = IF i <= Len(W) THEN W[i] ELSE V[i - Len(W)]
    BY <1>1, Joining
  <2>2. /\ RQ \in Seq(S) /\ Len(RQ) = Len(R) + Len(Q)
        /\ \A i \in 1 .. Len(R) + Len(Q) : RQ[i] = IF i <= Len(R) THEN R[i] ELSE Q[i - Len(R)]
    BY <1>1, Joining
  <2> HIDE DEF WV, RQ
  <2> QED BY <1>2, <2>1, <2>2 DEF n, m
<1> HIDE DEF WV, RQ
<1>4. Listed(WV) /\ Listed(RQ)
  BY <1>3 DEF Listed
<1>5. ASSUME NEW i \in 1 .. n + m
      PROVE  RQ[i][1] = WV[i][1] /\ SameField(WV[i][2], RQ[i][2])
  <2>1. CASE i <= n
    <3>1. i \in 1 .. n /\ WV[i] = W[i] /\ RQ[i] = R[i]
      BY <1>2, <1>3, <2>1
    <3> QED BY <1>2, <3>1
  <2>2. CASE ~(i <= n)
    <3>1. i - n \in 1 .. m /\ WV[i] = V[i - n] /\ RQ[i] = Q[i - n]
      BY <1>2, <1>3, <2>2
    <3> QED BY <1>2, <3>1
  <2> QED BY <2>1, <2>2
<1>6. SameLayout(WV, RQ)
  BY <1>2, <1>3, <1>5 DEF SameLayout
<1> QED BY <1>4, <1>6 DEF WV, RQ

LEMMA MeasuresAgree ==
  SameLayout(WriteAccounting, ReadAccounting)
  /\ Listed(WriteAccounting) /\ Listed(ReadAccounting)
<1>1. SameField(WrittenMeasure, ReadMeasure) /\ SameField(WrittenMonetary, ReadMonetary)
  BY FieldsAgree
<1>2. SameLayout(WriteAccounting, ReadAccounting)
  BY <1>1 DEF SameLayout, WriteAccounting, ReadAccounting, Accounting
<1>3. Listed(WriteAccounting) /\ Listed(ReadAccounting)
  BY DEF Listed, WriteAccounting, ReadAccounting, Accounting
<1> QED BY <1>2, <1>3

LEMMA AccountingRecordedAgrees ==
  SameLayout(WriteAccountingRecorded, ReadAccountingRecorded)
<1> DEFINE front == << << "scope", Subject >> >>
           back == << << "source", String >>, << "authority", String >> >>
<1>1. SameField(Subject, Subject) /\ SameField(String, String)
  BY FieldsAgree
<1>2. SameLayout(front, front) /\ SameLayout(back, back)
  BY <1>1 DEF SameLayout
<1>3. Listed(front) /\ Listed(back)
  BY DEF Listed
<1> HIDE DEF front, back
<1>4. /\ SameLayout(front \o WriteAccounting, front \o ReadAccounting)
      /\ Listed(front \o WriteAccounting) /\ Listed(front \o ReadAccounting)
  BY <1>2, <1>3, MeasuresAgree, LayoutsJoin
<1>5. SameLayout((front \o WriteAccounting) \o back, (front \o ReadAccounting) \o back)
  BY <1>2, <1>3, <1>4, LayoutsJoin
<1> QED BY <1>5, Zenon DEF WriteAccountingRecorded, ReadAccountingRecorded, front, back

LEMMA ToolCallRecordedAgrees ==
  SameLayout(WriteToolCallRecorded, ReadToolCallRecorded)
<1> DEFINE call == Id("ToolCall")
           attempt == Id("Attempt")
           state == Enum(6)
           First(f) == << << "call", call >>, << "attempt", attempt >>,
                          << "tool_identity", String >>, << "tool_version", String >>,
                          << "request_reference", OptionalDigest >>,
                          << "output_reference", OptionalDigest >>, << "state", f >> >>
           written == First(Byte)
           read == First(state)
           back == << << "authority", String >> >>
<1>1. /\ SameField(call, call) /\ SameField(attempt, attempt)
      /\ SameField(String, String) /\ SameField(OptionalDigest, OptionalDigest)
      /\ SameField(Byte, state)
  BY FieldsAgree DEF Ids
<1> HIDE DEF call, attempt, state
<1>2. SameLayout(written, read) /\ SameLayout(back, back)
  BY <1>1 DEF SameLayout
<1>3. Listed(written) /\ Listed(read) /\ Listed(back)
  BY DEF Listed
<1>4. /\ WriteToolCallRecorded = (written \o WriteAccounting) \o back
      /\ ReadToolCallRecorded = (read \o ReadAccounting) \o back
  BY Zenon DEF WriteToolCallRecorded, ReadToolCallRecorded, call, attempt, state
<1> HIDE DEF written, read, back
<1>5. /\ SameLayout(written \o WriteAccounting, read \o ReadAccounting)
      /\ Listed(written \o WriteAccounting) /\ Listed(read \o ReadAccounting)
  BY <1>2, <1>3, MeasuresAgree, LayoutsJoin
<1>6. SameLayout((written \o WriteAccounting) \o back, (read \o ReadAccounting) \o back)
  BY <1>2, <1>3, <1>5, LayoutsJoin
<1> QED BY <1>4, <1>6

LEMMA LayoutsAgree ==
  ASSUME NEW type \in 1 .. 22
  PROVE  SameLayout(Writers[type], Readers[type])
<1>1. \/ type \in 1 .. 6 \/ type \in 7 .. 12 \/ type \in 13 .. 17 \/ type \in 18 .. 22
  OBVIOUS
<1>2. CASE type \in 1 .. 6
  BY <1>2, SessionOpenedAgrees, SessionClosedAgrees, SessionAnnotationAgrees,
     HypothesisDeclaredAgrees, HypothesisStatusChangedAgrees, ExperimentDeclaredAgrees
  DEF Writers, Readers
<1>3. CASE type \in 7 .. 12
  BY <1>3, BranchDeclaredAgrees, AttemptStartedAgrees, AttemptCompletedAgrees,
     AttemptFailedAgrees, AttemptCancelledAgrees, ModelCallRecordedAgrees
  DEF Writers, Readers
<1>4. CASE type \in 13 .. 17
  BY <1>4, ToolCallRecordedAgrees, ArtifactReferencedAgrees, ArtifactInvalidatedAgrees,
     MetricDeclaredAgrees, ObservationRecordedAgrees
  DEF Writers, Readers
<1>5. CASE type \in 18 .. 22
  BY <1>5, FailureRecordedAgrees, DecisionRecordedAgrees, ResultDeclaredAgrees,
     ResultStatusChangedAgrees, AccountingRecordedAgrees
  DEF Writers, Readers
<1> QED BY <1>1, <1>2, <1>3, <1>4, <1>5

-----------------------------------------------------------------------------
(* Bodies and records. *)

Typed(body, T) ==
  /\ body = [ type |-> body.type, fields |-> body.fields ]
  /\ body.type \in 1 .. 22
  /\ IsBody(Writers[body.type], body.fields, T)

(* The reader refuses no field of the body. *)
TakesBody(body) == TakesFields(Writers[body.type], Readers[body.type], body.fields)

LEMMA BodyGivesBack ==
  ASSUME NEW T, Closed(T), NEW body, Typed(body, T)
  PROVE  /\ EncodeBody(body) \in Seq(T)
         /\ DecodeBody(EncodeBody(body)).ok => DecodeBody(EncodeBody(body)).body = body
         /\ TakesBody(body) => DecodeBody(EncodeBody(body)).ok
<1> DEFINE type == body.type
           fields == body.fields
           W == Writers[type]
           R == Readers[type]
           rest == WriteFields(W, fields)
           wire == << type >> \o rest
           r == ReadFields(R, wire, 1)
<1>1. /\ body = [ type |-> type, fields |-> fields ] /\ type \in 1 .. 22
      /\ IsBody(W, fields, T)
  BY DEF Typed
<1>2. SameLayout(W, R)
  <2> HIDE DEF type
  <2> QED BY <1>1, LayoutsAgree
<1>3. EncodeBody(body) = wire
  BY DEF EncodeBody
<1>4. DecodeBody(wire) =
        IF Len(wire) >= 1 /\ wire[1] \in 1..Len(Readers)
        THEN Consumed(wire[1], wire, ReadFields(Readers[wire[1]], wire, 1))
        ELSE [ ok |-> FALSE, body |-> << >> ]
  <2> HIDE DEF wire
  <2> QED BY DEF DecodeBody
<1> HIDE DEF type, fields, W, R
<1>5. rest \in Seq(T) /\ type \in T
  BY <1>1, <1>2, FieldsWritten, InClosed
<1> HIDE DEF rest
<1>6. /\ wire \in Seq(T) /\ Len(wire) = 1 + Len(rest) /\ Len(rest) \in Nat
      /\ wire[1] = type /\ Stands(rest, wire, 1)
  <2>1. wire \in Seq(T) /\ Len(wire) = 1 + Len(rest)
    BY <1>5, Tokens
  <2>2. Len(rest) \in Nat
    BY <1>5
  <2>3. Stands(wire, wire, 0)
    <3> HIDE DEF wire
    <3>1. 0 + Len(wire) <= Len(wire) /\ \A k \in 1 .. Len(wire) : wire[0 + k] = wire[k]
      BY <2>1, <2>2
    <3> QED BY <3>1 DEF Stands
  <2>4. wire[0 + 1] = type /\ Stands(rest, wire, 0 + 1)
    <3> DEFINE w == wire
    <3>1. w \in Seq(T) /\ Stands(<< type >> \o rest, w, 0)
      BY <2>1, <2>3
    <3> HIDE DEF w
    <3>2. w[0 + 1] = type /\ Stands(rest, w, 0 + 1)
      BY <1>5, <3>1, Tokens
    <3> QED BY <3>2 DEF w
  <2> QED BY <2>1, <2>2, <2>4
<1> HIDE DEF wire
<1>7. Obtains(r, 1, rest, fields) /\ (TakesFields(W, R, fields) => r.ok)
  BY <1>1, <1>2, <1>6, FieldsRead DEF rest
<1>8. ASSUME DecodeBody(wire).ok PROVE DecodeBody(wire).body = body
  <2>1. DecodeBody(wire) = Consumed(type, wire, r)
    BY <1>4, <1>6, <1>8 DEF R
  <2> HIDE DEF r
  <2>2. r.ok
    <3>1. Consumed(type, wire, r).ok
      BY <1>8, <2>1, Zenon
    <3>2. Consumed(type, wire, r).ok = (r.ok /\ r.at = Len(wire))
      BY DEF Consumed
    <3> QED BY <3>1, <3>2
  <2>3. r.value = fields
    BY <1>7, <2>2 DEF Obtains
  <2>4. DecodeBody(wire).body = [ type |-> type, fields |-> r.value ]
    BY <2>1 DEF Consumed
  <2> QED BY <1>1, <2>3, <2>4
<1>9. ASSUME TakesBody(body) PROVE DecodeBody(wire).ok
  <2>1. r.ok /\ r.at = 1 + Len(rest)
    BY <1>7, <1>9 DEF TakesBody, Obtains, W, R, fields, type
  <2>2. Len(Readers) = 22
    BY DEF Readers
  <2>3. DecodeBody(wire) = Consumed(type, wire, r)
    BY <1>1, <1>4, <1>6, <2>2 DEF R
  <2> HIDE DEF r
  <2>4. Consumed(type, wire, r).ok = (r.ok /\ r.at = Len(wire))
    BY DEF Consumed
  <2> QED BY <1>6, <2>1, <2>3, <2>4
<1> QED BY <1>3, <1>6, <1>8, <1>9

LEMMA RecordGivesBack ==
  ASSUME NEW T, Closed(T), NEW header, IsBody(WriteHeader, header, T),
         NEW body, Typed(body, T), NEW record,
         record = [ header |-> header, body |-> body ]
  PROVE  /\ EncodeRecord(record) \in Seq(T)
         /\ DecodeRecord(EncodeRecord(record)).ok =>
              DecodeRecord(EncodeRecord(record)).record = record
         /\ (/\ TakesFields(WriteHeader, ReadHeader, header)
             /\ TakesBody(body) /\ header.type = body.type) =>
              DecodeRecord(EncodeRecord(record)).ok
<1> DEFINE front == WriteFields(WriteHeader, header)
           back == EncodeBody(body)
           wire == front \o back
           r == ReadFields(ReadHeader, wire, 0)
           d == DecodeRecord(wire)
<1>1. EncodeRecord(record) = wire
  BY DEF EncodeRecord
<1>2. front \in Seq(T) /\ back \in Seq(T)
  BY HeaderAgrees, FieldsWritten, BodyGivesBack
<1>3. d = AfterHeader(wire, r)
  BY DEF DecodeRecord
<1> HIDE DEF front, back
<1>4. /\ wire \in Seq(T) /\ Len(wire) = Len(front) + Len(back)
      /\ Len(front) \in Nat /\ Len(back) \in Nat
      /\ Stands(front, wire, 0) /\ Stands(back, wire, Len(front))
  BY <1>2, JoinedStand
<1> HIDE DEF wire
<1>5. /\ Obtains(r, 0, front, header)
      /\ TakesFields(WriteHeader, ReadHeader, header) => r.ok
  BY <1>4, HeaderAgrees, FieldsRead DEF front
<1> DEFINE decoded == DecodeBody(back)
<1>6. (decoded.ok => decoded.body = body) /\ (TakesBody(body) => decoded.ok)
  BY BodyGivesBack DEF back
<1> HIDE DEF r, d, decoded
<1>7. r.ok => d = WithBody(header, decoded)
  <2>1. SUFFICES ASSUME r.ok PROVE d = WithBody(header, decoded)
    OBVIOUS
  <2>2. r.at = 0 + Len(front) /\ r.value = header
    BY <1>5, <2>1 DEF Obtains
  <2>3. SubSeq(wire, r.at + 1, Len(wire)) = back
    <3>1. SubSeq(wire, Len(front) + 1, Len(front) + Len(back)) = back
      BY <1>2, <1>4, StandingPart
    <3> QED BY <1>4, <2>2, <3>1
  <2> QED BY <1>3, <2>1, <2>2, <2>3 DEF AfterHeader, decoded
<1>8. ASSUME d.ok PROVE d.record = record
  <2>1. r.ok
    BY <1>3, <1>8 DEF AfterHeader
  <2>2. d = WithBody(header, decoded)
    BY <1>7, <2>1
  <2>3. /\ WithBody(header, decoded).ok = (decoded.ok /\ decoded.body.type = header.type)
        /\ WithBody(header, decoded).record = [ header |-> header, body |-> decoded.body ]
    BY DEF WithBody
  <2>4. WithBody(header, decoded).ok
    BY <1>8, <2>2, Zenon
  <2>5. decoded.ok /\ d.record = [ header |-> header, body |-> decoded.body ]
    BY <2>2, <2>3, <2>4
  <2> QED BY <1>6, <2>5
<1>9. ASSUME TakesFields(WriteHeader, ReadHeader, header), TakesBody(body),
             header.type = body.type
      PROVE  d.ok
  <2>1. d = WithBody(header, decoded) /\ decoded.ok /\ decoded.body = body
    BY <1>5, <1>6, <1>7, <1>9
  <2> HIDE DEF decoded
  <2> QED BY <1>9, <2>1, Zenon DEF WithBody
<1> QED BY <1>1, <1>4, <1>8, <1>9 DEF d, wire

-----------------------------------------------------------------------------
(* The file of records so encoded. *)

(* The file holds records as the code encodes them. *)
EncodesRecords ==
  /\ \A r : Encoded(r) = EncodeRecord(r)
  /\ \A wire : Decoded(wire) = DecodeRecord(wire)
  /\ \A body : Payload(body) = EncodeBody(body)

(* The fields of a header, and the records that can be committed.           *)
Headers(T) ==
  [ sequence : T, type : T, record_id : T, ledger : T, epoch : T, worker : T,
    worker_boot : T, committed_at : T, provenance : T, payload_digest : T,
    chain_digest : T ]

Bodies == { Catalogue[n] : n \in DOMAIN Catalogue }

Records(T) == [ header : Headers(T), body : Bodies ]

(* Values are made of numbers and sequences, every body that is offered is  *)
(* of one of the 22 types and has its fields, and no image is mistaken for  *)
(* the absence of a file.                                                   *)
TypedCatalogue(T) ==
  /\ Closed(T) /\ None \notin T
  /\ \A body \in Bodies : Typed(body, T)
  /\ \A p \in Pid, rs \in Seq(Records(T)) : Offered(p, rs) \subseteq DOMAIN Catalogue

LEMMA HeadersAreBodies ==
  ASSUME NEW T, NEW h \in Headers(T)
  PROVE  IsBody(WriteHeader, h, T)
<1>1. NamesOf(WriteHeader, Len(WriteHeader)) =
        { "sequence", "type", "record_id", "ledger", "epoch", "worker", "worker_boot",
          "committed_at", "provenance", "payload_digest", "chain_digest" }
  BY DEF NamesOf, WriteHeader
<1>2. h = [ x \in { "sequence", "type", "record_id", "ledger", "epoch", "worker",
                    "worker_boot", "committed_at", "provenance", "payload_digest",
                    "chain_digest" } |-> h[x] ]
  BY DEF Headers
<1>3. \A f, v : v \in T /\ f.is \in { "word", "byte", "tagged" } => IsValue(f, v, T)
  BY DEF IsValue, IsSimple, Compound
<1>4. ASSUME NEW i \in 1 .. Len(WriteHeader)
      PROVE  /\ h[WriteHeader[i][1]] \in T
             /\ WriteHeader[i][2].is \in { "word", "byte", "tagged" }
  BY DEF Headers, WriteHeader, Id, Tagged, Word, Byte, Field
<1> QED BY <1>1, <1>2, <1>3, <1>4 DEF IsBody

LEMMA ChainIsValue ==
  ASSUME NEW T, Closed(T), NEW chain \in T, NEW h \in Headers(T)
  PROVE  NextChain(chain, h) \in T
<1>1. /\ h.sequence \in T /\ h.type \in T /\ h.record_id \in T /\ h.committed_at \in T
      /\ h.provenance \in T /\ h.payload_digest \in T
  BY DEF Headers
<1>2. NextChain(chain, h) \in Seq(T)
  BY <1>1 DEF NextChain
<1> QED BY <1>2 DEF Closed

LEMMA CommittedIsRecord ==
  ASSUME NEW T, EncodesRecords, TypedCatalogue(T), NEW rs \in Seq(Records(T)),
         NEW body \in Bodies
  PROVE  Committed(rs, body) \in Records(T)
<1> DEFINE n == Len(rs)
           u == Unchained(rs, body)
<1>1. Closed(T) /\ Typed(body, T)
  BY DEF TypedCatalogue
<1>2. n \in Nat /\ \A i \in 1 .. n : rs[i].header \in Headers(T)
  <2>1. n \in Nat /\ \A i \in 1 .. n : rs[i] \in Records(T)
    OBVIOUS
  <2>2. \A r \in Records(T) : r.header \in Headers(T)
    BY DEF Records
  <2> QED BY <2>1, <2>2
<1>3. PICK g : /\ Chains(rs, n, g)
               /\ Committed(rs, body) =
                    [ header |-> [ u EXCEPT !.chain_digest = NextChain(g[n], u) ],
                      body |-> body ]
  BY <1>2, CommittedChain
<1> HIDE DEF n
<1>4. g[0] = << >> /\ \A i \in 1 .. n : g[i] = NextChain(g[i - 1], rs[i].header)
  BY <1>2, <1>3 DEF Chains
<1>5. u \in Headers(T)
  <2>1. Payload(body) = EncodeBody(body)
    BY DEF EncodesRecords
  <2>2. EncodeBody(body) \in Seq(T)
    BY <1>1, BodyGivesBack
  <2>3. Payload(body) \in T /\ << >> \in T
    BY <1>1, <2>1, <2>2, InClosed
  <2>4. n + 1 \in T /\ body.type \in T /\ 0 \in T /\ 1 \in T
    BY <1>1, <1>2 DEF Typed, Closed
  <2> QED BY <2>3, <2>4 DEF Unchained, Headers, n
<1>6. \A m \in Nat : m <= n => g[m] \in T
  <2> DEFINE M == { m \in Nat : m <= n => g[m] \in T }
  <2>1. 0 \in M
    <3>1. << >> \in T
      BY <1>1, InClosed
    <3> QED BY <1>4, <3>1
  <2>2. ASSUME NEW m \in Nat, m \in M PROVE m + 1 \in M
    <3>1. SUFFICES ASSUME m + 1 <= n PROVE g[m + 1] \in T
      OBVIOUS
    <3>2. m + 1 \in 1 .. n /\ (m + 1) - 1 = m /\ g[m] \in T
      BY <1>2, <2>2, <3>1
    <3>3. g[m + 1] = NextChain(g[m], rs[m + 1].header) /\ rs[m + 1].header \in Headers(T)
      BY <1>2, <1>4, <3>2
    <3> QED BY <1>1, <3>2, <3>3, ChainIsValue
  <2> HIDE DEF M
  <2>3. Nat \subseteq M
    BY <2>1, <2>2, Induction
  <2> QED BY <2>3 DEF M
<1> DEFINE link == NextChain(g[n], u)
<1> HIDE DEF u
<1>7. link \in T
  <2>1. g[n] \in T
    BY <1>2, <1>6
  <2> QED BY <1>1, <1>5, <2>1, ChainIsValue
<1> HIDE DEF link
<1>8. [ u EXCEPT !.chain_digest = link ] \in Headers(T)
  BY <1>5, <1>7 DEF Headers
<1>9. [ header |-> [ u EXCEPT !.chain_digest = link ], body |-> body ] \in Records(T)
  BY <1>8 DEF Records
<1> QED BY <1>3, <1>9 DEF link

LEMMA ImageIsValue ==
  ASSUME NEW T, Closed(T), NEW rs, Len(rs) \in Nat, Body(rs) \in Seq(T)
  PROVE  Serialized(rs) \in T
<1> DEFINE body == Body(rs)
           header == << Magic, Format, 1, 1, Len(rs), Len(body) >>
           whole == header \o << header >> \o body \o << body >>
<1>1. Serialized(rs) = whole
  BY DEF Serialized
<1>2. header \in Seq(T)
  <2>1. /\ Magic \in T /\ Format \in T /\ 1 \in T /\ Len(rs) \in T /\ Len(body) \in T
    BY DEF Magic, Format, Closed
  <2> QED BY <2>1
<1>3. body \in Seq(T)
  OBVIOUS
<1> HIDE DEF header, body
<1>4. << header >> \in Seq(T) /\ << body >> \in Seq(T)
  BY <1>2, <1>3, InClosed
<1>5. whole \in Seq(T)
  <2>1. header \o << header >> \in Seq(T)
    BY <1>2, <1>4, Joining
  <2>2. header \o << header >> \o body \in Seq(T)
    BY <1>3, <2>1, Joining
  <2> QED BY <1>4, <2>2, Joining
<1> QED BY <1>1, <1>5 DEF Closed

(* The codec gives back each record that can be committed.                  *)
LEMMA CodecGivesBack ==
  ASSUME NEW T, EncodesRecords, TypedCatalogue(T)
  PROVE  GivesBack(Records(T), T)
<1>1. Closed(T) /\ None \notin T /\ \A body \in Bodies : Typed(body, T)
  BY DEF TypedCatalogue
<1>2. ASSUME NEW p \in Pid, NEW rs \in Seq(Records(T)), NEW n \in Offered(p, rs)
      PROVE  Committed(rs, Catalogue[n]) \in Records(T)
  <2>1. Catalogue[n] \in Bodies
    BY DEF TypedCatalogue, Bodies
  <2> QED BY <2>1, CommittedIsRecord
<1>3. ASSUME NEW r \in Records(T)
      PROVE  /\ Encoded(r) \in Seq(T)
             /\ Decoded(Encoded(r)).ok => Decoded(Encoded(r)).record = r
  <2> DEFINE header == r.header
             body == r.body
  <2>1. header \in Headers(T) /\ body \in Bodies /\ r = [ header |-> header, body |-> body ]
    BY DEF Records
  <2> HIDE DEF header, body
  <2>2. IsBody(WriteHeader, header, T) /\ Typed(body, T)
    BY <1>1, <2>1, HeadersAreBodies
  <2>3. /\ EncodeRecord(r) \in Seq(T)
        /\ DecodeRecord(EncodeRecord(r)).ok => DecodeRecord(EncodeRecord(r)).record = r
    BY <1>1, <2>1, <2>2, RecordGivesBack
  <2>4. Encoded(r) = EncodeRecord(r) /\ Decoded(Encoded(r)) = DecodeRecord(EncodeRecord(r))
    BY DEF EncodesRecords
  <2> QED BY <2>3, <2>4
<1>4. ASSUME NEW rs \in Seq(Records(T)) PROVE Serialized(rs) # None
  <2>1. Body(rs) \in Seq(T \cup Nat)
    BY <1>3, EncodingsAreLocated
  <2>2. T \cup Nat = T
    BY <1>1 DEF Closed
  <2>3. Len(rs) \in Nat
    OBVIOUS
  <2>4. Serialized(rs) \in T
    BY <1>1, <2>1, <2>2, <2>3, ImageIsValue
  <2> QED BY <1>1, <2>4
<1> QED BY <1>2, <1>3, <1>4 DEF GivesBack

-----------------------------------------------------------------------------
(* What a reader lets through of what was written.  The lengths of texts    *)
(* and lists the writer has checked (FitsBody); the values are those of the *)
(* program's types and of validated drafts: an identity is not zero, an     *)
(* enumerator is one of its type, a fraction is finite.  Only two           *)
(* enumerators may be zero, and refused.                                    *)

ValidAll(fs, gs, vs) == \A i \in 1 .. Len(fs) : Valid(fs[i], gs[i], vs[i])

ValidField(f, g, v) ==
  /\ f.is = "option" => v = << >> \/ ValidAll(f.of, g.of, v)
  /\ f.is = "group" => ValidAll(f.of, g.of, v)
  /\ f.is = "list" => \A i \in 1 .. Len(v) : ValidAll(f.of, g.of, v[i])
  /\ f.is = "metric" =>
       v[1] <= g.n /\ ValidAll(MetricPayload(v[1]), MetricPayload(v[1]), v[2])
  /\ f.is \notin Compound => Valid(f, g, v)

MayBeUnstated == { << 7, "kind" >>, << 17, "unit" >> }

ValidBody(body) ==
  \A i \in 1 .. Len(Writers[body.type]) :
    LET w == Writers[body.type][i]
        g == Readers[body.type][i][2]
        v == body.fields[w[1]]
    IN ValidField(w[2], g, v) \/ (<< body.type, w[1] >> \in MayBeUnstated /\ v = 0)

LEMMA FieldFits ==
  ASSUME NEW f, NEW g, NEW v, ValidField(f, g, v),
         f.is \in {"text", "list"} => Len(v) <= f.n,
         f.is = "group" \/ (f.is = "option" /\ v # << >>) => Within(f.of, v),
         f.is = "list" => \A e \in 1 .. Len(v) : Within(f.of, v[e]),
         f.is = "metric" => Within(MetricPayload(v[1]), v[2])
  PROVE  TakesField(f, g, v)
<1>1. \A fs, gs, vs : Within(fs, vs) /\ ValidAll(fs, gs, vs) => TakesAll(fs, gs, vs)
  BY DEF Within, ValidAll, TakesAll, Takes
<1>2. f.is = "option" => v = << >> \/ TakesAll(f.of, g.of, v)
  BY <1>1 DEF ValidField
<1>3. f.is = "group" => TakesAll(f.of, g.of, v)
  BY <1>1 DEF ValidField
<1>4. f.is = "list" => Len(v) <= f.n /\ \A i \in 1 .. Len(v) : TakesAll(f.of, g.of, v[i])
  BY <1>1 DEF ValidField
<1>5. f.is = "metric" =>
        v[1] <= g.n /\ TakesAll(MetricPayload(v[1]), MetricPayload(v[1]), v[2])
  BY <1>1 DEF ValidField
<1>6. f.is \notin Compound => Takes(f, g, v)
  BY DEF ValidField, Takes
<1> QED BY <1>2, <1>3, <1>4, <1>5, <1>6 DEF TakesField

LEMMA StatedIsTaken ==
  ASSUME NEW body, body.type \in 1 .. 22, FitsBody(body), ValidBody(body), Stated(body)
  PROVE  TakesBody(body)
<1> DEFINE W == Writers[body.type]
           R == Readers[body.type]
           Value(i) == body.fields[W[i][1]]
<1>1. ASSUME NEW i \in 1 .. Len(W) PROVE ValidField(W[i][2], R[i][2], Value(i))
  <2> DEFINE name == W[i][1]
  <2>1. ~(<< body.type, name >> \in MayBeUnstated /\ Value(i) = 0)
    <3>1. CASE body.type = 7 /\ name = "kind"
      BY <3>1 DEF Stated
    <3>2. CASE body.type = 17 /\ name = "unit"
      BY <3>2 DEF Stated
    <3>3. << body.type, name >> \in MayBeUnstated =>
            \/ body.type = 7 /\ name = "kind"
            \/ body.type = 17 /\ name = "unit"
      <4> DEFINE a == body.type
                 b == name
      <4> HIDE DEF a, b
      <4>1. << a, b >> \in MayBeUnstated => (a = 7 /\ b = "kind") \/ (a = 17 /\ b = "unit")
        BY DEF MayBeUnstated
      <4> QED BY <4>1 DEF a, b
    <3> HIDE DEF name
    <3> QED BY <3>1, <3>2, <3>3
  <2> QED BY <2>1 DEF ValidBody
<1>2. Fits(W, body.fields)
  BY DEF FitsBody
<1> HIDE DEF W, R
<1>3. ASSUME NEW i \in 1 .. Len(W) PROVE TakesField(W[i][2], R[i][2], Value(i))
  <2> DEFINE f == W[i][2]
             v == Value(i)
  <2>1. /\ f.is \in {"text", "list"} => Len(v) <= f.n
        /\ f.is = "group" \/ (f.is = "option" /\ v # << >>) => Within(f.of, v)
        /\ f.is = "list" => \A e \in 1 .. Len(v) : Within(f.of, v[e])
        /\ f.is = "metric" => Within(MetricPayload(v[1]), v[2])
    BY <1>2 DEF Fits
  <2>2. ValidField(f, R[i][2], v)
    BY <1>1
  <2> HIDE DEF f, v
  <2>3. TakesField(f, R[i][2], v)
    BY <2>1, <2>2, FieldFits
  <2> QED BY <2>3 DEF f, v
<1> QED BY <1>3 DEF TakesBody, TakesFields, W, R

(* The header of a record: identities and generations are set, the type and *)
(* the provenance are stated.                                               *)
ValidHeader(h) ==
  /\ h.sequence # 0 /\ h.record_id # 0 /\ h.ledger # 0 /\ h.epoch # 0
  /\ h.worker # 0 /\ h.worker_boot # 0
  /\ h.type \in 1 .. 22 /\ h.provenance \in 1 .. 6

LEMMA HeaderIsTaken ==
  ASSUME NEW h, ValidHeader(h)
  PROVE  TakesFields(WriteHeader, ReadHeader, h)
<1>1. ASSUME NEW domain, NEW g, NEW v, v # 0 PROVE TakesField(Id(domain), g, v)
  BY <1>1 DEF TakesField, Takes, Valid, Id, Tagged, Field, Compound, TokenKind
<1>2. ASSUME NEW v PROVE TakesField(Word, Word, v)
  BY DEF TakesField, Takes, Valid, Word, Field, Compound, TokenKind, Admits
<1>3. ASSUME NEW f, f \in { Word, Byte }, NEW last, NEW v, v \in 1 .. last
      PROVE  TakesField(f, Enum(last), v)
  BY <1>3 DEF TakesField, Takes, Valid, Word, Byte, Enum, Field, Compound, TokenKind, Admits
<1>4. ASSUME NEW i \in 1 .. Len(WriteHeader)
      PROVE  TakesField(WriteHeader[i][2], ReadHeader[i][2], h[WriteHeader[i][1]])
  <2>1. Len(WriteHeader) = 11
    BY DEF WriteHeader
  <2>2. /\ TakesField(WriteHeader[1][2], ReadHeader[1][2], h.sequence)
        /\ TakesField(WriteHeader[2][2], ReadHeader[2][2], h.type)
        /\ TakesField(WriteHeader[3][2], ReadHeader[3][2], h.record_id)
        /\ TakesField(WriteHeader[4][2], ReadHeader[4][2], h.ledger)
        /\ TakesField(WriteHeader[5][2], ReadHeader[5][2], h.epoch)
        /\ TakesField(WriteHeader[6][2], ReadHeader[6][2], h.worker)
        /\ TakesField(WriteHeader[7][2], ReadHeader[7][2], h.worker_boot)
        /\ TakesField(WriteHeader[8][2], ReadHeader[8][2], h.committed_at)
        /\ TakesField(WriteHeader[9][2], ReadHeader[9][2], h.provenance)
        /\ TakesField(WriteHeader[10][2], ReadHeader[10][2], h.payload_digest)
        /\ TakesField(WriteHeader[11][2], ReadHeader[11][2], h.chain_digest)
    BY <1>1, <1>2, <1>3 DEF WriteHeader, ReadHeader, ValidHeader
  <2>3. /\ WriteHeader[1][1] = "sequence" /\ WriteHeader[2][1] = "type"
        /\ WriteHeader[3][1] = "record_id" /\ WriteHeader[4][1] = "ledger"
        /\ WriteHeader[5][1] = "epoch" /\ WriteHeader[6][1] = "worker"
        /\ WriteHeader[7][1] = "worker_boot" /\ WriteHeader[8][1] = "committed_at"
        /\ WriteHeader[9][1] = "provenance" /\ WriteHeader[10][1] = "payload_digest"
        /\ WriteHeader[11][1] = "chain_digest"
    BY DEF WriteHeader
  <2>4. i \in { 1, 2, 3, 4, 5, 6, 7, 8, 9, 10, 11 }
    BY <2>1
  <2> QED BY <2>2, <2>3, <2>4, Zenon
<1> QED BY <1>4 DEF TakesFields

(* The records that a ledger may hold: with the lengths that append has     *)
(* checked, and the header it has written.                                  *)
KeptRecords(T) ==
  { r \in Records(T) :
      FitsBody(r.body) /\ ValidHeader(r.header) /\ r.header.type = r.body.type }

(* The ledger measures the texts and lists of a draft as the writer does.   *)
FittingFits == \A body : Fitting(body) => FitsBody(body)

ValidCatalogue == \A body \in Bodies : ValidBody(body)

LEMMA CommittedIsKept ==
  ASSUME NEW T, EncodesRecords, TypedCatalogue(T), NEW rs \in Seq(Records(T)),
         NEW body \in Bodies, FitsBody(body)
  PROVE  Committed(rs, body) \in KeptRecords(T)
<1> DEFINE u == Unchained(rs, body)
           new == Committed(rs, body)
<1>1. new \in Records(T)
  BY CommittedIsRecord
<1>2. Len(rs) \in Nat
  OBVIOUS
<1>3. PICK link : new = [ header |-> [ u EXCEPT !.chain_digest = link ], body |-> body ]
  BY <1>2, CommittedChain
<1>4. body.type \in 1 .. 22
  BY DEF TypedCatalogue, Typed
<1> HIDE DEF new
<1>5. /\ new.body = body
      /\ new.header.sequence = Len(rs) + 1 /\ new.header.record_id = Len(rs) + 1
      /\ new.header.ledger = 1 /\ new.header.epoch = 1 /\ new.header.worker = 1
      /\ new.header.worker_boot = 1 /\ new.header.provenance = 1
      /\ new.header.type = body.type
  BY <1>3 DEF Unchained
<1>6. ValidHeader(new.header)
  BY <1>2, <1>4, <1>5 DEF ValidHeader
<1> QED BY <1>1, <1>5, <1>6 DEF KeptRecords, new

LEMMA KeptGivesBack ==
  ASSUME NEW T, EncodesRecords, TypedCatalogue(T), FittingFits
  PROVE  GivesBack(KeptRecords(T), T)
<1>1. GivesBack(Records(T), T)
  BY CodecGivesBack
<1>2. \A rs \in Seq(KeptRecords(T)) : rs \in Seq(Records(T))
  BY DEF KeptRecords
<1>3. ASSUME NEW p \in Pid, NEW rs \in Seq(KeptRecords(T)), NEW n \in Offered(p, rs),
             Fitting(Catalogue[n])
      PROVE  Committed(rs, Catalogue[n]) \in KeptRecords(T)
  <2>1. rs \in Seq(Records(T)) /\ Catalogue[n] \in Bodies
    BY <1>2 DEF TypedCatalogue, Bodies
  <2>2. FitsBody(Catalogue[n])
    BY <1>3 DEF FittingFits
  <2> QED BY <2>1, <2>2, CommittedIsKept
<1>4. \A r \in KeptRecords(T) :
        /\ Encoded(r) \in Seq(T)
        /\ Decoded(Encoded(r)).ok => Decoded(Encoded(r)).record = r
  BY <1>1 DEF GivesBack, KeptRecords
<1>5. \A rs \in Seq(KeptRecords(T)) : Serialized(rs) # None
  BY <1>1, <1>2 DEF GivesBack
<1> QED BY <1>3, <1>4, <1>5 DEF GivesBack

(* No reader refuses a stated record. *)
LEMMA KeptIsRead ==
  ASSUME NEW T, TypedCatalogue(T), ValidCatalogue, NEW r \in KeptRecords(T),
         Stated(r.body)
  PROVE  DecodeRecord(EncodeRecord(r)).ok
<1> DEFINE header == r.header
           body == r.body
<1>1. /\ header \in Headers(T) /\ body \in Bodies /\ r = [ header |-> header, body |-> body ]
      /\ FitsBody(body) /\ ValidHeader(header) /\ header.type = body.type /\ Stated(body)
  BY DEF KeptRecords, Records
<1> HIDE DEF header, body
<1>2. /\ Closed(T) /\ Typed(body, T) /\ ValidBody(body)
  BY <1>1 DEF TypedCatalogue, ValidCatalogue
<1>3. IsBody(WriteHeader, header, T) /\ body.type \in 1 .. 22
  BY <1>1, <1>2, HeadersAreBodies DEF Typed
<1>4. TakesFields(WriteHeader, ReadHeader, header) /\ TakesBody(body)
  BY <1>1, <1>2, <1>3, HeaderIsTaken, StatedIsTaken
<1> QED BY <1>1, <1>2, <1>3, <1>4, RecordGivesBack

-----------------------------------------------------------------------------
(* A reader gives back what its writer wrote: whatever the values of the    *)
(* fields of a record of any of the 22 types, and whatever the limits of    *)
(* texts and lists, decode_record either refuses the bytes encode_record    *)
(* wrote or gives back exactly that record.                                 *)
THEOREM RecordsRoundTrip ==
  ASSUME NEW T, Closed(T), NEW header \in Headers(T), NEW body, Typed(body, T)
  PROVE  LET record == [ header |-> header, body |-> body ]
             decoded == DecodeRecord(EncodeRecord(record))
         IN decoded.ok => decoded.record = record
  BY HeadersAreBodies, RecordGivesBack

(* And no reader refuses what its writer wrote: a record whose texts and    *)
(* lists are within the limits, whose identities are set and whose          *)
(* enumerators are stated is decoded, and to exactly that record.           *)
THEOREM StatedRecordsAreRead ==
  ASSUME NEW T, Closed(T), NEW header \in Headers(T), ValidHeader(header),
         NEW body, Typed(body, T), FitsBody(body), ValidBody(body), Stated(body),
         header.type = body.type
  PROVE  LET record == [ header |-> header, body |-> body ]
             decoded == DecodeRecord(EncodeRecord(record))
         IN decoded.ok /\ decoded.record = record
<1>1. IsBody(WriteHeader, header, T) /\ body.type \in 1 .. 22
  BY HeadersAreBodies DEF Typed
<1>2. TakesFields(WriteHeader, ReadHeader, header) /\ TakesBody(body)
  BY <1>1, HeaderIsTaken, StatedIsTaken
<1> QED BY <1>1, <1>2, RecordGivesBack

(* With that codec the file at the path holds exactly the records of the    *)
(* ledger that wrote it, field for field, whatever failed, died or saved to *)
(* the same path in between.                                                *)
THEOREM EncodedFilesReproduce ==
  ASSUME NEW T, EncodesRecords, TypedCatalogue(T)
  PROVE  FileSpec => []LoadsAsSaved
  BY CodecGivesBack, SavesReproduce

(* And with that codec a process never puts an older state of its ledger    *)
(* over a newer one it saved.                                               *)
THEOREM EncodedSavesOnlyGrow ==
  ASSUME NEW T, EncodesRecords, TypedCatalogue(T)
  PROVE  FileSpec => OwnSavesGrow
  BY CodecGivesBack, OwnSavesOnlyGrow

(* With that codec only a file operation or the limit on the bytes of an    *)
(* image can fail a save of records whose enumerators are stated: the check *)
(* before the rename finds the image within the limits and decodes it.      *)
(* That images stay within the limit is a hypothesis: the code's limits on  *)
(* records and on bytes do not imply it.                                    *)
ImagesWithin ==
  \A p \in Pid, t \in Thread :
    thread[p][t].at = "check" => Len(thread[p][t].image) <= MaxImage

THEOREM StatedLedgersSave ==
  ASSUME NEW T, EncodesRecords, TypedCatalogue(T), ValidCatalogue, FittingFits
  PROVE  FileSpec /\ []ImagesWithin => []StatedLedgerSaves
<1> DEFINE Kept == KeptRecords(T)
<1>1. GivesBack(Kept, T)
  BY KeptGivesBack
<1> HIDE DEF Kept
<1>2. FileSpec => []DecodableLedgerSaves
  BY <1>1, DecodableLedgersSave
<1>3. FileInit => HeldInv(Kept)
  BY HeldInitially
<1>4. IInv /\ HeldInv(Kept) /\ [FileNext]_fileVars => HeldInv(Kept)'
  BY <1>1, FileStepHolds
<1>5. HeldInv(Kept) /\ DecodableLedgerSaves /\ ImagesWithin => StatedLedgerSaves
  <2>1. SUFFICES ASSUME HeldInv(Kept), DecodableLedgerSaves, ImagesWithin,
                        NEW p \in Pid, NEW t \in Thread, thread[p][t].at = "check",
                        \A i \in 1 .. Len(thread[p][t].of) : Stated(thread[p][t].of[i].body)
                 PROVE  Serializes(thread[p][t].of) /\ Loads(thread[p][t].image)
    BY DEF StatedLedgerSaves
  <2> DEFINE copy == thread[p][t].of
  <2>2. copy \in Seq(Kept)
    BY <2>1 DEF HeldInv, HoldsKept, Saving
  <2>3. ASSUME NEW i \in 1 .. Len(copy) PROVE Decoded(Encoded(copy[i])).ok
    <3>1. copy[i] \in KeptRecords(T) /\ Stated(copy[i].body)
      BY <2>1, <2>2 DEF Kept
    <3>2. DecodeRecord(EncodeRecord(copy[i])).ok
      BY <3>1, KeptIsRead
    <3> QED BY <3>2 DEF EncodesRecords
  <2>4. Decodable(copy)
    BY <2>3 DEF Decodable
  <2> QED BY <2>1, <2>4 DEF DecodableLedgerSaves, ImagesWithin
<1> QED BY <1>2, <1>3, <1>4, <1>5, FileInvariant, PTL DEF FileSpec
=============================================================================
