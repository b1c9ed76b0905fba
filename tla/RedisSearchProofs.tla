------------------------- MODULE RedisSearchProofs --------------------------
(***************************************************************************)
(* Proofs about RedisSearch, for any number of variables, arguments,       *)
(* setters and documents: what RediSearch reads in a command is what the   *)
(* caller set, and what the loop makes of its reply are the documents.     *)
(*                                                                         *)
(* A command, and a reply, is pieces written one after the other and       *)
(* flattened.  So the first part is about FlattenSeq, for sequences of any *)
(* length, by the least number at which it would fail; the second reads    *)
(* the tables of clauses; the third reads a command back; then come the    *)
(* invariants, of the builders and of a search.                            *)
(***************************************************************************)
EXTENDS RedisSearch, SearchReplyProofs, WellFoundedInduction

-----------------------------------------------------------------------------
(* Flattening.                                                             *)

Less == {p \in Nat \X Nat : p[1] < p[2]}

LEMMA LessWF == IsWellFoundedOn(Less, Nat)
<1>1. Less = OpToRel(<, Nat)
  BY DEF Less, OpToRel
<1> QED BY <1>1, NatLessThanWellFounded

\* A set of numbers that is not empty has a least one.
LEMMA Least ==
  ASSUME NEW T, T \subseteq Nat, T # {}
  PROVE  \E n \in T : \A m \in T : n <= m
<1>1. PICK n \in T : \A m \in T : ~(<<m, n>> \in Less)
  BY LessWF, WFMin
<1>2. ASSUME NEW m \in T PROVE n <= m
  <2>1. m \in Nat /\ n \in Nat
    OBVIOUS
  <2>2. m < n => <<m, n>> \in Less
    BY <2>1 DEF Less
  <2> QED BY <1>1, <2>1, <2>2
<1> QED BY <1>2

\* f joins the first n of ss.
JoinsTo(f, ss, n) ==
  f = [i \in 1 .. n |-> IF i = 1 THEN ss[1] ELSE f[i - 1] \o ss[i]]

\* The function by which FlattenSeq is defined exists.
LEMMA JoinExists ==
  ASSUME NEW ss, NEW L \in Nat
  PROVE  \E f : JoinsTo(f, ss, L)
<1> DEFINE T == {n \in Nat : ~ \E f : JoinsTo(f, ss, n)}
<1> SUFFICES ASSUME T # {} PROVE FALSE
  OBVIOUS
<1>1. PICK n \in T : \A m \in T : n <= m
  <2>1. T \subseteq Nat
    OBVIOUS
  <2> HIDE DEF T
  <2> QED BY <2>1, Least
<1>2. n # 0
  <2> DEFINE f == [i \in 1 .. 0 |-> ss[1]]
  <2>1. JoinsTo(f, ss, 0)
    BY DEF JoinsTo
  <2> QED BY <2>1
<1>3. n - 1 \in Nat /\ n - 1 \notin T
  BY <1>1, <1>2
<1>4. PICK g : JoinsTo(g, ss, n - 1)
  BY <1>3
<1> DEFINE f == [i \in 1 .. n |-> IF i = 1 THEN ss[1] ELSE g[i - 1] \o ss[i]]
<1>5. \A i \in 1 .. n - 1 : f[i] = g[i]
  <2> SUFFICES ASSUME NEW i \in 1 .. n - 1 PROVE f[i] = g[i]
    OBVIOUS
  <2>1. i \in 1 .. n
    BY <1>1
  <2>2. g[i] = IF i = 1 THEN ss[1] ELSE g[i - 1] \o ss[i]
    <3>1. g = [k \in 1 .. n - 1 |-> IF k = 1 THEN ss[1] ELSE g[k - 1] \o ss[k]]
      BY <1>4 DEF JoinsTo
    <3> QED BY <3>1
  <2> QED BY <2>1, <2>2
<1>6. JoinsTo(f, ss, n)
  <2>1. ASSUME NEW i \in 1 .. n
        PROVE  (IF i = 1 THEN ss[1] ELSE g[i - 1] \o ss[i])
                 = IF i = 1 THEN ss[1] ELSE f[i - 1] \o ss[i]
    <3>1. i # 1 => i - 1 \in 1 .. n - 1
      BY <1>1
    <3> HIDE DEF f
    <3> QED BY <3>1, <1>5
  <2> HIDE DEF f
  <2>2. f = [i \in 1 .. n |-> IF i = 1 THEN ss[1] ELSE g[i - 1] \o ss[i]]
    BY DEF f
  <2> QED BY <2>1, <2>2 DEF JoinsTo
<1> QED BY <1>1, <1>6

LEMMA FlattenJoins ==
  ASSUME NEW ss, Len(ss) \in Nat \ {0}
  PROVE  \E f : JoinsTo(f, ss, Len(ss)) /\ FlattenSeq(ss) = f[Len(ss)]
<1> DEFINE f == CHOOSE g : JoinsTo(g, ss, Len(ss))
<1>1. JoinsTo(f, ss, Len(ss))
  BY JoinExists
<1>2. FlattenSeq(ss) = f[Len(ss)]
  BY DEF FlattenSeq, JoinsTo
<1> QED BY <1>1, <1>2

\* off marks where the pieces of ss lie in flat, and nothing else is there: what
\* comes after a piece, if anything does, is the front of a later piece.
Marks(off, flat, ss, n) ==
  /\ off \in [0 .. n -> Nat] /\ off[0] = 0 /\ Len(flat) = off[n]
  /\ \A i \in 1 .. n :
       /\ off[i] = off[i - 1] + Len(ss[i]) /\ off[i] <= off[n]
       /\ \A k \in 1 .. Len(ss[i]) : flat[off[i - 1] + k] = ss[i][k]
  /\ \A j \in 1 .. Len(flat) :
       \E i \in 1 .. n : \E k \in 1 .. Len(ss[i]) : j = off[i - 1] + k
  /\ \A i \in 1 .. n : off[i] < off[n] =>
       \E j \in 1 .. n : i < j /\ off[j - 1] = off[i] /\ 1 \in 1 .. Len(ss[j])

\* Where the elements of two sequences are when they are joined.
LEMMA ConcatPositions ==
  ASSUME NEW S, NEW s1 \in Seq(S), NEW s2 \in Seq(S), NEW a \in Nat,
         NEW b \in Nat,
         a = Len(s1), b = Len(s2)
  PROVE  /\ s1 \o s2 \in Seq(S) /\ Len(s1 \o s2) = a + b
         /\ \A i \in 1 .. a : (s1 \o s2)[i] = s1[i]
         /\ \A k \in 1 .. b : (s1 \o s2)[a + k] = s2[k]
<1>1. \A i \in 1 .. a : i \in 1 .. a + b /\ i <= a
  OBVIOUS
<1>2. \A k \in 1 .. b : a + k \in 1 .. a + b /\ ~(a + k <= a) /\ (a + k) - a = k
  OBVIOUS
<1>3. /\ s1 \o s2 \in Seq(S) /\ Len(s1 \o s2) = a + b
      /\ \A i \in 1 .. a + b :
             (s1 \o s2)[i] = IF i <= a THEN s1[i] ELSE s2[i - a]
  BY ConcatProperties
<1> QED BY <1>1, <1>2, <1>3

\* One more piece.
LEMMA MarksGrow ==
  ASSUME NEW S, NEW L \in Nat, NEW ss \in [1 .. L -> Seq(S)],
         NEW l \in Nat, NEW m \in 1 .. L, m = l + 1,
         NEW flat \in Seq(S), NEW off, Marks(off, flat, ss, l)
  PROVE  \E new : Marks(new, flat \o ss[m], ss, m)
<1>1. PICK a \in Nat : a = off[l]
  BY DEF Marks
<1>2. PICK b \in Nat : b = Len(ss[m])
  OBVIOUS
<1> DEFINE new == [i \in 0 .. m |-> IF i = m THEN a + b ELSE off[i]]
           both == flat \o ss[m]
<1>3. off \in [0 .. l -> Nat] /\ off[0] = 0 /\ a = Len(flat)
  BY <1>1 DEF Marks
<1>4. /\ both \in Seq(S) /\ Len(both) = a + b
      /\ \A i \in 1 .. a : both[i] = flat[i]
      /\ \A k \in 1 .. b : both[a + k] = ss[m][k]
  BY <1>2, <1>3, ConcatPositions
<1>5. /\ new \in [0 .. m -> Nat] /\ new[m] = a + b
      /\ \A i \in 0 .. l : new[i] = off[i]
  BY <1>3
<1> HIDE DEF new, both
<1>6. new[0] = 0 /\ Len(both) = new[m] /\ new[l] = a
  <2>1. 0 \in 0 .. l /\ l \in 0 .. l
    OBVIOUS
  <2> QED BY <1>1, <1>3, <1>4, <1>5, <2>1
<1>7. ASSUME NEW i \in 1 .. m
      PROVE  /\ new[i] = new[i - 1] + Len(ss[i]) /\ new[i] <= new[m]
             /\ \A k \in 1 .. Len(ss[i]) : both[new[i - 1] + k] = ss[i][k]
  <2>1. CASE i = m
    <3>1. i - 1 = l
      BY <2>1
    <3>2. a + b <= a + b
      OBVIOUS
    <3> QED BY <1>2, <1>4, <1>5, <1>6, <2>1, <3>1, <3>2
  <2>2. CASE i # m
    <3>1. i \in 1 .. l /\ i \in 0 .. l /\ i - 1 \in 0 .. l
      BY <2>2
    <3>2. PICK c \in Nat : c = off[i - 1]
      BY <1>3, <3>1
    <3>3. PICK d \in Nat : d = off[i]
      BY <1>3, <3>1
    <3>4. PICK e \in Nat : e = Len(ss[i])
      BY <3>1
    <3>5. d = c + e /\ d <= a /\ \A k \in 1 .. e : flat[c + k] = ss[i][k]
      BY <1>1, <3>1, <3>2, <3>3, <3>4 DEF Marks
    <3>6. \A k \in 1 .. e : c + k \in 1 .. a
      BY <3>5
    <3>7. d <= a + b
      BY <3>5
    <3>8. new[i] = d /\ new[i - 1] = c
      BY <1>5, <3>1, <3>2, <3>3
    <3> QED BY <1>4, <1>5, <3>4, <3>5, <3>6, <3>7, <3>8
  <2> QED BY <2>1, <2>2
<1>8. ASSUME NEW j \in 1 .. Len(both)
      PROVE  \E i \in 1 .. m : \E k \in 1 .. Len(ss[i]) : j = new[i - 1] + k
  <2>1. j \in 1 .. a + b
    BY <1>4
  <2>2. CASE j <= a
    <3>1. j \in 1 .. Len(flat)
      BY <1>3, <2>1, <2>2
    <3>2. PICK i \in 1 .. l : \E k \in 1 .. Len(ss[i]) : j = off[i - 1] + k
      BY <3>1 DEF Marks
    <3>3. i \in 1 .. m /\ i - 1 \in 0 .. l
      OBVIOUS
    <3> QED BY <1>5, <3>2, <3>3
  <2>3. CASE ~(j <= a)
    <3>1. j - a \in 1 .. b /\ j = a + (j - a)
      BY <2>1, <2>3
    <3>2. m \in 1 .. m /\ m - 1 = l
      OBVIOUS
    <3> QED BY <1>2, <1>6, <3>1, <3>2
  <2> QED BY <2>2, <2>3
<1>10. ASSUME NEW i \in 1 .. m, new[i] < new[m]
       PROVE  \E j \in 1 .. m :
                i < j /\ new[j - 1] = new[i] /\ 1 \in 1 .. Len(ss[j])
  <2>1. i # m
    <3>1. PICK d \in Nat : d = new[m]
      BY <1>5
    <3>2. ~ (d < d)
      OBVIOUS
    <3> QED BY <1>10, <3>1, <3>2
  <2>2. i \in 1 .. l /\ i \in 0 .. l
    BY <2>1
  <2>3. PICK c \in Nat : c = off[i]
    BY <1>3, <2>2
  <2>4. new[i] = c /\ c < a + b
    BY <1>5, <1>10, <2>2, <2>3
  <2>5. CASE c < a
    <3>1. PICK j \in 1 .. l : i < j /\ off[j - 1] = c /\ 1 \in 1 .. Len(ss[j])
      BY <1>1, <2>2, <2>3, <2>5 DEF Marks
    <3>2. j \in 1 .. m /\ j - 1 \in 0 .. l
      OBVIOUS
    <3>3. new[j - 1] = c
      BY <1>5, <3>1, <3>2
    <3> QED BY <2>4, <3>1, <3>2, <3>3
  <2>6. CASE ~ (c < a)
    <3>1. c <= a
      BY <1>1, <2>2, <2>3 DEF Marks
    <3>2. c = a /\ 1 \in 1 .. b
      BY <2>4, <2>6, <3>1
    <3>3. i < m /\ m \in 1 .. m /\ m - 1 = l
      BY <2>2
    <3> QED BY <1>2, <1>6, <2>4, <3>2, <3>3
  <2> QED BY <2>5, <2>6
<1>9. Marks(new, both, ss, m)
  BY <1>5, <1>6, <1>7, <1>8, <1>10 DEF Marks
<1> QED BY <1>9 DEF both

LEMMA JoinMarks ==
  ASSUME NEW S, NEW L \in Nat, NEW ss \in [1 .. L -> Seq(S)], NEW f,
         JoinsTo(f, ss, L), NEW n \in 1 .. L
  PROVE  f[n] \in Seq(S) /\ \E off : Marks(off, f[n], ss, n)
<1> DEFINE T == {m \in 1 .. L :
        ~ (f[m] \in Seq(S) /\ \E off : Marks(off, f[m], ss, m))}
<1> SUFFICES ASSUME T # {} PROVE FALSE
  OBVIOUS
<1>1. PICK m \in T : \A k \in T : m <= k
  <2>1. T \subseteq Nat
    OBVIOUS
  <2> HIDE DEF T
  <2> QED BY <2>1, Least
<1>2. ASSUME NEW i \in 1 .. L
      PROVE  f[i] = IF i = 1 THEN ss[1] ELSE f[i - 1] \o ss[i]
  BY DEF JoinsTo
<1>3. CASE m = 1
  <2> DEFINE off == [i \in 0 .. 1 |-> IF i = 0 THEN 0 ELSE Len(ss[1])]
  <2>1. f[1] = ss[1] /\ ss[1] \in Seq(S) /\ Len(ss[1]) \in Nat
    BY <1>1, <1>2, <1>3
  <2>2. off \in [0 .. 1 -> Nat] /\ off[0] = 0 /\ off[1] = Len(ss[1])
    BY <2>1
  <2> HIDE DEF off
  <2>3. \A i \in 1 .. 1 : i = 1 /\ i - 1 = 0
    OBVIOUS
  <2>5. ~ (off[1] < off[1])
    BY <2>1, <2>2
  <2>4. Marks(off, ss[1], ss, 1)
    BY <2>1, <2>2, <2>3, <2>5 DEF Marks
  <2> QED BY <1>1, <1>3, <2>1, <2>4
<1>4. CASE m # 1
  <2>1. m \in 1 .. L
    BY <1>1
  <2>2. PICK l \in 1 .. L : l \in Nat /\ m = l + 1 /\ l = m - 1 /\ ~(m <= l)
    BY <1>4, <2>1
  <2>3. f[l] \in Seq(S) /\ \E off : Marks(off, f[l], ss, l)
    BY <1>1, <2>2
  <2>4. f[m] = f[l] \o ss[m] /\ ss[m] \in Seq(S)
    BY <1>2, <1>4, <2>1, <2>2
  <2>5. f[m] \in Seq(S)
    BY <2>3, <2>4, ConcatProperties
  <2>6. \E off : Marks(off, f[m], ss, m)
    <3>1. PICK off : Marks(off, f[l], ss, l)
      BY <2>3
    <3>2. \E new : Marks(new, f[l] \o ss[m], ss, m)
      BY <2>1, <2>2, <2>3, <3>1, MarksGrow
    <3> QED BY <2>4, <3>2
  <2> QED BY <1>1, <2>5, <2>6
<1> QED BY <1>3, <1>4

\* What FlattenSeq returns is its pieces in their order, and has nothing else.
LEMMA FlattenMarks ==
  ASSUME NEW S, NEW L \in Nat \ {0}, NEW ss \in [1 .. L -> Seq(S)]
  PROVE  FlattenSeq(ss) \in Seq(S) /\ \E off : Marks(off, FlattenSeq(ss), ss, L)
<1>1. Len(ss) = L
  OBVIOUS
<1>2. PICK f : JoinsTo(f, ss, L) /\ FlattenSeq(ss) = f[L]
  BY <1>1, FlattenJoins
<1> QED BY <1>2, JoinMarks

\* A place in a piece is a place in the whole.
LEMMA MarkInside ==
  ASSUME NEW S, NEW L \in Nat, NEW ss \in [1 .. L -> Seq(S)], NEW flat, NEW off,
         Marks(off, flat, ss, L), NEW i \in 1 .. L, NEW k \in 1 .. Len(ss[i])
  PROVE  off[i - 1] + k \in 1 .. Len(flat)
<1>0. off \in [0 .. L -> Nat] /\ i - 1 \in 0 .. L
  <2>1. off \in [0 .. L -> Nat]
    BY DEF Marks
  <2>2. i - 1 \in 0 .. L
    OBVIOUS
  <2> QED BY <2>1, <2>2
<1>1. PICK a \in Nat : a = off[i - 1]
  BY <1>0
<1>2. PICK b \in Nat : b = Len(ss[i])
  OBVIOUS
<1>3. PICK d \in Nat : d = off[L]
  BY <1>0
<1>4. a + b <= d /\ Len(flat) = d
  BY <1>1, <1>2, <1>3 DEF Marks
<1> QED BY <1>1, <1>2, <1>4

-----------------------------------------------------------------------------
(* Tables.                                                                 *)

Forms == {"flag", "word", "args", "list", "bare"}

\* What Search writes for a clause agrees with the syntax of RediSearch.
Agrees(c) ==
  /\ c.form = "flag" => c.word \in C!Alone
  /\ c.form = "word" => c.word \in C!Alone \/ c.field = "temporary"
  /\ c.form = "args" => c.word \notin C!Alone \/ c.field = "max_text_fields"
  /\ c.form = "list" => c.word \notin C!Alone

\* What the clauses of a table have in common: also, that the arguments without
\* a keyword are in front.
WellFormed(cs) ==
  /\ Len(cs) \in Nat \ {0} /\ DOMAIN cs = 1 .. Len(cs)
  /\ \A i \in DOMAIN cs :
       /\ cs[i].form \in Forms
       /\ cs[i].word = C!Empty => cs[i].form = "bare"
       /\ cs[i].form = "bare" => cs[i].word = C!Empty
       /\ cs[i].word # "SCHEMA"
       /\ cs[i].form # "bare" => cs[i].field \notin {"name", "field_type"}
       /\ cs[i].form = "bare" => cs[i].field \in {"name", "field_type"}
       /\ Agrees(cs[i])
       /\ \A j \in DOMAIN cs : i < j /\ cs[j].form = "bare" =>
            cs[i].form \in {"args", "bare"}

\* No field and no keyword is twice in a table.
Distinct(cs) ==
  \A i, j \in DOMAIN cs :
    /\ cs[i].field = cs[j].field => i = j
    /\ cs[i].word = cs[j].word => i = j \/ cs[i].word = C!Empty

\* The provers take the empty string for a string like any other only here.
LEMMA EmptyApart ==
  C!Empty \notin
    {"AS", "EXPANDER", "EXPLAINSCORE", "FILTER", "GEOFILTER",
     "HIGHLIGHT", "INFIELDS", "INKEYS", "INORDER", "LANGUAGE",
     "LANGUAGE_FIELD", "LIMIT", "MAXTEXTFIELDS", "NOCONTENT",
     "NOFIELDS", "NOFREQS", "NOHL", "NOINDEX", "NOOFFSETS", "NOSTEM",
     "NOSTOPWORDS", "PAYLOAD", "PAYLOAD_FIELD", "PHONETIC", "PREFIX",
     "RETURN", "SCORE", "SCORER", "SCORE_FIELD", "SEPARATOR",
     "SKIPINITIALSCAN", "SLOP", "SORTABLE", "SORTBY", "STOPWORDS",
     "SUMMARIZE", "TEMPORARY", "VERBATIM", "WEIGHT", "WITHPAYLOADS",
     "WITHSCORES", "WITHSORTKEYS", "SCHEMA"}
BY Zenon DEF C!Empty

LEMMA CreateTable == WellFormed(C!CreateClauses) /\ Distinct(C!CreateClauses)
<1>1. Len(C!CreateClauses) = 15 /\ DOMAIN C!CreateClauses = 1 .. 15
  BY DEF C!CreateClauses
<1>2. \A i \in 1 .. 15 : C!CreateClauses[i].form \in Forms
  BY DEF C!CreateClauses, C!Clause, Forms
<1>3. \A i \in 1 .. 15 :
        /\ C!CreateClauses[i].word = C!Empty => C!CreateClauses[i].form = "bare"
        /\ C!CreateClauses[i].form = "bare" => C!CreateClauses[i].word = C!Empty
  BY EmptyApart DEF C!CreateClauses, C!Clause
<1>4. \A i \in 1 .. 15 : C!CreateClauses[i].word # "SCHEMA"
  BY EmptyApart DEF C!CreateClauses, C!Clause
<1>5. \A i, j \in 1 .. 15 :
          C!CreateClauses[i].field = C!CreateClauses[j].field => i = j
  BY DEF C!CreateClauses, C!Clause
<1>6. \A i, j \in 1 .. 15 :
        C!CreateClauses[i].word = C!CreateClauses[j].word =>
            i = j \/ C!CreateClauses[i].word = C!Empty
  BY EmptyApart DEF C!CreateClauses, C!Clause
<1>9. \A i \in 1 .. 15 :
        /\ C!CreateClauses[i].form # "bare" =>
               C!CreateClauses[i].field \notin {"name", "field_type"}
        /\ C!CreateClauses[i].form = "bare" =>
               C!CreateClauses[i].field \in {"name", "field_type"}
  BY EmptyApart DEF C!CreateClauses, C!Clause
<1>10. \A i \in 1 .. 15 : Agrees(C!CreateClauses[i])
  BY DEF C!CreateClauses, C!Clause, C!Alone, Agrees
<1>11. \A i, j \in 1 .. 15 : i < j /\ C!CreateClauses[j].form = "bare" =>
         C!CreateClauses[i].form \in {"args", "bare"}
  BY DEF C!CreateClauses, C!Clause
<1>7. WellFormed(C!CreateClauses)
  <2>1. Len(C!CreateClauses) \in Nat \ {0} /\
            DOMAIN C!CreateClauses = 1 .. Len(C!CreateClauses)
    BY <1>1
  <2> QED BY <1>1, <1>2, <1>3, <1>4, <1>9, <1>10, <1>11, <2>1 DEF WellFormed
<1>8. Distinct(C!CreateClauses)
  BY <1>1, <1>5, <1>6 DEF Distinct
<1> QED BY <1>7, <1>8

LEMMA SchemaTable == WellFormed(C!SchemaClauses) /\ Distinct(C!SchemaClauses)
<1>1. Len(C!SchemaClauses) = 9 /\ DOMAIN C!SchemaClauses = 1 .. 9
  BY DEF C!SchemaClauses
<1>2. \A i \in 1 .. 9 : C!SchemaClauses[i].form \in Forms
  BY DEF C!SchemaClauses, C!Clause, Forms
<1>3. \A i \in 1 .. 9 :
        /\ C!SchemaClauses[i].word = C!Empty => C!SchemaClauses[i].form = "bare"
        /\ C!SchemaClauses[i].form = "bare" => C!SchemaClauses[i].word = C!Empty
  BY EmptyApart DEF C!SchemaClauses, C!Clause
<1>4. \A i \in 1 .. 9 : C!SchemaClauses[i].word # "SCHEMA"
  BY EmptyApart DEF C!SchemaClauses, C!Clause
<1>5. \A i, j \in 1 .. 9 :
          C!SchemaClauses[i].field = C!SchemaClauses[j].field => i = j
  BY DEF C!SchemaClauses, C!Clause
<1>6. \A i, j \in 1 .. 9 :
        C!SchemaClauses[i].word = C!SchemaClauses[j].word =>
            i = j \/ C!SchemaClauses[i].word = C!Empty
  BY EmptyApart DEF C!SchemaClauses, C!Clause
<1>9. \A i \in 1 .. 9 :
        /\ C!SchemaClauses[i].form # "bare" =>
               C!SchemaClauses[i].field \notin {"name", "field_type"}
        /\ C!SchemaClauses[i].form = "bare" =>
               C!SchemaClauses[i].field \in {"name", "field_type"}
  BY EmptyApart DEF C!SchemaClauses, C!Clause
<1>10. \A i \in 1 .. 9 : Agrees(C!SchemaClauses[i])
  BY DEF C!SchemaClauses, C!Clause, C!Alone, Agrees
<1>11. \A i, j \in 1 .. 9 : i < j /\ C!SchemaClauses[j].form = "bare" =>
         C!SchemaClauses[i].form \in {"args", "bare"}
  BY DEF C!SchemaClauses, C!Clause
<1>7. WellFormed(C!SchemaClauses)
  <2>1. Len(C!SchemaClauses) \in Nat \ {0} /\
            DOMAIN C!SchemaClauses = 1 .. Len(C!SchemaClauses)
    BY <1>1
  <2> QED BY <1>1, <1>2, <1>3, <1>4, <1>9, <1>10, <1>11, <2>1 DEF WellFormed
<1>8. Distinct(C!SchemaClauses)
  BY <1>1, <1>5, <1>6 DEF Distinct
<1> QED BY <1>7, <1>8

LEMMA OptionTable == WellFormed(C!OptionClauses) /\ Distinct(C!OptionClauses)
<1>1. Len(C!OptionClauses) = 6 /\ DOMAIN C!OptionClauses = 1 .. 6
  BY DEF C!OptionClauses
<1>2. \A i \in 1 .. 6 : C!OptionClauses[i].form \in Forms
  BY DEF C!OptionClauses, C!Clause, Forms
<1>3. \A i \in 1 .. 6 :
        /\ C!OptionClauses[i].word = C!Empty => C!OptionClauses[i].form = "bare"
        /\ C!OptionClauses[i].form = "bare" => C!OptionClauses[i].word = C!Empty
  BY EmptyApart DEF C!OptionClauses, C!Clause
<1>4. \A i \in 1 .. 6 : C!OptionClauses[i].word # "SCHEMA"
  BY EmptyApart DEF C!OptionClauses, C!Clause
<1>5. \A i, j \in 1 .. 6 :
          C!OptionClauses[i].field = C!OptionClauses[j].field => i = j
  BY DEF C!OptionClauses, C!Clause
<1>6. \A i, j \in 1 .. 6 :
        C!OptionClauses[i].word = C!OptionClauses[j].word =>
            i = j \/ C!OptionClauses[i].word = C!Empty
  BY EmptyApart DEF C!OptionClauses, C!Clause
<1>9. \A i \in 1 .. 6 :
        /\ C!OptionClauses[i].form # "bare" =>
               C!OptionClauses[i].field \notin {"name", "field_type"}
        /\ C!OptionClauses[i].form = "bare" =>
               C!OptionClauses[i].field \in {"name", "field_type"}
  BY EmptyApart DEF C!OptionClauses, C!Clause
<1>10. \A i \in 1 .. 6 : Agrees(C!OptionClauses[i])
  BY DEF C!OptionClauses, C!Clause, C!Alone, Agrees
<1>11. \A i, j \in 1 .. 6 : i < j /\ C!OptionClauses[j].form = "bare" =>
         C!OptionClauses[i].form \in {"args", "bare"}
  BY DEF C!OptionClauses, C!Clause
<1>7. WellFormed(C!OptionClauses)
  <2>1. Len(C!OptionClauses) \in Nat \ {0} /\
            DOMAIN C!OptionClauses = 1 .. Len(C!OptionClauses)
    BY <1>1
  <2> QED BY <1>1, <1>2, <1>3, <1>4, <1>9, <1>10, <1>11, <2>1 DEF WellFormed
<1>8. Distinct(C!OptionClauses)
  BY <1>1, <1>5, <1>6 DEF Distinct
<1> QED BY <1>7, <1>8

LEMMA SearchTable == WellFormed(C!SearchClauses) /\ Distinct(C!SearchClauses)
<1>1. Len(C!SearchClauses) = 22 /\ DOMAIN C!SearchClauses = 1 .. 22
  BY DEF C!SearchClauses
<1>2. \A i \in 1 .. 22 : C!SearchClauses[i].form \in Forms
  BY DEF C!SearchClauses, C!Clause, Forms
<1>3. \A i \in 1 .. 22 :
        /\ C!SearchClauses[i].word = C!Empty => C!SearchClauses[i].form = "bare"
        /\ C!SearchClauses[i].form = "bare" => C!SearchClauses[i].word = C!Empty
  BY EmptyApart DEF C!SearchClauses, C!Clause
<1>4. \A i \in 1 .. 22 : C!SearchClauses[i].word # "SCHEMA"
  BY EmptyApart DEF C!SearchClauses, C!Clause
<1>5. \A i, j \in 1 .. 22 :
          C!SearchClauses[i].field = C!SearchClauses[j].field => i = j
  BY DEF C!SearchClauses, C!Clause
<1>6. \A i, j \in 1 .. 22 :
        C!SearchClauses[i].word = C!SearchClauses[j].word =>
            i = j \/ C!SearchClauses[i].word = C!Empty
  BY EmptyApart DEF C!SearchClauses, C!Clause
<1>9. \A i \in 1 .. 22 :
        /\ C!SearchClauses[i].form # "bare" =>
               C!SearchClauses[i].field \notin {"name", "field_type"}
        /\ C!SearchClauses[i].form = "bare" =>
               C!SearchClauses[i].field \in {"name", "field_type"}
  BY EmptyApart DEF C!SearchClauses, C!Clause
<1>10. \A i \in 1 .. 22 : Agrees(C!SearchClauses[i])
  BY DEF C!SearchClauses, C!Clause, C!Alone, Agrees
<1>11. \A i, j \in 1 .. 22 : i < j /\ C!SearchClauses[j].form = "bare" =>
         C!SearchClauses[i].form \in {"args", "bare"}
  BY DEF C!SearchClauses, C!Clause
<1>7. WellFormed(C!SearchClauses)
  <2>1. Len(C!SearchClauses) \in Nat \ {0} /\
            DOMAIN C!SearchClauses = 1 .. Len(C!SearchClauses)
    BY <1>1
  <2> QED BY <1>1, <1>2, <1>3, <1>4, <1>9, <1>10, <1>11, <2>1 DEF WellFormed
<1>8. Distinct(C!SearchClauses)
  BY <1>1, <1>5, <1>6 DEF Distinct
<1> QED BY <1>7, <1>8

LEMMA TableOf ==
  ASSUME NEW kind \in C!Kinds
  PROVE  WellFormed(C!Clauses(kind)) /\ Distinct(C!Clauses(kind))
BY CreateTable, SchemaTable, OptionTable, SearchTable DEF C!Kinds, C!Clauses

\* No keyword is used both for an index and in its schema.
LEMMA CreateSchemaApart ==
  \A i \in DOMAIN C!CreateClauses : \A j \in DOMAIN C!SchemaClauses :
    C!CreateClauses[i].word # C!SchemaClauses[j].word
BY EmptyApart DEF C!CreateClauses, C!SchemaClauses, C!Clause

\* A kind of builder is known by its fields.
LEMMA KindsApart ==
  ASSUME NEW k1 \in C!Kinds, NEW k2 \in C!Kinds, C!Fields(k1) = C!Fields(k2)
  PROVE  k1 = k2
<1>1. /\ "prefix" \in C!Fields("create") /\ "prefix" \notin C!Fields("schema")
      /\ "prefix" \notin C!Fields("option") /\
             "prefix" \notin C!Fields("search")
  BY DEF C!Fields, C!ClausesOf, C!Clauses, C!ToSet, C!CreateClauses,
     C!SchemaClauses,
         C!OptionClauses, C!SearchClauses, C!Clause
<1>2. /\ "name" \in C!Fields("schema") /\ "name" \notin C!Fields("option")
      /\ "name" \notin C!Fields("search")
  BY DEF C!Fields, C!ClausesOf, C!Clauses, C!ToSet, C!SchemaClauses,
         C!OptionClauses, C!SearchClauses, C!Clause
<1>3. /\ "slop" \in C!Fields("search") /\ "slop" \notin C!Fields("option")
  BY DEF C!Fields, C!ClausesOf, C!Clauses, C!ToSet, 
         C!OptionClauses, C!SearchClauses, C!Clause
<1> QED BY <1>1, <1>2, <1>3 DEF C!Kinds

-----------------------------------------------------------------------------
(* Clauses.                                                                *)

\* What the clauses of all tables have in common.
LEMMA ClauseShape ==
  ASSUME NEW kind \in C!Kinds, NEW c \in C!ClausesOf(kind)
  PROVE  /\ c.form \in Forms /\ c.word \notin Arguments
         /\ c.word = C!Empty => c.form = "bare"
         /\ c.form = "bare" => c.word = C!Empty
         /\ c.word # "SCHEMA"
         /\ c.form # "bare" => c.field \notin {"name", "field_type"}
         /\ c.form = "bare" => c.field \in {"name", "field_type"}
         /\ Agrees(c)
<1>1. PICK i \in DOMAIN C!Clauses(kind) : c = C!Clauses(kind)[i]
  BY DEF C!ClausesOf, C!ToSet
<1>2. WellFormed(C!Clauses(kind))
  BY TableOf
<1> QED BY <1>1, <1>2, RedisSearchAssumption DEF WellFormed

\* What may stand in a command beside keywords.
Operands == Arguments \cup {C!Empty}

LEMMA NoneApart ==
  None \notin BOOLEAN /\ None \notin Arguments /\ None \notin C!Lists
BY RedisSearchAssumption

\* No keyword is an operand, and every word of a clause is a keyword.
LEMMA KeywordsApart ==
  /\ \A x \in Operands : x \notin C!Keywords
  /\ \A kind \in C!Kinds : \A c \in C!ClausesOf(kind) :
       c.form # "bare" => c.word \in C!Keywords
  /\ "SCHEMA" \in C!Keywords
<1>1. C!Empty # "SCHEMA"
  BY EmptyApart
<1>6. \A x \in C!Words :
        \E kind \in C!Kinds : \E c \in C!ClausesOf(kind) : x = c.word
  BY DEF C!Words
<1>2. \A x \in Operands : x \notin C!Keywords
  BY <1>6, RedisSearchAssumption DEF Operands, C!Keywords
<1>3. \A kind \in C!Kinds : \A c \in C!ClausesOf(kind) :
        c.form # "bare" => c.word # C!Empty
  BY ClauseShape
<1>7. \A kind \in C!Kinds : \A c \in C!ClausesOf(kind) : c.word \in C!Words
  BY DEF C!Words
<1>4. \A kind \in C!Kinds : \A c \in C!ClausesOf(kind) :
        c.form # "bare" => c.word \in C!Keywords
  BY <1>3, <1>7 DEF C!Keywords
<1>5. "SCHEMA" \in C!Keywords
  BY <1>1 DEF C!Keywords
<1> QED BY <1>2, <1>4, <1>5

LEMMA ListType == \A v \in C!Lists : v \in Seq(Arguments)
BY RedisSearchAssumption DEF C!Lists

\* What is written for a clause: its word in front, and then arguments; and,
\* unless it is miswritten, the one argument that it means, if it means one.
Puts(c, v, w, m) ==
  /\ c.form = "bare" => w = <<m>> /\ m \in Operands
  /\ c.form # "bare" /\ m = None => w = <<>>
  /\ c.form # "bare" /\ m # None =>
       /\ w \in Seq({c.word} \cup Arguments)
       /\ 1 \in 1 .. Len(w) /\ w[1] = c.word
       /\ \A k \in 1 .. Len(w) : k # 1 => w[k] \in Arguments
  /\ c.form # "bare" /\ m # None /\ ~ C!Miswritten(c, v) =>
       \/ Len(w) = 1 /\ m = TRUE /\ c.form # "args"
       \/ Len(w) = 2 /\ w[2] = m /\ m \in Arguments

LEMMA WrittenMeans ==
  ASSUME NEW kind \in C!Kinds, NEW c \in C!ClausesOf(kind),
         NEW v \in {None} \cup C!Values(c), NEW w, w = C!Written(c, v),
         NEW m, m = C!Meant(c, v)
  PROVE  Puts(c, v, w, m)
<1> USE DEF Puts
<1>1. c.form \in Forms /\ Agrees(c)
  BY ClauseShape
<1>2. CASE c.form = "bare"
  <2>1. v \in {None} \cup Arguments
    BY <1>2 DEF C!Values
  <2>2. m = (IF v = None THEN C!Empty ELSE v) /\
            w = <<IF v = None THEN C!Empty ELSE v>>
    BY <1>2 DEF C!Meant, C!Written
  <2> QED BY <1>2, <2>1, <2>2 DEF Operands
<1>6. ASSUME w = <<c.word>>
      PROVE  /\ w \in Seq({c.word} \cup Arguments)
             /\ 1 \in 1 .. Len(w) /\ w[1] = c.word /\ Len(w) = 1
             /\ \A k \in 1 .. Len(w) : k # 1 => w[k] \in Arguments
  BY <1>6
<1>3. CASE c.form = "flag"
  <2>0. c.word \in C!Alone
    BY <1>1, <1>3 DEF Agrees
  <2>1. v \in {None, TRUE, FALSE}
    BY <1>3 DEF C!Values
  <2>2. CASE v = None
    BY <1>3, <2>2 DEF C!Meant, C!Written
  <2>3. CASE v = TRUE
    <3>1. v # None
      BY <2>3, NoneApart
    <3>2. w = <<c.word>> /\ m = TRUE
      BY <1>3, <2>0, <2>3, <3>1 DEF C!Meant, C!Written
    <3> QED BY <1>3, <1>6, <2>3, <3>1, <3>2
  <2>4. CASE v = FALSE
    <3>1. v # None
      BY <2>4, NoneApart
    <3>2. w = <<>> /\ m = None
      BY <1>3, <2>4, <3>1 DEF C!Meant, C!Written
    <3> QED BY <1>3, <3>2
  <2> QED BY <2>1, <2>2, <2>3, <2>4
<1>4. CASE c.form = "word"
  <2>1. CASE v = None
    BY <1>4, <2>1 DEF C!Meant, C!Written
  <2>2. CASE v # None
    <3>1. w = <<c.word>>
      BY <1>4, <2>2 DEF C!Written
    <3>2. c.word \in C!Alone => m = TRUE
      BY <1>4, <2>2 DEF C!Meant
    <3>3. ~ C!Miswritten(c, v) => c.word \in C!Alone
      BY <1>1, <1>4, <2>2 DEF Agrees, C!Miswritten
    <3>4. m # None
      <4>1. c.word \notin C!Alone => m = v
        BY <1>4, <2>2 DEF C!Meant
      <4> QED BY <2>2, <3>2, <4>1, NoneApart
    <3> QED BY <1>4, <1>6, <3>1, <3>2, <3>3, <3>4
  <2> QED BY <2>1, <2>2
<1>5. CASE c.form = "args"
  <2>1. CASE v = None
    BY <1>5, <2>1 DEF C!Meant, C!Written
  <2>2. CASE v # None
    <3>1. w = <<c.word, v>> /\ v \in Arguments
      BY <1>5, <2>2 DEF C!Written, C!Values
    <3>2. c.word \notin C!Alone => m = v
      BY <1>5, <2>2 DEF C!Meant
    <3>3. ~ C!Miswritten(c, v) => c.word \notin C!Alone
      BY <1>1, <1>5, <2>2 DEF Agrees, C!Miswritten
    <3>4. m # None
      <4>1. c.word \in C!Alone => m = TRUE
        BY <1>5, <2>2 DEF C!Meant
      <4> QED BY <2>2, <3>2, <4>1, NoneApart
    <3> QED BY <1>5, <3>1, <3>2, <3>3, <3>4
  <2> QED BY <2>1, <2>2
<1>7. CASE c.form = "list"
  <2>1. CASE v = None
    BY <1>7, <2>1 DEF C!Meant, C!Written
  <2>2. CASE v # None
    <3>1. v \in Seq(Arguments)
      BY <1>7, <2>2, ListType DEF C!Values
    <3>2. PICK one : one = <<c.word>>
      OBVIOUS
    <3>3. PICK T : T = {c.word} \cup Arguments
      OBVIOUS
    <3>4. one \in Seq(T) /\ v \in Seq(T) /\ Len(one) = 1 /\ one[1] = c.word
      BY <3>1, <3>2, <3>3
    <3>5. w = one \o v
      BY <1>7, <2>2, <3>2 DEF C!Written
    <3>6. PICK b \in Nat : b = Len(v)
      BY <3>1
    <3>7. PICK a \in Nat : a = 1
      OBVIOUS
    <3>8. /\ w \in Seq(T) /\ Len(w) = a + b
          /\ \A i \in 1 .. a : w[i] = one[i]
          /\ \A k \in 1 .. b : w[a + k] = v[k]
      <4>1. one \in Seq(T) /\ v \in Seq(T) /\ a = Len(one) /\ b = Len(v)
        BY <3>4, <3>6, <3>7
      <4>2. /\ one \o v \in Seq(T) /\ Len(one \o v) = a + b
            /\ \A i \in 1 .. a : (one \o v)[i] = one[i]
            /\ \A k \in 1 .. b : (one \o v)[a + k] = v[k]
        BY <4>1, ConcatPositions
      <4> QED BY <3>5, <4>2
    <3>9. 1 \in 1 .. Len(w) /\ w[1] = c.word
      BY <3>4, <3>7, <3>8
    <3>10. ASSUME NEW k \in 1 .. Len(w), k # 1
           PROVE  w[k] \in Arguments
      <4>1. k - 1 \in 1 .. b /\ k = a + (k - 1)
        BY <3>7, <3>8, <3>10
      <4>2. w[k] = v[k - 1]
        BY <3>8, <4>1
      <4>3. v[k - 1] \in Arguments
        BY <3>1, <3>6, <4>1, ElementOfSeq
      <4> QED BY <4>2, <4>3
    <3>11. ASSUME v \in [1 .. 1 -> Arguments]
           PROVE  Len(w) = 2 /\ w[2] = m /\ m \in Arguments
      <4>1. Len(v) = 1 /\ v[1] \in Arguments
        BY <3>11
      <4>2. m = v[1]
        BY <1>1, <1>7, <2>2, <3>11 DEF C!Meant, Agrees
      <4>3. b = 1 /\ Len(w) = 2
        BY <3>6, <3>7, <3>8, <4>1
      <4>4. w[a + 1] = v[1]
        BY <3>8, <4>3
      <4> QED BY <3>7, <4>1, <4>2, <4>3, <4>4
    <3>12. ~ C!Miswritten(c, v) => v \in [1 .. 1 -> Arguments]
      BY <1>7, <2>2 DEF C!Miswritten
    <3>13. m # None
      <4>1. CASE v \in [1 .. 1 -> Arguments]
        BY <3>11, <4>1, NoneApart
      <4>2. CASE v \notin [1 .. 1 -> Arguments]
        <5>1. m = v
          BY <1>1, <1>7, <2>2, <4>2 DEF C!Meant, Agrees
        <5> QED BY <2>2, <5>1
      <4> QED BY <4>1, <4>2
    <3> QED BY <1>7, <3>3, <3>8, <3>9, <3>10, <3>11, <3>12, <3>13
  <2> QED BY <2>1, <2>2
<1> QED BY <1>1, <1>2, <1>3, <1>4, <1>5, <1>7 DEF Forms

\* fields has a value for every field of a builder, and nothing else.
Typed(kind, fields) ==
  /\ DOMAIN fields = C!Fields(kind)
  /\ \A c \in C!ClausesOf(kind) : fields[c.field] \in {None} \cup C!Values(c)

\* What a command is made of, and the piece of each clause.
Symbols(kind) == Operands \cup {c.word : c \in C!ClausesOf(kind)}

Pieces(kind, fields) ==
  [i \in 1 .. Len(C!Clauses(kind)) |->
     C!Written(C!Clauses(kind)[i], fields[C!Clauses(kind)[i].field])]

LEMMA PieceType ==
  ASSUME NEW kind \in C!Kinds, NEW fields, Typed(kind, fields),
         NEW L, L = Len(C!Clauses(kind))
  PROVE  /\ L \in Nat \ {0} /\ DOMAIN C!Clauses(kind) = 1 .. L
         /\ Pieces(kind, fields) \in [1 .. L -> Seq(Symbols(kind))]
         /\ C!WrittenAll(kind, fields) = FlattenSeq(Pieces(kind, fields))
<1> DEFINE cs == C!Clauses(kind)
<1>1. L \in Nat \ {0} /\ DOMAIN cs = 1 .. L
  BY TableOf DEF WellFormed
<1>2. C!WrittenAll(kind, fields) = FlattenSeq(Pieces(kind, fields))
  BY <1>1 DEF C!WrittenAll, Pieces, C!FlattenSeq, FlattenSeq
<1>3. ASSUME NEW i \in 1 .. L
      PROVE  Pieces(kind, fields)[i] \in Seq(Symbols(kind))
  <2>1. PICK c : c = cs[i]
    OBVIOUS
  <2>2. c \in C!ClausesOf(kind)
    BY <1>1, <2>1 DEF C!ClausesOf, C!ToSet
  <2>3. PICK v : v = fields[c.field]
    OBVIOUS
  <2>4. PICK w : w = C!Written(c, v)
    OBVIOUS
  <2>5. PICK m : m = C!Meant(c, v)
    OBVIOUS
  <2>6. v \in {None} \cup C!Values(c)
    BY <2>2, <2>3 DEF Typed
  <2>7. /\ c.form = "bare" => w = <<m>> /\ m \in Operands
        /\ c.form # "bare" /\ m = None => w = <<>>
        /\ c.form # "bare" /\ m # None => w \in Seq({c.word} \cup Arguments)
    <3>1. Puts(c, v, w, m)
      BY <2>2, <2>4, <2>5, <2>6, WrittenMeans
    <3> QED BY <3>1 DEF Puts
  <2>9. c.word \in Symbols(kind) /\ Operands \subseteq Symbols(kind) /\
            Arguments \subseteq Operands
    BY <2>2 DEF Symbols, Operands
  <2>10. w \in Seq(Symbols(kind))
    <3>1. CASE c.form = "bare"
      <4>1. w = <<m>> /\ m \in Symbols(kind)
        BY <2>7, <2>9, <3>1
      <4> QED BY <4>1
    <3>2. CASE c.form # "bare" /\ m = None
      <4>1. w = <<>>
        BY <2>7, <3>2
      <4> QED BY <4>1
    <3>3. CASE c.form # "bare" /\ m # None
      <4>1. {c.word} \cup Arguments \subseteq Symbols(kind)
        BY <2>9
      <4> QED BY <2>7, <3>3, <4>1, SeqMonotonic
    <3> QED BY <3>1, <3>2, <3>3
  <2> QED BY <2>1, <2>3, <2>4, <2>10 DEF Pieces
<1>4. Pieces(kind, fields) \in [1 .. L -> Seq(Symbols(kind))]
  BY <1>1, <1>3 DEF Pieces
<1> QED BY <1>1, <1>2, <1>4

\* What follows a keyword, if that is no keyword.
Follower(args, p) ==
  IF p + 1 \in DOMAIN args /\ args[p + 1] \notin C!Keywords THEN args[p + 1] ELSE TRUE

\* A clause that means something stands in the command, in front of what it
\* means unless it is miswritten, and no other does.
Reads(kind, fields, args) ==
  /\ args \in Seq(Symbols(kind))
  /\ \A c \in C!ClausesOf(kind) : c.form # "bare" =>
       /\ C!Meant(c, fields[c.field]) # None => \E p \in 1 .. Len(args) :
              args[p] = c.word
       /\ \A p \in 1 .. Len(args) : args[p] = c.word =>
            /\ C!Meant(c, fields[c.field]) # None
            /\ \/ C!Miswritten(c, fields[c.field])
               \/ Follower(args, p) = C!Meant(c, fields[c.field])

\* A keyword stands in the piece of its clause only, and in front.
LEMMA OnlyItsWord ==
  ASSUME NEW kind \in C!Kinds, NEW fields, Typed(kind, fields),
         NEW cs, cs = C!Clauses(kind), NEW L, L = Len(cs),
         NEW ss, ss = Pieces(kind, fields),
         NEW n \in 1 .. L, cs[n].form # "bare",
         NEW i \in 1 .. L, NEW k \in 1 .. Len(ss[i]), ss[i][k] = cs[n].word
  PROVE  i = n /\ k = 1
<1>1. DOMAIN cs = 1 .. L
  BY PieceType
<1>2. cs[i] \in C!ClausesOf(kind) /\ cs[n] \in C!ClausesOf(kind)
  BY <1>1 DEF C!ClausesOf, C!ToSet
<1>3. PICK c : c = cs[i]
  OBVIOUS
<1>4. PICK m : m = C!Meant(c, fields[c.field])
  OBVIOUS
<1>5. PICK w : w = ss[i]
  OBVIOUS
<1>6. /\ c.form = "bare" => w = <<m>> /\ m \in Operands
      /\ c.form # "bare" /\ m = None => w = <<>>
      /\ c.form # "bare" /\ m # None =>
           w[1] = c.word /\ \A l \in 1 .. Len(w) : l # 1 => w[l] \in Arguments
  <2>1. fields[c.field] \in {None} \cup C!Values(c)
    BY <1>2, <1>3 DEF Typed
  <2>2. w = C!Written(c, fields[c.field])
    BY <1>1, <1>3, <1>5 DEF Pieces
  <2>3. c \in C!ClausesOf(kind)
    BY <1>2, <1>3
  <2>4. Puts(c, fields[c.field], w, m)
    BY <1>4, <2>1, <2>2, <2>3, WrittenMeans
  <2> QED BY <2>4 DEF Puts
<1>7. cs[n].word \notin Operands /\ Arguments \subseteq Operands
  BY <1>2, ClauseShape DEF Operands
<1>9. w[k] = c.word /\ k = 1
  <2>1. CASE c.form = "bare"
    <3>1. w = <<m>> /\ m \in Operands
      BY <1>6, <2>1
    <3> QED BY <1>5, <1>7, <3>1
  <2>2. CASE c.form # "bare" /\ m = None
    <3>1. w = <<>>
      BY <1>6, <2>2
    <3> QED BY <1>5, <3>1
  <2>3. CASE c.form # "bare" /\ m # None
    BY <1>5, <1>6, <1>7, <2>3
  <2> QED BY <2>1, <2>2, <2>3
<1>10. cs[i].word = cs[n].word /\ cs[n].word # C!Empty
  BY <1>2, <1>3, <1>5, <1>9, ClauseShape
<1>11. i = n
  BY <1>1, <1>10, TableOf DEF Distinct
<1> QED BY <1>9, <1>11

\* What is written can be read back, clause by clause.
LEMMA ReadBack ==
  ASSUME NEW kind \in C!Kinds, NEW fields, Typed(kind, fields),
         NEW args, args = C!WrittenAll(kind, fields)
  PROVE  Reads(kind, fields, args)
<1>0. PICK cs : cs = C!Clauses(kind)
  OBVIOUS
<1>1. PICK L : L = Len(cs)
  OBVIOUS
<1>2. PICK ss : ss = Pieces(kind, fields)
  OBVIOUS
<1>3. /\ L \in Nat \ {0} /\ DOMAIN cs = 1 .. L
      /\ ss \in [1 .. L -> Seq(Symbols(kind))] /\ args = FlattenSeq(ss)
  BY <1>0, <1>1, <1>2, PieceType
<1>4. args \in Seq(Symbols(kind))
  BY <1>3, FlattenMarks
<1>5. PICK off : Marks(off, args, ss, L)
  BY <1>3, FlattenMarks
<1>6. SUFFICES ASSUME NEW c \in C!ClausesOf(kind), c.form # "bare",
                      NEW m, m = C!Meant(c, fields[c.field])
               PROVE  /\ m # None => \E p \in 1 .. Len(args) : args[p] = c.word
                      /\ \A p \in 1 .. Len(args) : args[p] = c.word =>
                           /\ m # None
                           /\ \/ C!Miswritten(c, fields[c.field])
                              \/ Follower(args, p) = m
  BY <1>4 DEF Reads
<1>7. PICK n \in 1 .. L : c = cs[n]
  BY <1>0, <1>3 DEF C!ClausesOf, C!ToSet
<1>14. PICK v : v = fields[c.field]
  OBVIOUS
<1>8. /\ m # None => 1 \in 1 .. Len(ss[n]) /\ ss[n][1] = c.word
      /\ m = None => ss[n] = <<>>
      /\ m # None /\ ~ C!Miswritten(c, v) =>
           \/ Len(ss[n]) = 1 /\ m = TRUE /\ c.form # "args"
           \/ Len(ss[n]) = 2 /\ ss[n][2] = m /\ m \in Arguments
  <2>1. v \in {None} \cup C!Values(c)
    BY <1>14 DEF Typed
  <2>2. PICK w : w = ss[n]
    OBVIOUS
  <2>3. w = C!Written(c, v)
    BY <1>0, <1>1, <1>2, <1>7, <1>14, <2>2 DEF Pieces
  <2>4. m = C!Meant(c, v)
    BY <1>6, <1>14
  <2>5. Puts(c, v, w, m)
    BY <2>1, <2>3, <2>4, WrittenMeans
  <2> QED BY <1>6, <2>2, <2>5 DEF Puts
<1>9. ASSUME m # None
      PROVE  \E p \in 1 .. Len(args) : args[p] = c.word
  <2>1. 1 \in 1 .. Len(ss[n]) /\ ss[n][1] = c.word
    BY <1>8, <1>9
  <2>2. PICK p : p = off[n - 1] + 1
    OBVIOUS
  <2>3. args[p] = c.word
    BY <1>5, <2>1, <2>2 DEF Marks
  <2>4. p \in 1 .. Len(args)
    BY <1>3, <1>5, <2>1, <2>2, MarkInside
  <2> QED BY <2>3, <2>4
<1>10. PICK a \in Nat : a = off[n - 1]
  <2>1. off \in [0 .. L -> Nat]
    BY <1>5 DEF Marks
  <2>2. n - 1 \in 0 .. L
    BY <1>3
  <2> QED BY <2>1, <2>2
<1>15. DOMAIN args = 1 .. Len(args)
  BY <1>4
<1>11. ASSUME NEW p \in 1 .. Len(args), args[p] = c.word
       PROVE  m # None /\ p = a + 1
  <2>1. PICK i \in 1 .. L : \E k \in 1 .. Len(ss[i]) : p = off[i - 1] + k
    BY <1>5 DEF Marks
  <2>2. PICK k \in 1 .. Len(ss[i]) : p = off[i - 1] + k
    BY <2>1
  <2>3. ss[i][k] = c.word
    BY <1>5, <1>11, <2>1, <2>2 DEF Marks
  <2>4. i = n /\ k = 1
    BY <1>0, <1>1, <1>2, <1>6, <1>7, <2>2, <2>3, OnlyItsWord
  <2>5. m # None
    <3>1. m = None => ss[n] = <<>>
      BY <1>8
    <3>2. ss[n] # <<>>
      BY <2>2, <2>4
    <3> QED BY <3>1, <3>2
  <2> QED BY <1>10, <2>2, <2>4, <2>5
<1>12. ASSUME NEW p, p = a + 1, Len(ss[n]) = 2, ss[n][2] = m, m \in Arguments
       PROVE  Follower(args, p) = m
  <2>1. 2 \in 1 .. Len(ss[n])
    BY <1>12
  <2>2. PICK q : q = a + 2
    OBVIOUS
  <2>3. args[q] = m
    BY <1>5, <1>10, <1>12, <2>1, <2>2 DEF Marks
  <2>4. q \in 1 .. Len(args)
    BY <1>3, <1>5, <1>10, <2>1, <2>2, MarkInside
  <2>5. q = p + 1
    BY <1>12, <2>2
  <2>6. args[q] \notin C!Keywords
    BY <1>12, <2>3, KeywordsApart DEF Operands
  <2> QED BY <1>15, <2>3, <2>4, <2>5, <2>6 DEF Follower
<1>13. ASSUME NEW p, p = a + 1, Len(ss[n]) = 1, c.form # "args"
       PROVE  ~ (p + 1 \in DOMAIN args /\ args[p + 1] \notin C!Keywords)
  <2> SUFFICES ASSUME p + 1 \in DOMAIN args
               PROVE  args[p + 1] \in C!Keywords
    OBVIOUS
  <2>1. off[n] = p
    <3>1. off[n] = off[n - 1] + Len(ss[n])
      BY <1>5 DEF Marks
    <3> QED BY <1>10, <1>13, <3>1
  <2>2. PICK all \in Nat : all = off[L] /\ all = Len(args)
    BY <1>5 DEF Marks
  <2>3. p < all
    BY <1>13, <1>15, <2>2
  <2>4. PICK j \in 1 .. L : n < j /\ off[j - 1] = p /\ 1 \in 1 .. Len(ss[j])
    BY <1>5, <2>1, <2>2, <2>3 DEF Marks
  <2>5. args[p + 1] = ss[j][1]
    BY <1>5, <2>4 DEF Marks
  <2>6. cs[j].form # "bare"
    <3>1. cs[j].form = "bare" => cs[n].form \in {"args", "bare"}
      BY <1>0, <1>3, <2>4, TableOf DEF WellFormed
    <3> QED BY <1>6, <1>7, <1>13, <3>1
  <2>7. PICK d \in C!ClausesOf(kind) : d = cs[j]
    BY <1>0, <1>3 DEF C!ClausesOf, C!ToSet
  <2>8. ss[j][1] = d.word
    <3>1. PICK u : u = fields[d.field]
      OBVIOUS
    <3>2. PICK w : w = ss[j]
      OBVIOUS
    <3>3. PICK x : x = C!Meant(d, u)
      OBVIOUS
    <3>4. w = C!Written(d, u) /\ u \in {None} \cup C!Values(d) /\ d.form # "bare"
      BY <1>0, <1>1, <1>2, <2>6, <2>7, <3>1, <3>2 DEF Pieces, Typed
    <3>5. Puts(d, u, w, x)
      BY <3>3, <3>4, WrittenMeans
    <3>6. x # None => w[1] = d.word
      BY <3>4, <3>5 DEF Puts
    <3>7. x = None => w = <<>>
      BY <3>4, <3>5 DEF Puts
    <3> QED BY <2>4, <3>2, <3>6, <3>7
  <2> QED BY <2>5, <2>6, <2>7, <2>8, KeywordsApart
<1>16. ASSUME NEW p \in 1 .. Len(args), args[p] = c.word, ~ C!Miswritten(c, v)
       PROVE  Follower(args, p) = m
  <2>1. m # None /\ p = a + 1
    BY <1>11, <1>16
  <2>2. CASE Len(ss[n]) = 2 /\ ss[n][2] = m /\ m \in Arguments
    BY <1>12, <2>1, <2>2
  <2>3. CASE Len(ss[n]) = 1 /\ m = TRUE /\ c.form # "args"
    <3>1. ~ (p + 1 \in DOMAIN args /\ args[p + 1] \notin C!Keywords)
      BY <1>13, <2>1, <2>3
    <3>2. Follower(args, p) = TRUE
      BY <3>1, Zenon DEF Follower
    <3> QED BY <2>3, <3>2
  <2> QED BY <1>8, <1>16, <2>1, <2>2, <2>3
<1> QED BY <1>9, <1>11, <1>14, <1>16

\* What is heard of a clause in a list of arguments.
At(args, word) == CHOOSE i \in DOMAIN args : args[i] = word

HeardIn(args, clause) ==
  LET schema == At(args, "SCHEMA")
      aliased == args[schema + 2] = "AS"
  IN  CASE clause.field = "name" -> args[schema + 1]
        [] clause.field = "field_type" ->
             args[IF aliased THEN schema + 4 ELSE schema + 2]
        [] clause.word # C!Empty /\ clause.word \notin ToSet(args) -> None
        [] clause.word # C!Empty /\ clause.word \in ToSet(args) ->
             Follower(args, At(args, clause.word))

LEMMA HeardInCommand ==
  \A clause : C!Heard(clause) = HeardIn(cmd.args, clause)
BY DEF C!Heard, C!Position, HeardIn, At, C!ToSet, ToSet, Follower

\* A clause whose keyword stands in the arguments if it means something, and
\* in front of what it means, is heard as it is meant.
LEMMA HeardAsMeant ==
  ASSUME NEW kind \in C!Kinds, NEW c \in C!ClausesOf(kind), c.form # "bare",
         NEW v, NEW args, ~ C!Miswritten(c, v),
         C!Meant(c, v) # None => \E p \in DOMAIN args : args[p] = c.word,
         \A p \in DOMAIN args : args[p] = c.word =>
           /\ C!Meant(c, v) # None
           /\ C!Miswritten(c, v) \/ Follower(args, p) = C!Meant(c, v)
  PROVE  HeardIn(args, c) = C!Meant(c, v)
<1>1. /\ c.word # C!Empty
      /\ c.field # "name" /\ c.field # "field_type"
  BY ClauseShape
<1>2. CASE c.word \notin ToSet(args)
  <2>1. HeardIn(args, c) = None
    BY <1>1, <1>2 DEF HeardIn
  <2>2. C!Meant(c, v) = None
    BY <1>2 DEF ToSet
  <2> QED BY <2>1, <2>2
<1>3. CASE c.word \in ToSet(args)
  <2>1. PICK p \in DOMAIN args : p = At(args, c.word) /\ args[p] = c.word
    BY <1>3 DEF ToSet, At
  <2>2. HeardIn(args, c) = Follower(args, At(args, c.word))
    BY <1>1, <1>3 DEF HeardIn
  <2>3. Follower(args, p) = C!Meant(c, v)
    BY <2>1
  <2> QED BY <2>1, <2>2, <2>3
<1> QED BY <1>2, <1>3

\* A command of one builder is heard as it is meant.
Heeds(args, kind, fields) ==
  \A c \in C!ClausesOf(kind) :
    \/ C!Miswritten(c, fields[c.field])
    \/ HeardIn(args, c) = C!Meant(c, fields[c.field])

LEMMA HeardAlone ==
  ASSUME NEW kind \in {"option", "search"}, NEW fields, Typed(kind, fields),
         NEW args, args = C!WrittenAll(kind, fields)
  PROVE  Heeds(args, kind, fields)
<1> SUFFICES ASSUME NEW c \in C!ClausesOf(kind),
                    ~ C!Miswritten(c, fields[c.field])
             PROVE  HeardIn(args, c) = C!Meant(c, fields[c.field])
  BY DEF Heeds
<1>1. kind \in C!Kinds
  BY DEF C!Kinds
<1>2. Reads(kind, fields, args)
  BY <1>1, ReadBack
<1>3. c.form # "bare"
  BY EmptyApart DEF C!ClausesOf, C!Clauses, C!ToSet, C!OptionClauses,
     C!SearchClauses, C!Clause
<1>4. DOMAIN args = 1 .. Len(args)
  BY <1>2 DEF Reads
<1>5. PICK v : v = fields[c.field]
  OBVIOUS
<1>6. /\ C!Meant(c, v) # None => \E p \in DOMAIN args : args[p] = c.word
      /\ \A p \in DOMAIN args : args[p] = c.word =>
           /\ C!Meant(c, v) # None
           /\ C!Miswritten(c, v) \/ Follower(args, p) = C!Meant(c, v)
  BY <1>2, <1>3, <1>4, <1>5 DEF Reads
<1>7. HeardIn(args, c) = C!Meant(c, v)
  BY <1>1, <1>3, <1>5, <1>6, HeardAsMeant
<1> QED BY <1>5, <1>7

\* What a schema's field says of itself: its name, its alias, its type.
LEMMA SchemaReads ==
  ASSUME NEW fields, Typed("schema", fields),
         NEW args, args = C!WrittenAll("schema", fields)
  PROVE  /\ Len(args) > 1
         /\ args[1] = C!Meant(C!SchemaClauses[1], fields["name"])
         /\ args[2] = "AS" => /\ Len(args) > 3
                              /\ args[4] =
                                     C!Meant(C!SchemaClauses[3],
                                         fields["field_type"])
         /\ args[2] # "AS" =>
              args[2] = C!Meant(C!SchemaClauses[3], fields["field_type"])
<1> DEFINE kind == "schema"
           L == 9
<1>0. /\ kind \in C!Kinds /\ C!Clauses(kind) = C!SchemaClauses
  BY DEF C!Kinds, C!Clauses
<1>1. Len(C!SchemaClauses) = 9
  BY DEF C!SchemaClauses
<1>2. PICK ss : ss = Pieces(kind, fields)
  OBVIOUS
<1>3. ss \in [1 .. L -> Seq(Symbols(kind))] /\ args = FlattenSeq(ss)
  BY <1>0, <1>1, <1>2, PieceType
<1>5. PICK off : Marks(off, args, ss, L)
  <2>1. L \in Nat \ {0}
    OBVIOUS
  <2> QED BY <1>3, <2>1, FlattenMarks
<1>6. PICK name : name = C!SchemaClauses[1]
  OBVIOUS
<1>7. PICK as : as = C!SchemaClauses[2]
  OBVIOUS
<1>8. PICK type : type = C!SchemaClauses[3]
  OBVIOUS
<1>9. /\ name.field = "name" /\ name.form = "bare"
      /\ type.field = "field_type" /\ type.form = "bare"
      /\ as.field = "field_as" /\ as.form = "args" /\ as.word = "AS"
  BY <1>6, <1>7, <1>8, EmptyApart DEF C!SchemaClauses, C!Clause
<1>10. name \in C!ClausesOf(kind) /\ as \in C!ClausesOf(kind) /\
           type \in C!ClausesOf(kind)
  <2>1. 1 \in DOMAIN C!SchemaClauses /\ 2 \in DOMAIN C!SchemaClauses /\
            3 \in DOMAIN C!SchemaClauses
    BY DEF C!SchemaClauses
  <2> QED BY <1>0, <1>6, <1>7, <1>8, <2>1 DEF C!ClausesOf, C!ToSet
<1>11. /\ fields["name"] \in {None} \cup C!Values(name)
       /\ fields["field_as"] \in {None} \cup C!Values(as)
       /\ fields["field_type"] \in {None} \cup C!Values(type)
  BY <1>9, <1>10 DEF Typed
<1>12. PICK n : n = C!Meant(name, fields["name"])
  OBVIOUS
<1>13. PICK a : a = C!Meant(as, fields["field_as"])
  OBVIOUS
<1>14. PICK t : t = C!Meant(type, fields["field_type"])
  OBVIOUS
<1>15. /\ ss[1] = C!Written(name, fields["name"])
       /\ ss[2] = C!Written(as, fields["field_as"])
       /\ ss[3] = C!Written(type, fields["field_type"])
  BY <1>0, <1>1, <1>2, <1>6, <1>7, <1>8, <1>9 DEF Pieces
<1>16. ss[1] = <<n>>
  <2>1. Puts(name, fields["name"], ss[1], n)
    BY <1>0, <1>10, <1>11, <1>12, <1>15, WrittenMeans
  <2> QED BY <1>9, <2>1 DEF Puts
<1>17. ss[3] = <<t>> /\ t \in Operands
  <2>1. Puts(type, fields["field_type"], ss[3], t)
    BY <1>0, <1>10, <1>11, <1>14, <1>15, WrittenMeans
  <2> QED BY <1>9, <2>1 DEF Puts
<1>18. /\ a = None => Len(ss[2]) = 0
       /\ a # None => Len(ss[2]) = 2 /\ ss[2][1] = "AS"
  <2>0. PICK v : v = fields["field_as"]
    OBVIOUS
  <2>1. PICK w : w = ss[2]
    OBVIOUS
  <2>2. v \in {None} \cup C!Values(as) /\ w = C!Written(as, v) /\ a = C!Meant(as, v)
    BY <1>11, <1>13, <1>15, <2>0, <2>1
  <2>3. ~ C!Miswritten(as, v) /\ as.form # "bare"
    BY <1>9 DEF C!Miswritten
  <2>8. Puts(as, v, w, a)
    BY <1>0, <1>10, <2>2, WrittenMeans
  <2>4. a = None => w = <<>>
    BY <2>3, <2>8 DEF Puts
  <2>5. a # None => w[1] = as.word
    BY <2>3, <2>8 DEF Puts
  <2>6. a # None => \/ Len(w) = 1 /\ a = TRUE /\ as.form # "args"
                    \/ Len(w) = 2 /\ w[2] = a /\ a \in Arguments
    BY <2>3, <2>8 DEF Puts
  <2>7. a # None => Len(w) = 2
    BY <1>9, <2>6
  <2> QED BY <1>9, <2>1, <2>4, <2>5, <2>7
<1>19. "AS" \notin Operands
  <2>1. as.word \notin Arguments
    BY <1>0, <1>10, ClauseShape
  <2>2. "AS" # C!Empty
    BY EmptyApart
  <2> QED BY <1>9, <2>1, <2>2 DEF Operands
<1>20. PICK o1 \in Nat : o1 = off[1]
  BY <1>5 DEF Marks
<1>21. PICK o2 \in Nat : o2 = off[2]
  BY <1>5 DEF Marks
<1>22. PICK o3 \in Nat : o3 = off[3]
  BY <1>5 DEF Marks
<1>23. PICK all \in Nat : all = Len(args)
  BY <1>5 DEF Marks
<1>24. /\ off[0] = 0 /\ o1 = 0 + Len(ss[1]) /\ o2 = o1 + Len(ss[2])
       /\ o3 = o2 + Len(ss[3]) /\ o3 <= all
       /\ \A k \in 1 .. Len(ss[1]) : args[0 + k] = ss[1][k]
       /\ \A k \in 1 .. Len(ss[2]) : args[o1 + k] = ss[2][k]
       /\ \A k \in 1 .. Len(ss[3]) : args[o2 + k] = ss[3][k]
  <2>1. /\ 1 \in 1 .. L /\ 2 \in 1 .. L /\ 3 \in 1 .. L
        /\ 1 - 1 = 0 /\ 2 - 1 = 1 /\ 3 - 1 = 2
    OBVIOUS
  <2>2. off[0] = 0 /\ all = off[9]
    BY <1>5, <1>23 DEF Marks
  <2>6. ASSUME NEW i \in 1 .. L
        PROVE  /\ off[i] = off[i - 1] + Len(ss[i]) /\ off[i] <= off[L]
               /\ \A k \in 1 .. Len(ss[i]) : args[off[i - 1] + k] = ss[i][k]
    BY <1>5 DEF Marks
  <2>3. /\ off[1] = off[0] + Len(ss[1])
        /\ \A k \in 1 .. Len(ss[1]) : args[off[0] + k] = ss[1][k]
    BY <2>1, <2>6
  <2>4. /\ off[2] = off[1] + Len(ss[2])
        /\ \A k \in 1 .. Len(ss[2]) : args[off[1] + k] = ss[2][k]
    BY <2>1, <2>6
  <2>5. /\ off[3] = off[2] + Len(ss[3]) /\ off[3] <= off[9]
        /\ \A k \in 1 .. Len(ss[3]) : args[off[2] + k] = ss[3][k]
    BY <2>1, <2>6
  <2> QED BY <1>20, <1>21, <1>22, <2>2, <2>3, <2>4, <2>5
<1>25. o1 = 1 /\ args[1] = n
  <2>1. Len(ss[1]) = 1 /\ ss[1][1] = n /\ 1 \in 1 .. Len(ss[1])
    BY <1>16
  <2> QED BY <1>24, <2>1
<1>26. Len(ss[3]) = 1 /\ ss[3][1] = t /\ 1 \in 1 .. Len(ss[3])
  BY <1>17
<1>27. CASE a = None
  <2>1. Len(ss[2]) = 0
    BY <1>18, <1>27
  <2>2. o2 = 1 /\ o3 = 2
    BY <1>24, <1>25, <1>26, <2>1
  <2>3. args[2] = t /\ all > 1
    <3>1. args[o2 + 1] = t
      BY <1>24, <1>26
    <3>2. o2 + 1 = 2
      BY <2>2
    <3>3. all > 1
      <4>1. o3 <= all
        BY <1>24
      <4> QED BY <2>2, <4>1
    <3> QED BY <3>1, <3>2, <3>3
  <2>4. args[2] # "AS"
    BY <1>17, <1>19, <2>3
  <2> QED BY <1>6, <1>8, <1>12, <1>14, <1>23, <1>25, <2>3, <2>4
<1>28. CASE a # None
  <2>2. Len(ss[2]) = 2 /\ ss[2][1] = "AS" /\ 1 \in 1 .. Len(ss[2])
    BY <1>18, <1>28
  <2>3. o2 = 3 /\ o3 = 4
    BY <1>24, <1>25, <1>26, <2>2
  <2>4. args[2] = "AS" /\ args[4] = t /\ all > 3 /\ all > 1
    BY <1>24, <1>25, <1>26, <2>2, <2>3
  <2> QED BY <1>6, <1>8, <1>12, <1>14, <1>23, <1>25, <2>4
<1> QED BY <1>27, <1>28

-----------------------------------------------------------------------------
(* FT.CREATE.                                                              *)

\* Where the parts of the command lie.
LEMMA Composed ==
  ASSUME NEW S, NEW P \in Seq(S), NEW F \in Seq(S), "SCHEMA" \in S,
         NEW args, args = P \o <<"SCHEMA">> \o F,
         NEW a \in Nat, a = Len(P), NEW b \in Nat, b = Len(F)
  PROVE  /\ args \in Seq(S) /\ DOMAIN args = 1 .. a + 1 + b
         /\ \A p \in 1 .. a : args[p] = P[p]
         /\ args[a + 1] = "SCHEMA"
         /\ \A k \in 1 .. b : args[a + 1 + k] = F[k]
<1>1. PICK s : s = <<"SCHEMA">>
  OBVIOUS
<1>2. s \in Seq(S) /\ Len(s) = 1 /\ s[1] = "SCHEMA"
  BY <1>1
<1>3. PICK h : h = P \o s
  OBVIOUS
<1>4. /\ h \in Seq(S) /\ Len(h) = a + 1
      /\ \A p \in 1 .. a : h[p] = P[p]
      /\ \A k \in 1 .. 1 : h[a + k] = s[k]
  <2>1. PICK one \in Nat : one = 1
    OBVIOUS
  <2>2. /\ P \o s \in Seq(S) /\ Len(P \o s) = a + one
        /\ \A p \in 1 .. a : (P \o s)[p] = P[p]
        /\ \A k \in 1 .. one : (P \o s)[a + k] = s[k]
    <3>1. s \in Seq(S) /\ one = Len(s)
      BY <1>2, <2>1
    <3> QED BY <3>1, ConcatPositions
  <2> QED BY <1>3, <2>1, <2>2
<1>5. PICK c \in Nat : c = a + 1
  OBVIOUS
<1>6. /\ args \in Seq(S) /\ Len(args) = c + b
      /\ \A p \in 1 .. c : args[p] = h[p]
      /\ \A k \in 1 .. b : args[c + k] = F[k]
  BY <1>1, <1>3, <1>4, <1>5, ConcatPositions
<1>7. \A p \in 1 .. a : p \in 1 .. c
  BY <1>5
<1>8. c \in 1 .. c /\ 1 \in 1 .. 1
  BY <1>5
<1> QED BY <1>2, <1>4, <1>5, <1>6, <1>7, <1>8

\* Before SCHEMA there is no keyword of the schema.
Clear(P) ==
  \A p \in 1 .. Len(P) :
    /\ P[p] # "SCHEMA"
    /\ \A c \in C!ClausesOf("schema") : c.form # "bare" => P[p] # c.word

\* The schema of a command is heard as it is meant, whatever is before it.
LEMMA SchemaHeard ==
  ASSUME NEW S, NEW P \in Seq(S), Clear(P), NEW fields, Typed("schema", fields),
         NEW F, F = C!WrittenAll("schema", fields),
         NEW args, args = P \o <<"SCHEMA">> \o F
  PROVE  Heeds(args, "schema", fields)
<1>0. "schema" \in C!Kinds /\ C!Clauses("schema") = C!SchemaClauses
  BY DEF C!Kinds, C!Clauses
<1>1. Reads("schema", fields, F)
  BY <1>0, ReadBack
<1>2. F \in Seq(Symbols("schema"))
  BY <1>1 DEF Reads
<1>3. PICK T : T = S \cup Symbols("schema") \cup {"SCHEMA"}
  OBVIOUS
<1>4. P \in Seq(T) /\ F \in Seq(T) /\ "SCHEMA" \in T
  BY <1>2, <1>3, SeqMonotonic
<1>5. PICK a \in Nat : a = Len(P)
  OBVIOUS
<1>6. PICK b \in Nat : b = Len(F)
  BY <1>2
<1>7. /\ args \in Seq(T) /\ DOMAIN args = 1 .. a + 1 + b
      /\ \A p \in 1 .. a : args[p] = P[p]
      /\ args[a + 1] = "SCHEMA"
      /\ \A k \in 1 .. b : args[a + 1 + k] = F[k]
  BY <1>4, <1>5, <1>6, Composed
<1>8. \A k \in 1 .. b : F[k] # "SCHEMA"
  <2>1. "SCHEMA" \notin Symbols("schema")
    <3>1. "SCHEMA" \notin Operands
      BY EmptyApart, RedisSearchAssumption DEF Operands
    <3>2. \A c \in C!ClausesOf("schema") : c.word # "SCHEMA"
      BY <1>0, ClauseShape
    <3> QED BY <3>1, <3>2 DEF Symbols
  <2> QED BY <1>2, <1>6, <2>1, ElementOfSeq
<1>9. At(args, "SCHEMA") = a + 1
  <2>1. ASSUME NEW p \in DOMAIN args, args[p] = "SCHEMA"
        PROVE  p = a + 1
    <3>1. p \in 1 .. a + 1 + b
      BY <1>7
    <3>2. p \notin 1 .. a
      BY <1>5, <1>7, <2>1 DEF Clear
    <3>3. ~ (p > a + 1)
      <4> SUFFICES ASSUME p > a + 1 PROVE FALSE
        OBVIOUS
      <4>1. PICK k \in 1 .. b : p = a + 1 + k
        <5>1. p - (a + 1) \in 1 .. b /\ p = a + 1 + (p - (a + 1))
          BY <3>1
        <5> QED BY <5>1
      <4> QED BY <1>7, <1>8, <2>1, <4>1
    <3> QED BY <3>1, <3>2, <3>3
  <2>2. a + 1 \in DOMAIN args
    BY <1>7
  <2> QED BY <1>7, <2>1, <2>2 DEF At
<1>10. /\ b > 1
       /\ args[a + 1 + 1] = C!Meant(C!SchemaClauses[1], fields["name"])
       /\ args[a + 1 + 2] = "AS" =>
            args[a + 1 + 4] = C!Meant(C!SchemaClauses[3], fields["field_type"])
       /\ args[a + 1 + 2] # "AS" =>
            args[a + 1 + 2] = C!Meant(C!SchemaClauses[3], fields["field_type"])
  <2>1. /\ b > 1
        /\ F[1] = C!Meant(C!SchemaClauses[1], fields["name"])
        /\ F[2] = "AS" => /\ b > 3
                          /\ F[4] = C!Meant(C!SchemaClauses[3],
                                 fields["field_type"])
        /\ F[2] # "AS" =>
               F[2] = C!Meant(C!SchemaClauses[3], fields["field_type"])
    BY <1>6, SchemaReads
  <2>2. 1 \in 1 .. b /\ 2 \in 1 .. b /\ (b > 3 => 4 \in 1 .. b)
    BY <2>1
  <2>3. args[a + 1 + 1] = F[1] /\ args[a + 1 + 2] = F[2]
    BY <1>7, <2>2
  <2>4. b > 3 => args[a + 1 + 4] = F[4]
    BY <1>7, <2>2
  <2> QED BY <2>1, <2>3, <2>4
<1>13. ASSUME NEW k \in 1 .. b
       PROVE  Follower(args, a + 1 + k) = Follower(F, k)
  <2>1. /\ DOMAIN F = 1 .. b
        /\ k + 1 \in 1 .. b <=> a + 1 + k + 1 \in 1 .. a + 1 + b
        /\ a + 1 + k + 1 = a + 1 + (k + 1)
    BY <1>2, <1>6
  <2>2. k + 1 \in DOMAIN F <=> a + 1 + k + 1 \in DOMAIN args
    BY <1>7, <2>1
  <2>3. k + 1 \in DOMAIN F => args[a + 1 + k + 1] = F[k + 1]
    BY <1>7, <2>1
  <2> QED BY <2>2, <2>3 DEF Follower
<1> SUFFICES ASSUME NEW c \in C!ClausesOf("schema"),
                    ~ C!Miswritten(c, fields[c.field])
             PROVE  HeardIn(args, c) = C!Meant(c, fields[c.field])
  BY DEF Heeds
<1>11. CASE c.form = "bare"
  <2>1. /\ C!SchemaClauses[1].field = "name" /\
               C!SchemaClauses[3].field = "field_type"
        /\ 1 \in DOMAIN C!SchemaClauses /\ 3 \in DOMAIN C!SchemaClauses
    BY DEF C!SchemaClauses, C!Clause
  <2>2. PICK i \in DOMAIN C!SchemaClauses : c = C!SchemaClauses[i]
    BY <1>0 DEF C!ClausesOf, C!ToSet
  <2>3. c.field \in {"name", "field_type"}
    BY <1>0, <1>11, ClauseShape
  <2>4. c.field = "name" => c = C!SchemaClauses[1]
    BY <2>1, <2>2, SchemaTable DEF Distinct
  <2>5. c.field = "field_type" => c = C!SchemaClauses[3]
    BY <2>1, <2>2, SchemaTable DEF Distinct
  <2>8. c.word = C!Empty
    BY <1>0, <1>11, ClauseShape
  <2>6. CASE c.field = "name"
    <3>1. HeardIn(args, c) = args[At(args, "SCHEMA") + 1]
      BY <2>6, <2>8 DEF HeardIn
    <3> QED BY <1>9, <1>10, <2>4, <2>6, <3>1
  <2>7. CASE c.field = "field_type"
    <3>1. HeardIn(args, c) = args[IF args[At(args, "SCHEMA") + 2] = "AS"
                                  THEN At(args, "SCHEMA") + 4
                                  ELSE At(args, "SCHEMA") + 2]
      BY <2>7, <2>8 DEF HeardIn
    <3> QED BY <1>9, <1>10, <2>5, <2>7, <3>1
  <2> QED BY <2>3, <2>6, <2>7
<1>12. CASE c.form # "bare"
  <2>1. PICK v : v = fields[c.field]
    OBVIOUS
  <2>3. PICK m : m = C!Meant(c, v)
    OBVIOUS
  <2>4. /\ m # None => \E k \in 1 .. b : F[k] = c.word
        /\ \A k \in 1 .. b : F[k] = c.word =>
             /\ m # None
             /\ C!Miswritten(c, v) \/ Follower(F, k) = m
    BY <1>1, <1>6, <1>12, <2>1, <2>3 DEF Reads
  <2>5. m # None => \E p \in DOMAIN args : args[p] = c.word
    <3>1. ASSUME NEW k \in 1 .. b
          PROVE  a + 1 + k \in 1 .. a + 1 + b
      OBVIOUS
    <3> SUFFICES ASSUME m # None PROVE \E p \in DOMAIN args : args[p] = c.word
      OBVIOUS
    <3>2. PICK k \in 1 .. b : F[k] = c.word
      BY <2>4
    <3>3. args[a + 1 + k] = c.word /\ a + 1 + k \in DOMAIN args
      BY <1>7, <3>1, <3>2
    <3> QED BY <3>3
  <2>6. ASSUME NEW p \in DOMAIN args, args[p] = c.word
        PROVE  m # None /\ (C!Miswritten(c, v) \/ Follower(args, p) = m)
    <3>1. p \in 1 .. a + 1 + b
      BY <1>7
    <3>2. p \notin 1 .. a
      BY <1>5, <1>7, <1>12, <2>6 DEF Clear
    <3>3. p # a + 1
      BY <1>0, <1>7, <2>6, ClauseShape
    <3>4. PICK k \in 1 .. b : p = a + 1 + k
      <4>1. p - (a + 1) \in 1 .. b /\ p = a + 1 + (p - (a + 1))
        BY <3>1, <3>2, <3>3
      <4> QED BY <4>1
    <3>5. F[k] = c.word
      BY <1>7, <2>6, <3>4
    <3>6. Follower(args, p) = Follower(F, k)
      BY <1>13, <3>4
    <3> QED BY <2>4, <3>5, <3>6
  <2>7. HeardIn(args, c) = C!Meant(c, v)
    BY <1>0, <1>12, <2>1, <2>3, <2>5, <2>6, HeardAsMeant
  <2> QED BY <2>1, <2>7
<1> QED BY <1>11, <1>12

\* The parameters of an index are not taken for its schema.
LEMMA ClearOfSchema ==
  /\ Clear(<<>>)
  /\ \A fields : Typed("create", fields) =>
         Clear(C!WrittenAll("create", fields))
<1>1. Clear(<<>>)
  BY DEF Clear
<1>2. ASSUME NEW fields, Typed("create", fields)
      PROVE  Clear(C!WrittenAll("create", fields))
  <2>1. "create" \in C!Kinds /\ C!Clauses("create") = C!CreateClauses
    BY DEF C!Kinds, C!Clauses
  <2>2. "schema" \in C!Kinds /\ C!Clauses("schema") = C!SchemaClauses
    BY DEF C!Kinds, C!Clauses
  <2>3. PICK P : P = C!WrittenAll("create", fields)
    OBVIOUS
  <2>4. P \in Seq(Symbols("create"))
    BY <1>2, <2>1, <2>3, ReadBack DEF Reads
  <2>5. "SCHEMA" \notin Symbols("create")
    <3>1. "SCHEMA" \notin Operands
      BY EmptyApart, RedisSearchAssumption DEF Operands
    <3>2. \A c \in C!ClausesOf("create") : c.word # "SCHEMA"
      BY <2>1, ClauseShape
    <3> QED BY <3>1, <3>2 DEF Symbols
  <2>6. ASSUME NEW c \in C!ClausesOf("schema"), c.form # "bare"
        PROVE  c.word \notin Symbols("create")
    <3>1. c.word \notin Operands
      BY <2>2, <2>6, ClauseShape DEF Operands
    <3>2. \A d \in C!ClausesOf("create") : d.word # c.word
      BY <2>1, <2>2, CreateSchemaApart DEF C!ClausesOf, C!ToSet
    <3> QED BY <3>1, <3>2 DEF Symbols
  <2>7. \A p \in 1 .. Len(P) : P[p] \in Symbols("create")
    BY <2>4, ElementOfSeq
  <2> QED BY <2>3, <2>5, <2>6, <2>7 DEF Clear
<1> QED BY <1>1, <1>2

\* The parameters of an index are heard as they are meant, also in front of a
\* schema.
LEMMA CreateHeard ==
  ASSUME NEW mine, Typed("create", mine), NEW fields, Typed("schema", fields),
         NEW P, P = C!WrittenAll("create", mine),
         NEW F, F = C!WrittenAll("schema", fields),
         NEW args, args = P \o <<"SCHEMA">> \o F
  PROVE  Heeds(args, "create", mine)
<1>0. /\ "create" \in C!Kinds /\ C!Clauses("create") = C!CreateClauses
      /\ "schema" \in C!Kinds /\ C!Clauses("schema") = C!SchemaClauses
  BY DEF C!Kinds, C!Clauses
<1>1. Reads("create", mine, P) /\ Reads("schema", fields, F)
  BY <1>0, ReadBack
<1>2. P \in Seq(Symbols("create")) /\ F \in Seq(Symbols("schema"))
  BY <1>1 DEF Reads
<1>3. PICK T : T = Symbols("create") \cup Symbols("schema") \cup {"SCHEMA"}
  OBVIOUS
<1>4. P \in Seq(T) /\ F \in Seq(T) /\ "SCHEMA" \in T
  BY <1>2, <1>3, SeqMonotonic
<1>5. PICK a \in Nat : a = Len(P)
  BY <1>2
<1>6. PICK b \in Nat : b = Len(F)
  BY <1>2
<1>7. /\ args \in Seq(T) /\ DOMAIN args = 1 .. a + 1 + b
      /\ \A p \in 1 .. a : args[p] = P[p]
      /\ args[a + 1] = "SCHEMA"
      /\ \A k \in 1 .. b : args[a + 1 + k] = F[k]
  BY <1>4, <1>5, <1>6, Composed
<1>16. ASSUME NEW p \in 1 .. a
       PROVE  Follower(args, p) = Follower(P, p)
  <2>1. DOMAIN P = 1 .. a /\ p + 1 \in DOMAIN args
    BY <1>2, <1>5, <1>7
  <2>2. CASE p + 1 \in 1 .. a
    <3>1. args[p + 1] = P[p + 1]
      BY <1>7, <2>2
    <3> QED BY <2>1, <2>2, <3>1 DEF Follower
  <2>3. CASE p + 1 \notin 1 .. a
    <3>1. p + 1 = a + 1
      BY <2>3
    <3>2. args[p + 1] \in C!Keywords
      BY <1>7, <3>1, KeywordsApart
    <3>3. Follower(args, p) = TRUE
      BY <3>2, Zenon DEF Follower
    <3>4. Follower(P, p) = TRUE
      BY <2>1, <2>3, Zenon DEF Follower
    <3> QED BY <3>3, <3>4
  <2> QED BY <2>2, <2>3
<1> SUFFICES ASSUME NEW c \in C!ClausesOf("create"),
                    ~ C!Miswritten(c, mine[c.field])
             PROVE  HeardIn(args, c) = C!Meant(c, mine[c.field])
  BY DEF Heeds
<1>8. c.form # "bare"
  <2>1. \A i \in DOMAIN C!CreateClauses : C!CreateClauses[i].form # "bare"
    BY EmptyApart DEF C!CreateClauses, C!Clause
  <2> QED BY <1>0, <2>1 DEF C!ClausesOf, C!ToSet
<1>9. \A k \in 1 .. b : F[k] # c.word
  <2>1. c.word \notin Operands
    BY <1>0, <1>8, ClauseShape DEF Operands
  <2>2. \A d \in C!ClausesOf("schema") : d.word # c.word
    BY <1>0, CreateSchemaApart DEF C!ClausesOf, C!ToSet
  <2>3. \A k \in 1 .. b : F[k] \in Symbols("schema")
    BY <1>2, <1>6, ElementOfSeq
  <2> QED BY <2>1, <2>2, <2>3 DEF Symbols
<1>10. PICK v : v = mine[c.field]
  OBVIOUS
<1>12. PICK m : m = C!Meant(c, v)
  OBVIOUS
<1>13. /\ m # None => \E p \in 1 .. a : P[p] = c.word
       /\ \A p \in 1 .. a : P[p] = c.word =>
            /\ m # None
            /\ C!Miswritten(c, v) \/ Follower(P, p) = m
  BY <1>1, <1>5, <1>8, <1>10, <1>12 DEF Reads
<1>14. m # None => \E p \in DOMAIN args : args[p] = c.word
  <2>1. \A p \in 1 .. a : p \in 1 .. a + 1 + b
    OBVIOUS
  <2> SUFFICES ASSUME m # None PROVE \E p \in DOMAIN args : args[p] = c.word
    OBVIOUS
  <2>2. PICK p \in 1 .. a : P[p] = c.word
    BY <1>13
  <2> QED BY <1>7, <2>1, <2>2
<1>15. ASSUME NEW p \in DOMAIN args, args[p] = c.word
       PROVE  m # None /\ (C!Miswritten(c, v) \/ Follower(args, p) = m)
  <2>1. p \in 1 .. a + 1 + b
    BY <1>7
  <2>2. p # a + 1
    BY <1>0, <1>7, <1>15, ClauseShape
  <2>3. ~ (p > a + 1)
    <3> SUFFICES ASSUME p > a + 1 PROVE FALSE
      OBVIOUS
    <3>1. p - (a + 1) \in 1 .. b /\ p = a + 1 + (p - (a + 1))
      BY <2>1
    <3>2. PICK k \in 1 .. b : p = a + 1 + k
      BY <3>1
    <3> QED BY <1>7, <1>9, <1>15, <3>2
  <2>4. p \in 1 .. a
    BY <2>1, <2>2, <2>3
  <2> QED BY <1>7, <1>13, <1>15, <1>16, <2>4
<1>17. HeardIn(args, c) = C!Meant(c, v)
  BY <1>0, <1>8, <1>10, <1>12, <1>14, <1>15, HeardAsMeant
<1> QED BY <1>10, <1>17

-----------------------------------------------------------------------------
(* Builders.                                                               *)

\* A value of a builder.
IsBuilder(b) ==
  /\ b = [kind |-> b.kind, fields |-> b.fields]
  /\ b.kind \in C!Kinds
  /\ b.fields = [f \in C!Fields(b.kind) |-> b.fields[f]]
  /\ Typed(b.kind, b.fields)

\* Every builder has the fields that the caller said, on its chain of setters.
PoolInv ==
  /\ pool = [h \in Handles |-> pool[h]] /\ said = [h \in Handles |-> said[h]]
  /\ calls \in 0 .. MaxCalls
  /\ \A h \in Handles : pool[h] # None =>
       IsBuilder(pool[h]) /\ said[h] = pool[h].fields

\* A command is heard as it is meant, and a search can be read back.
CmdInv ==
  cmd # None =>
    /\ \A part \in cmd.parts : \A kind \in C!Kinds :
         DOMAIN part = C!Fields(kind) => Heeds(cmd.args, kind, part)
    /\ cmd.name = "FT.SEARCH" =>
         \A part \in cmd.parts :
             Typed("search", part) /\ Reads("search", part, cmd.args)

LEMMA FieldOfClause ==
  ASSUME NEW kind, NEW c \in C!ClausesOf(kind)
  PROVE  c.field \in C!Fields(kind)
BY DEF C!Fields

\* build() makes a builder.
LEMMA Built ==
  ASSUME NEW kind \in C!Kinds
  PROVE  LET b == C!Build(kind)
         IN  IsBuilder(b) /\ b.fields = [f \in C!Fields(kind) |-> None]
<1>1. PICK fields : fields = [f \in C!Fields(kind) |-> None]
  OBVIOUS
<1>2. PICK b : b = [kind |-> kind, fields |-> fields]
  OBVIOUS
<1>3. b = C!Build(kind) /\ b.kind = kind /\ b.fields = fields
  BY <1>1, <1>2 DEF C!Build
<1>4. fields = [f \in C!Fields(kind) |-> fields[f]] /\ Typed(kind, fields)
  BY <1>1, FieldOfClause DEF Typed
<1>5. IsBuilder(b)
  BY <1>2, <1>3, <1>4 DEF IsBuilder
<1> QED BY <1>1, <1>3, <1>5

\* A setter changes its field and no other.
LEMMA SetBuilt ==
  ASSUME NEW b, IsBuilder(b), NEW c \in C!ClausesOf(b.kind),
         NEW v \in C!Values(c)
  PROVE  LET new == C!Set(b, c.field, v)
         IN  IsBuilder(new) /\ new.fields = [b.fields EXCEPT ![c.field] = v]
<1>1. PICK kind \in C!Kinds : kind = b.kind
  BY DEF IsBuilder
<1>2. PICK fields : fields = [b.fields EXCEPT ![c.field] = v]
  OBVIOUS
<1>3. PICK new : new = [kind |-> kind, fields |-> fields]
  OBVIOUS
<1>4. new = C!Set(b, c.field, v) /\ new.kind = kind /\ new.fields = fields
  <2>1. b = [kind |-> kind, fields |-> b.fields]
    BY <1>1 DEF IsBuilder
  <2>2. C!Set(b, c.field, v) =
            [b EXCEPT !.fields = [b.fields EXCEPT ![c.field] = v]]
    BY DEF C!Set
  <2>3. [b EXCEPT !.fields = fields] = new
    BY <1>3, <2>1
  <2> QED BY <1>2, <1>3, <2>2, <2>3
<1>5. DOMAIN b.fields = C!Fields(kind)
  BY <1>1 DEF IsBuilder, Typed
<1>6. fields = [f \in C!Fields(kind) |-> fields[f]]
  BY <1>2, <1>5
<1>7. ASSUME NEW d \in C!ClausesOf(kind)
      PROVE  fields[d.field] \in {None} \cup C!Values(d)
  <2>1. d.field \in C!Fields(kind)
    BY FieldOfClause
  <2>2. CASE d.field = c.field
    <3>1. d = c
      <4>1. Distinct(C!Clauses(kind))
        BY TableOf
      <4>2. PICK i \in DOMAIN C!Clauses(kind) : d = C!Clauses(kind)[i]
        BY DEF C!ClausesOf, C!ToSet
      <4>3. PICK j \in DOMAIN C!Clauses(kind) : c = C!Clauses(kind)[j]
        BY <1>1 DEF C!ClausesOf, C!ToSet
      <4> QED BY <2>2, <4>1, <4>2, <4>3 DEF Distinct
    <3> QED BY <1>2, <1>5, <2>1, <2>2, <3>1
  <2>3. CASE d.field # c.field
    <3>1. fields[d.field] = b.fields[d.field]
      BY <1>2, <1>5, <2>1, <2>3
    <3> QED BY <1>1, <3>1 DEF IsBuilder, Typed
  <2> QED BY <2>2, <2>3
<1>8. Typed(kind, fields)
  BY <1>6, <1>7 DEF Typed
<1>9. IsBuilder(new)
  BY <1>3, <1>4, <1>6, <1>8 DEF IsBuilder
<1> QED BY <1>2, <1>4, <1>9

\* No setter makes a builder forget what its caller said, or the caller's other
\* variables change.
LEMMA PoolStep ==
  ASSUME PoolInv, C!Next
  PROVE  PoolInv'
<1>1. ASSUME NEW h \in Handles, NEW kind \in C!Kinds, C!New(h, kind)
      PROVE  PoolInv'
  <2>1. PICK b : b = C!Build(kind)
    OBVIOUS
  <2>2. PICK fields : fields = [f \in C!Fields(kind) |-> None]
    OBVIOUS
  <2>3. /\ pool' = [pool EXCEPT ![h] = b] /\ said' = [said EXCEPT ![h] = fields]
        /\ calls' = calls
    BY <1>1, <2>1, <2>2 DEF C!New
  <2>4. IsBuilder(b) /\ fields = b.fields
    BY <2>1, <2>2, Built
  <2> QED BY <2>3, <2>4 DEF PoolInv
<1>2. ASSUME NEW h \in Handles, NEW g \in Handles, pool[h] # None,
          C!Extend(h, g)
      PROVE  PoolInv'
  <2>1. IsBuilder(pool[h]) /\ said[h] = pool[h].fields
    BY <1>2 DEF PoolInv
  <2>2. PICK c \in C!ClausesOf(pool[h].kind) : \E v \in C!Values(c) :
          /\ pool' = [pool EXCEPT ![g] = C!Set(pool[h], c.field, v)]
          /\ said' = [said EXCEPT ![g] = [said[h] EXCEPT ![c.field] = v]]
    BY <1>2 DEF C!Extend
  <2>3. PICK v \in C!Values(c) :
          /\ pool' = [pool EXCEPT ![g] = C!Set(pool[h], c.field, v)]
          /\ said' = [said EXCEPT ![g] = [said[h] EXCEPT ![c.field] = v]]
    BY <2>2
  <2>4. PICK b : b = C!Set(pool[h], c.field, v)
    OBVIOUS
  <2>5. IsBuilder(b) /\ b.fields = [said[h] EXCEPT ![c.field] = v]
    BY <2>1, <2>4, SetBuilt
  <2>6. pool' = [pool EXCEPT ![g] = b] /\ said' = [said EXCEPT ![g] = b.fields]
    BY <2>3, <2>4, <2>5
  <2>7. calls' \in 0 .. MaxCalls
    BY <1>2, RedisSearchAssumption DEF PoolInv, C!Extend
  <2> QED BY <2>5, <2>6, <2>7 DEF PoolInv
<1>3. ASSUME UNCHANGED <<pool, said, calls>>
      PROVE  PoolInv'
  BY <1>3 DEF PoolInv
<1>4. ASSUME C!Drop
      PROVE  PoolInv'
  BY <1>4, RedisSearchAssumption DEF C!Drop, PoolInv
<1>5. CASE C!Drop
  BY <1>4, <1>5
<1>6. CASE \E h \in Handles : \E kind \in C!Kinds : C!New(h, kind)
  BY <1>1, <1>6
<1>7. CASE \E h \in Handles : \E g \in Handles :
             \/ C!ExtendCreate(h, g) \/ C!ExtendSchema(h, g)
             \/ C!ExtendOption(h, g) \/ C!ExtendSearch(h, g)
  BY <1>2, <1>7 DEF C!ExtendCreate, C!ExtendSchema, C!ExtendOption,
     C!ExtendSearch, C!Is
<1>8. CASE \E h \in Handles : \/ \E p \in Handles \cup {None} : C!Create(p, h)
                              \/ C!Search(h) \/ C!Alter(h)
  <2>1. UNCHANGED <<pool, said, calls>>
    BY <1>8 DEF C!Create, C!Search, C!Alter, C!Sent
  <2> QED BY <1>3, <2>1
<1> QED BY <1>5, <1>6, <1>7, <1>8 DEF C!Next

\* What the caller said of a handle is of the handle's kind only.
LEMMA PartOf ==
  ASSUME PoolInv, NEW h \in Handles, NEW kind, C!Is(h, kind)
  PROVE  /\ kind \in C!Kinds /\ pool[h].kind = kind
         /\ said[h] = pool[h].fields /\ Typed(kind, said[h])
         /\ C!WrittenOf(h) = C!WrittenAll(kind, said[h])
         /\ \A k \in C!Kinds : DOMAIN said[h] = C!Fields(k) => k = kind
<1>1. /\ kind \in C!Kinds /\ pool[h].kind = kind
      /\ said[h] = pool[h].fields /\ Typed(kind, said[h])
  BY DEF PoolInv, IsBuilder, C!Is
<1>2. DOMAIN said[h] = C!Fields(kind)
  BY <1>1 DEF Typed
<1>3. C!WrittenOf(h) = C!WrittenAll(kind, said[h])
  BY <1>1 DEF C!WrittenOf
<1> QED BY <1>1, <1>2, <1>3, KindsApart

\* Search::create.
LEMMA CreateSent ==
  ASSUME PoolInv, NEW p \in Handles \cup {None}, NEW f \in Handles,
         C!Create(p, f)
  PROVE  CmdInv'
<1>1. /\ C!Is(f, "schema")
      /\ p # None => C!Is(p, "create")
      /\ cmd' = [name |-> "FT.CREATE",
             parts |-> {said[h] : h \in {p, f} \ {None}},
             args |-> (IF p = None THEN <<>> ELSE C!WrittenOf(p))
                            \o <<"SCHEMA">> \o C!WrittenOf(f)]
  BY DEF C!Create, C!Sent
<1>2. PICK P : P = IF p = None THEN <<>> ELSE C!WrittenOf(p)
  OBVIOUS
<1>3. PICK args : args = P \o <<"SCHEMA">> \o C!WrittenOf(f)
  OBVIOUS
<1>4. PICK parts : parts = {said[h] : h \in {p, f} \ {None}}
  OBVIOUS
<1>5. cmd'.name = "FT.CREATE" /\ cmd'.parts = parts /\ cmd'.args = args
  BY <1>1, <1>2, <1>3, <1>4
<1>6. /\ Typed("schema", said[f])
      /\ C!WrittenOf(f) = C!WrittenAll("schema", said[f])
      /\ \A k \in C!Kinds : DOMAIN said[f] = C!Fields(k) => k = "schema"
  BY <1>1, PartOf
<1>7. ASSUME p # None
      PROVE  /\ Typed("create", said[p])
             /\ P = C!WrittenAll("create", said[p])
             /\ \A k \in C!Kinds : DOMAIN said[p] = C!Fields(k) => k = "create"
  <2>1. p \in Handles
    BY <1>7
  <2> QED BY <1>1, <1>2, <1>7, <2>1, PartOf
<1>8. Clear(P) /\ \E S : P \in Seq(S)
  <2>1. CASE p = None
    <3>1. P = <<>>
      BY <1>2, <2>1
    <3>2. P \in Seq({})
      BY <3>1
    <3> QED BY <3>1, <3>2, ClearOfSchema
  <2>2. CASE p # None
    <3>1. "create" \in C!Kinds
      BY DEF C!Kinds
    <3>2. P \in Seq(Symbols("create"))
      BY <1>7, <2>2, <3>1, ReadBack DEF Reads
    <3> QED BY <1>7, <2>2, <3>2, ClearOfSchema
  <2> QED BY <2>1, <2>2
<1>9. Heeds(args, "schema", said[f])
  BY <1>3, <1>6, <1>8, SchemaHeard
<1>10. p # None => Heeds(args, "create", said[p])
  BY <1>3, <1>6, <1>7, CreateHeard
<1>11. ASSUME NEW part \in parts, NEW kind \in C!Kinds,
           DOMAIN part = C!Fields(kind)
       PROVE  Heeds(args, kind, part)
  <2>1. part = said[f] \/ (p # None /\ part = said[p])
    BY <1>4
  <2>2. CASE part = said[f]
    BY <1>6, <1>9, <1>11, <2>2
  <2>3. CASE p # None /\ part = said[p]
    BY <1>7, <1>10, <1>11, <2>3
  <2> QED BY <2>1, <2>2, <2>3
<1> QED BY <1>5, <1>11 DEF CmdInv

\* Search::search and Search::alter.
LEMMA AloneSent ==
  ASSUME PoolInv, NEW h \in Handles, NEW kind \in {"option", "search"},
         C!Is(h, kind),
         NEW name, C!Sent(name, {said[h]}, C!WrittenOf(h)),
         name = "FT.SEARCH" => kind = "search"
  PROVE  CmdInv'
<1>1. PICK args : args = C!WrittenOf(h)
  OBVIOUS
<1>2. PICK parts : parts = {said[h]}
  OBVIOUS
<1>3. cmd'.name = name /\ cmd'.parts = parts /\ cmd'.args = args
  BY <1>1, <1>2 DEF C!Sent
<1>4. /\ kind \in C!Kinds /\ Typed(kind, said[h]) /\
             args = C!WrittenAll(kind, said[h])
      /\ \A k \in C!Kinds : DOMAIN said[h] = C!Fields(k) => k = kind
  BY <1>1, PartOf
<1>5. Heeds(args, kind, said[h]) /\ Reads(kind, said[h], args)
  BY <1>4, HeardAlone, ReadBack
<1>6. /\ \A part \in parts : \A k \in C!Kinds :
           DOMAIN part = C!Fields(k) => Heeds(args, k, part)
      /\ name = "FT.SEARCH" =>
           \A part \in parts :
               Typed("search", part) /\ Reads("search", part, args)
  BY <1>2, <1>4, <1>5
<1> QED BY <1>3, <1>6 DEF CmdInv

LEMMA CmdStep ==
  ASSUME PoolInv, CmdInv, C!Next
  PROVE  CmdInv'
<1>1. ASSUME cmd' = cmd \/ cmd' = None
      PROVE  CmdInv'
  <2>1. CASE cmd' = None
    BY <2>1 DEF CmdInv
  <2>2. CASE cmd' = cmd
    BY <2>2 DEF CmdInv
  <2> QED BY <1>1, <2>1, <2>2
<1>2. CASE C!Drop
  BY <1>1, <1>2 DEF C!Drop
<1>3. CASE \E h \in Handles : \E kind \in C!Kinds : C!New(h, kind)
  BY <1>1, <1>3 DEF C!New
<1>4. CASE \E h \in Handles : \E g \in Handles :
             \/ C!ExtendCreate(h, g) \/ C!ExtendSchema(h, g)
             \/ C!ExtendOption(h, g) \/ C!ExtendSearch(h, g)
  BY <1>1, <1>4 DEF C!ExtendCreate, C!ExtendSchema, C!ExtendOption,
     C!ExtendSearch, C!Extend
<1>5. CASE \E h \in Handles : \E p \in Handles \cup {None} : C!Create(p, h)
  BY <1>5, CreateSent
<1>6. CASE \E h \in Handles : C!Search(h)
  BY <1>6, AloneSent DEF C!Search
<1>7. CASE \E h \in Handles : C!Alter(h)
  BY <1>7, AloneSent DEF C!Alter
<1> QED BY <1>2, <1>3, <1>4, <1>5, <1>6, <1>7 DEF C!Next

\* The invariant says what the property says.
LEMMA CmdSays == CmdInv => CommandSaysWhatWasSet
BY HeardInCommand DEF CmdInv, Heeds, CommandSaysWhatWasSet,
   C!CommandSaysWhatWasSet

CommandsInv == PoolInv /\ CmdInv

LEMMA CommandsInit == C!Init => CommandsInv
<1>1. C!Init => PoolInv
  BY RedisSearchAssumption DEF C!Init, PoolInv
<1>2. C!Init => CmdInv
  BY DEF C!Init, CmdInv
<1> QED BY <1>1, <1>2 DEF CommandsInv

LEMMA CommandsStep == CommandsInv /\ [SearchNext]_searchVars => CommandsInv'
<1> SUFFICES ASSUME CommandsInv, [SearchNext]_searchVars PROVE CommandsInv'
  OBVIOUS
<1>1. ASSUME UNCHANGED buildVars
      PROVE  CommandsInv'
  BY <1>1 DEF buildVars, CommandsInv, PoolInv, CmdInv
<1>2. ASSUME C!Next
      PROVE  CommandsInv'
  BY <1>2, PoolStep, CmdStep DEF CommandsInv
<1>3. C!Drop => C!Next
  BY DEF C!Next
<1>4. CASE Compose
  BY <1>2, <1>4 DEF Compose
<1>5. CASE AskWith \/ AskPlain
  BY <1>2, <1>3, <1>5 DEF AskWith, AskPlain, Ask
<1>6. CASE Answer \/ Garble \/ Parse \/ Done
  BY <1>1, <1>6 DEF Answer, Garble, Arrives, Parse, Done
<1>7. CASE UNCHANGED searchVars
  BY <1>1, <1>7 DEF searchVars
<1> QED BY <1>4, <1>5, <1>6, <1>7 DEF SearchNext

\* On whatever chain of setters, forked or extended after it was sent, a
\* command of create, alter or search says of every field, in the syntax of
\* RediSearch, what its caller said last, and of fields nobody set nothing; the
\* fields that Search miswrites are excepted, with any values of the others.
THEOREM CommandsSayWhatWasSet == SearchSpec => []CommandSaysWhatWasSet
<1>1. SearchInit => CommandsInv
  BY CommandsInit DEF SearchInit
<1>2. CommandsInv => CommandSaysWhatWasSet
  BY CmdSays DEF CommandsInv
<1> QED BY <1>1, <1>2, CommandsStep, PTL DEF SearchSpec

-----------------------------------------------------------------------------
(* Searches.                                                               *)

\* The options that add nothing to a reply but what the loop passes over.
Harmless ==
  /\ heard \subseteq {"with_payloads", "with_scores", "explain_score"}
  /\ "with_scores" \in heard => "explain_score" \in heard

SearchInv ==
  /\ CommandsInv
  /\ TypeOK /\ NothingInvented
  /\ stage \in {"build", "asked", "reply"}
  /\ heard \subseteq ShapeFields /\ heard = meant
  /\ stage = "reply" /\ Harmless => Documents

\* RediSearch is sent the shaping options that the caller set, and no others.
LEMMA AskedAsMeant ==
  ASSUME CommandsInv, AskWith
  PROVE  heard' \subseteq ShapeFields /\ heard' = meant'
<1>1. PICK part \in cmd.parts :
        Ask({c.field :
            c \in {d \in ShapeClauses : C!Meant(d, part[d.field]) # None}},
            {c.field : c \in {d \in ShapeClauses : d.word \in ToSet(cmd.args)}})
  BY DEF AskWith
<1>2. /\ meant' = {c.field : c \in {d \in ShapeClauses :
                                      C!Meant(d, part[d.field]) # None}}
      /\ heard' = {c.field :
             c \in {d \in ShapeClauses : d.word \in ToSet(cmd.args)}}
  BY <1>1 DEF Ask
<1>3. Reads("search", part, cmd.args)
  BY DEF CommandsInv, CmdInv, AskWith
<1>4. ASSUME NEW d \in ShapeClauses
      PROVE  C!Meant(d, part[d.field]) # None <=> d.word \in ToSet(cmd.args)
  <2>1. d \in C!ClausesOf("search")
    BY DEF ShapeClauses
  <2>2. d.form # "bare"
    BY <2>1, EmptyApart DEF C!ClausesOf, C!Clauses, C!ToSet, C!SearchClauses,
       C!Clause
  <2>3. DOMAIN cmd.args = 1 .. Len(cmd.args)
    BY <1>3 DEF Reads
  <2>4. /\ C!Meant(d, part[d.field]) # None =>
             \E p \in 1 .. Len(cmd.args) : cmd.args[p] = d.word
        /\ \A p \in 1 .. Len(cmd.args) : cmd.args[p] = d.word =>
             C!Meant(d, part[d.field]) # None
    BY <1>3, <2>1, <2>2 DEF Reads
  <2> QED BY <2>3, <2>4 DEF ToSet
<1>5. heard' = meant'
  BY <1>2, <1>4
<1>6. \A d \in ShapeClauses : d.field \in ShapeFields
  BY DEF ShapeClauses
<1> QED BY <1>2, <1>5, <1>6

\* One more item, if it is wanted.
LEMMA Put ==
  ASSUME NEW S, NEW s \in Seq(S), NEW x \in S, NEW wanted \in BOOLEAN,
         NEW t, t = s \o (IF wanted THEN <<x>> ELSE <<>>)
  PROVE  /\ t \in Seq(S) /\ \A i \in 1 .. Len(s) : t[i] = s[i]
         /\ ~ wanted => Len(t) = Len(s)
         /\ wanted => Len(t) = Len(s) + 1 /\ t[Len(s) + 1] = x
<1>1. PICK a \in Nat : a = Len(s)
  OBVIOUS
<1>2. CASE wanted
  <2>1. PICK u : u = <<x>>
    OBVIOUS
  <2>2. u \in Seq(S) /\ Len(u) = 1 /\ u[1] = x
    BY <2>1
  <2>3. PICK one \in Nat : one = 1
    OBVIOUS
  <2>4. t = s \o u
    BY <1>2, <2>1
  <2>5. /\ t \in Seq(S) /\ Len(t) = a + one
        /\ \A i \in 1 .. a : t[i] = s[i]
        /\ \A k \in 1 .. one : t[a + k] = u[k]
    <3>1. u \in Seq(S) /\ one = Len(u)
      BY <2>2, <2>3
    <3> QED BY <1>1, <2>4, <3>1, ConcatPositions
  <2> QED BY <1>1, <1>2, <2>2, <2>3, <2>5
<1>3. CASE ~ wanted
  <2>1. t = s \o <<>>
    BY <1>3
  <2>2. t = s
    BY <2>1, EmptySeq, ConcatEmptySeq
  <2> QED BY <1>3, <2>2
<1> QED BY <1>2, <1>3

\* A document in a reply is read: its key, what the loop passes over, its item.
Plain(s, hit) ==
  /\ Len(s) >= 2 /\ s[1] = Data(hit.key) /\ s[Len(s)] = hit.item
  /\ \A j \in 2 .. Len(s) - 1 : s[j] \in {Nil, NotStrings}

LEMMA ShapedType ==
  ASSUME NEW hit \in Found, NEW n \in 0 .. 2
  PROVE  /\ Shaped(hit, n) \in Seq(Items)
         /\ Harmless /\ n = 1 => Plain(Shaped(hit, n), hit)
<1>1. PICK score :
          score = IF "explain_score" \in heard THEN NotStrings ELSE Data(Extra)
  OBVIOUS
<1>2. PICK fields : fields = IF n = 1 THEN hit.item ELSE Uneven
  OBVIOUS
<1>3. PICK first : first = Data(hit.key)
  OBVIOUS
<1>4. PICK extra : extra = Data(Extra)
  OBVIOUS
<1>5. /\ first \in Items /\ score \in Items /\ fields \in Items /\
             extra \in Items
      /\ Nil \in Items
  <2>1. hit.key \in Keys /\
            hit.item \in {Nil} \cup {Pair(c) : c \in Contents \cup {Garbage}}
    BY DEF Found, Hits
  <2>2. Extra \in Keys
    BY RedisSearchAssumption
  <2> QED BY <1>1, <1>2, <1>3, <1>4, <2>1, <2>2 DEF Items
<1>6. PICK w1 \in BOOLEAN : w1 <=> "with_scores" \in heard
  OBVIOUS
<1>7. PICK w2 \in BOOLEAN : w2 <=> "with_payloads" \in heard
  OBVIOUS
<1>8. PICK w3 \in BOOLEAN : w3 <=> "with_sort_keys" \in heard
  OBVIOUS
<1>9. PICK w4 \in BOOLEAN : w4 <=> "no_content" \notin heard /\ n > 0
  OBVIOUS
<1>10. PICK s0 : s0 = <<first>>
  OBVIOUS
<1>11. PICK s1 : s1 = s0 \o (IF w1 THEN <<score>> ELSE <<>>)
  OBVIOUS
<1>12. PICK s2 : s2 = s1 \o (IF w2 THEN <<Nil>> ELSE <<>>)
  OBVIOUS
<1>13. PICK s3 : s3 = s2 \o (IF w3 THEN <<extra>> ELSE <<>>)
  OBVIOUS
<1>14. PICK s4 : s4 = s3 \o (IF w4 THEN <<fields>> ELSE <<>>)
  OBVIOUS
<1>15. s4 = Shaped(hit, n)
  BY <1>1, <1>2, <1>3, <1>4, <1>6, <1>7, <1>8, <1>9, <1>10, <1>11, <1>12,
     <1>13, <1>14 DEF Shaped
<1>16. s0 \in Seq(Items) /\ Len(s0) = 1 /\ s0[1] = first
  BY <1>5, <1>10
<1>17. /\ s1 \in Seq(Items) /\ \A i \in 1 .. Len(s0) : s1[i] = s0[i]
       /\ ~ w1 => Len(s1) = Len(s0)
       /\ w1 => Len(s1) = Len(s0) + 1 /\ s1[Len(s0) + 1] = score
  <2>1. s0 \in Seq(Items) /\ score \in Items
    BY <1>5, <1>16
  <2> QED BY <1>11, <2>1, Put
<1>18. /\ s2 \in Seq(Items) /\ \A i \in 1 .. Len(s1) : s2[i] = s1[i]
       /\ ~ w2 => Len(s2) = Len(s1)
       /\ w2 => Len(s2) = Len(s1) + 1 /\ s2[Len(s1) + 1] = Nil
  BY <1>5, <1>12, <1>17, Put
<1>19. /\ s3 \in Seq(Items) /\ \A i \in 1 .. Len(s2) : s3[i] = s2[i]
       /\ ~ w3 => Len(s3) = Len(s2)
       /\ w3 => Len(s3) = Len(s2) + 1 /\ s3[Len(s2) + 1] = extra
  BY <1>5, <1>13, <1>18, Put
<1>20. /\ s4 \in Seq(Items) /\ \A i \in 1 .. Len(s3) : s4[i] = s3[i]
       /\ ~ w4 => Len(s4) = Len(s3)
       /\ w4 => Len(s4) = Len(s3) + 1 /\ s4[Len(s3) + 1] = fields
  BY <1>5, <1>14, <1>19, Put
<1>21. ASSUME Harmless, n = 1
       PROVE  Plain(s4, hit)
  <2>1. ~ w3 /\ w4 /\ fields = hit.item /\ (w1 => score = NotStrings)
    BY <1>1, <1>2, <1>6, <1>8, <1>9, <1>21 DEF Harmless
  <2>2. PICK a \in Nat : a = Len(s1)
    BY <1>17
  <2>3. PICK b \in Nat : b = Len(s2)
    BY <1>18
  <2>4. /\ a >= 1 /\ s1[1] = first
        /\ \A j \in 2 .. a : s1[j] \in {Nil, NotStrings}
    <3>1. CASE w1
      <4>1. a = 2 /\ s1[2] = NotStrings /\ s1[1] = first
        BY <1>16, <1>17, <2>1, <2>2, <3>1
      <4>2. \A j \in 2 .. a : j = 2
        BY <4>1
      <4> QED BY <4>1, <4>2
    <3>2. CASE ~ w1
      <4>1. a = 1 /\ s1[1] = first
        BY <1>16, <1>17, <2>2, <3>2
      <4> QED BY <4>1
    <3> QED BY <3>1, <3>2
  <2>5. /\ b >= 1 /\ s2[1] = first
        /\ \A j \in 2 .. b : s2[j] \in {Nil, NotStrings}
    <3>1. \A i \in 1 .. a : s2[i] = s1[i]
      BY <1>18, <2>2
    <3>2. s2[1] = first /\ \A j \in 2 .. a : s2[j] \in {Nil, NotStrings}
      BY <2>4, <3>1
    <3>3. CASE w2
      <4>1. b = a + 1 /\ s2[a + 1] = Nil
        BY <1>18, <2>2, <2>3, <3>3
      <4>2. \A j \in 2 .. b : j \in 2 .. a \/ j = a + 1
        BY <2>4, <4>1
      <4> QED BY <2>4, <3>2, <4>1, <4>2
    <3>4. CASE ~ w2
      <4>1. b = a
        BY <1>18, <2>2, <2>3, <3>4
      <4> QED BY <2>4, <3>2, <4>1
    <3> QED BY <3>3, <3>4
  <2>6. \A i \in 1 .. b : s4[i] = s2[i]
    BY <1>19, <1>20, <2>1, <2>3
  <2>7. Len(s4) = b + 1 /\ s4[b + 1] = hit.item
    BY <1>19, <1>20, <2>1, <2>3
  <2>8. s4[1] = first /\ \A j \in 2 .. b : s4[j] \in {Nil, NotStrings}
    BY <2>5, <2>6
  <2>9. Len(s4) >= 2 /\ Len(s4) - 1 = b
    BY <2>5, <2>7
  <2> QED BY <1>3, <2>7, <2>8, <2>9 DEF Plain
<1> QED BY <1>15, <1>20, <1>21

\* A reply made of documents that can be read has their layout.
LEMMA AnswerLayout ==
  ASSUME NEW N \in Nat \ {0}, NEW found \in [1 .. N -> Hits],
         NEW ss \in [1 .. N -> Seq(Items)],
         \A i \in 1 .. N : Plain(ss[i], found[i]),
         NEW flat \in Seq(Items), NEW marks, Marks(marks, flat, ss, N),
         hits' = found, reply' = <<Count>> \o flat
  PROVE  \E off : Layout(off)'
<1>1. PICK all \in Nat : all = Len(flat)
  OBVIOUS
<1>2. /\ Len(reply') = all + 1 /\ reply'[1] = Count
      /\ \A p \in 1 .. all : reply'[1 + p] = flat[p]
  <2>1. PICK head : head = <<Count>>
    OBVIOUS
  <2>2. head \in Seq(Items) /\ Len(head) = 1 /\ head[1] = Count
    <3>1. Count \in Items
      BY DEF Items
    <3> QED BY <2>1, <3>1
  <2>3. PICK one \in Nat : one = 1
    OBVIOUS
  <2>4. reply' = head \o flat
    BY <2>1
  <2>5. /\ Len(reply') = one + all
        /\ \A i \in 1 .. one : reply'[i] = head[i]
        /\ \A k \in 1 .. all : reply'[one + k] = flat[k]
    BY <1>1, <2>2, <2>3, <2>4, ConcatPositions
  <2> QED BY <2>2, <2>3, <2>5
<1>3. marks \in [0 .. N -> Nat] /\ marks[0] = 0 /\ all = marks[N]
  BY <1>1 DEF Marks
<1>4. PICK off : off = [i \in 0 .. N |-> marks[i] + 1]
  OBVIOUS
<1>5. /\ off \in [0 .. N -> Nat] /\ off[0] = 1 /\ off[N] = all + 1
      /\ \A i \in 0 .. N : off[i] = marks[i] + 1
  BY <1>3, <1>4
<1>6. ASSUME NEW i \in 1 .. N
      PROVE  /\ off[i - 1] + 2 <= off[i] /\ off[i] <= all + 1
             /\ reply'[off[i - 1] + 1] = Data(found[i].key)
             /\ \A j \in off[i - 1] + 2 .. off[i] - 1 :
                  reply'[j] \in {Nil, NotStrings}
             /\ reply'[off[i]] = found[i].item
  <2>1. i \in 0 .. N /\ i - 1 \in 0 .. N
    OBVIOUS
  <2>2. PICK a \in Nat : a = marks[i - 1]
    BY <1>3, <2>1
  <2>3. PICK b \in Nat : b = Len(ss[i])
    OBVIOUS
  <2>4. PICK c \in Nat : c = marks[i]
    BY <1>3, <2>1
  <2>5. /\ c = a + b /\ c <= all
        /\ \A k \in 1 .. b : flat[a + k] = ss[i][k]
    BY <1>3, <2>2, <2>3, <2>4 DEF Marks
  <2>6. /\ b >= 2 /\ ss[i][1] = Data(found[i].key) /\ ss[i][b] = found[i].item
        /\ \A j \in 2 .. b - 1 : ss[i][j] \in {Nil, NotStrings}
    BY <2>3 DEF Plain
  <2>7. off[i - 1] = a + 1 /\ off[i] = a + b + 1
    BY <1>5, <2>1, <2>2, <2>4, <2>5
  <2>8. ASSUME NEW k \in 1 .. b
        PROVE  reply'[a + 1 + k] = ss[i][k]
    <3>1. a + k \in 1 .. all /\ 1 + (a + k) = a + 1 + k
      BY <2>5
    <3>2. reply'[1 + (a + k)] = flat[a + k]
      BY <1>2, <3>1
    <3> QED BY <2>5, <3>1, <3>2
  <2>9. ASSUME NEW j \in off[i - 1] + 2 .. off[i] - 1
        PROVE  reply'[j] \in {Nil, NotStrings}
    <3>1. PICK k \in 2 .. b - 1 : j = a + 1 + k
      <4>1. j - (a + 1) \in 2 .. b - 1 /\ j = a + 1 + (j - (a + 1))
        BY <2>7
      <4> QED BY <4>1
    <3>2. k \in 1 .. b
      OBVIOUS
    <3> QED BY <2>6, <2>8, <3>1, <3>2
  <2>10. reply'[a + 1 + 1] = Data(found[i].key) /\
             reply'[a + 1 + b] = found[i].item
    <3>1. 1 \in 1 .. b /\ b \in 1 .. b
      BY <2>6
    <3> QED BY <2>6, <2>8, <3>1
  <2>11. a + b + 1 = a + 1 + b /\ a + 1 + 2 <= a + b + 1 /\ a + b + 1 <= all + 1
    BY <2>5, <2>6
  <2> QED BY <2>7, <2>9, <2>10, <2>11
<1>7. Len(hits') = N
  OBVIOUS
<1>8. Layout(off)'
  BY <1>2, <1>5, <1>6, <1>7 DEF Layout
<1> QED BY <1>8

LEMMA Answered ==
  ASSUME SearchInv, Answer
  PROVE  /\ reply' \in Seq(Items)
         /\ Harmless => Documents'
<1>1. PICK found \in UpTo(Found, MaxHits), n \in 0 .. 2 :
        /\ n = 1 \/ "return_param" \in heard
        /\ Arrives(found, <<Count>> \o
             FlattenSeq([i \in DOMAIN found |-> Shaped(found[i], n)]))
  BY DEF Answer
<1>2. PICK ss : ss = [i \in DOMAIN found |-> Shaped(found[i], n)]
  OBVIOUS
<1>3. PICK flat : flat = FlattenSeq(ss)
  OBVIOUS
<1>4. /\ hits' = found /\ reply' = <<Count>> \o flat
      /\ at' = 1 /\ results' = <<>> /\ outcome' = "loop"
  BY <1>1, <1>2, <1>3 DEF Arrives
<1>5. PICK N \in 0 .. MaxHits : found \in [1 .. N -> Found]
  BY DEF UpTo
<1>6. N \in Nat
  BY SearchReplyAssumption
<1>7. Found \subseteq Hits
  BY DEF Found, Hits
<1>8. /\ ss \in [1 .. N -> Seq(Items)]
      /\ \A i \in 1 .. N : ss[i] = Shaped(found[i], n)
  BY <1>2, <1>5, ShapedType
<1>9. flat \in Seq(Items)
  <2>1. CASE N = 0
    <3>1. Len(ss) = 0 /\ ss = <<>>
      BY <1>8, <2>1
    <3>2. flat = ss
      BY <1>3, <3>1 DEF FlattenSeq
    <3> QED BY <3>1, <3>2
  <2>2. CASE N # 0
    BY <1>3, <1>6, <1>8, <2>2, FlattenMarks
  <2> QED BY <2>1, <2>2
<1>10. reply' \in Seq(Items)
  <2>1. PICK head : head = <<Count>>
    OBVIOUS
  <2>2. Count \in Items
    BY DEF Items
  <2>3. head \in Seq(Items)
    BY <2>1, <2>2
  <2> QED BY <1>4, <1>9, <2>1, <2>3, ConcatProperties
<1>11. ASSUME Harmless
       PROVE  Documents'
  <2>1. n = 1
    BY <1>1, <1>11 DEF Harmless
  <2>2. ~ ResultsAreDocuments' => FALSE
    BY <1>4 DEF ResultsAreDocuments
  <2>3. CASE N = 0
    <3>1. hits' = <<>>
      BY <1>4, <1>5, <2>3
    <3> QED BY <2>2, <3>1 DEF Documents
  <2>4. CASE N # 0
    <3>1. N \in Nat \ {0} /\ found \in [1 .. N -> Hits]
      BY <1>5, <1>6, <1>7, <2>4
    <3>2. \A i \in 1 .. N : Plain(ss[i], found[i])
      BY <1>5, <1>8, <1>11, <2>1, ShapedType
    <3>3. PICK marks : Marks(marks, flat, ss, N)
      BY <1>3, <1>8, <3>1, FlattenMarks
    <3>4. \E off : Layout(off)'
      BY <1>4, <1>8, <1>9, <3>1, <3>2, <3>3, AnswerLayout
    <3>5. \A off : Progress(off)'
      BY <1>4 DEF Progress
    <3>6. hits' \in Seq(Hits)
      BY <1>4, <3>1
    <3> QED BY <2>2, <3>4, <3>5, <3>6 DEF Documents
  <2> QED BY <2>3, <2>4
<1> QED BY <1>10, <1>11

LEMMA SearchInitial == SearchInit => SearchInv
<1> SUFFICES ASSUME SearchInit PROVE SearchInv
  OBVIOUS
<1>1. CommandsInv
  BY CommandsInit DEF SearchInit
<1>2. TypeOK
  BY DEF SearchInit, TypeOK
<1>3. NothingInvented
  BY DEF SearchInit, NothingInvented, Founded
<1> QED BY <1>1, <1>2, <1>3 DEF SearchInit, SearchInv

LEMMA SearchStep == SearchInv /\ [SearchNext]_searchVars => SearchInv'
<1> SUFFICES ASSUME SearchInv, [SearchNext]_searchVars PROVE SearchInv'
  OBVIOUS
<1>1. CommandsInv'
  BY CommandsStep DEF SearchInv
<1>2. ASSUME UNCHANGED vars
      PROVE  TypeOK' /\ NothingInvented' /\ (Documents => Documents')
  <2>1. UNCHANGED <<hits, reply, at, results, outcome>>
    BY <1>2 DEF vars
  <2>2. TypeOK' /\ (Documents => Documents')
    BY <1>2, NextType, NextDocuments DEF SearchInv
  <2> QED BY <2>1, <2>2 DEF SearchInv, NothingInvented
<1>3. ASSUME UNCHANGED <<vars, linkVars>>
      PROVE  SearchInv'
  <2>1. UNCHANGED <<stage, heard, meant>>
    BY <1>3 DEF linkVars
  <2>2. Harmless' <=> Harmless
    BY <2>1 DEF Harmless
  <2> QED BY <1>1, <1>2, <1>3, <2>1, <2>2 DEF SearchInv
<1>4. CASE Compose
  BY <1>3, <1>4 DEF Compose
<1>5. CASE UNCHANGED searchVars
  BY <1>3, <1>5 DEF searchVars
<1>6. ASSUME UNCHANGED vars, stage' = "asked",
             heard' \subseteq ShapeFields, heard' = meant'
      PROVE  SearchInv'
  BY <1>1, <1>2, <1>6 DEF SearchInv
<1>7. CASE AskWith
  <2>1. heard' \subseteq ShapeFields /\ heard' = meant'
    BY <1>7, AskedAsMeant DEF SearchInv
  <2>2. UNCHANGED vars /\ stage' = "asked"
    BY <1>7 DEF AskWith, Ask
  <2> QED BY <1>6, <2>1, <2>2
<1>8. CASE AskPlain
  BY <1>6, <1>8 DEF AskPlain, Ask
<1>9. ASSUME NEW found, NEW items, Arrives(found, items), reply' \in Seq(Items),
             Harmless => Documents'
      PROVE  SearchInv'
  <2>1. /\ stage' = "reply" /\ at' = 1 /\ results' = <<>> /\ outcome' = "loop"
        /\ UNCHANGED <<meant, heard>>
    BY <1>9 DEF Arrives
  <2>2. TypeOK'
    <3>1. 1 \in 1 .. Len(reply') + 1 /\ <<>> \in Seq(Result)
      BY <1>9
    <3> QED BY <1>9, <2>1, <3>1 DEF TypeOK
  <2>3. NothingInvented'
    BY <2>1 DEF NothingInvented, Founded
  <2>4. Harmless' <=> Harmless
    BY <2>1 DEF Harmless
  <2> QED BY <1>1, <1>9, <2>1, <2>2, <2>3, <2>4 DEF SearchInv
<1>10. CASE Answer
  <2>1. PICK found, items : Arrives(found, items)
    BY <1>10 DEF Answer
  <2> QED BY <1>9, <1>10, <2>1, Answered
<1>11. CASE Garble
  <2>1. PICK n \in 0 .. MaxItems :
            \E items \in [1 .. n -> Items] : Arrives(<<>>, items)
    BY <1>11 DEF Garble
  <2>2. PICK items \in [1 .. n -> Items] : Arrives(<<>>, items)
    BY <2>1
  <2>3. reply' \in Seq(Items) /\ hits' = <<>>
    <3>1. n \in Nat
      BY SearchReplyAssumption
    <3> QED BY <2>2, <3>1 DEF Arrives
  <2>4. Documents'
    BY <2>3 DEF Documents, ResultsAreDocuments
  <2> QED BY <1>9, <2>2, <2>3, <2>4
<1>12. CASE Parse
  <2>1. Next /\ UNCHANGED <<stage, meant, heard>>
    BY <1>12 DEF Parse, linkVars
  <2>2. TypeOK' /\ NothingInvented' /\ (Documents => Documents')
    BY <2>1, NextType, NextInvented, NextDocuments DEF SearchInv
  <2>3. Harmless' <=> Harmless
    BY <2>1 DEF Harmless
  <2> QED BY <1>1, <2>1, <2>2, <2>3 DEF SearchInv
<1>13. CASE Done
  <2>1. /\ stage' = "build" /\ meant' = {} /\ heard' = {} /\ hits' = <<>>
        /\ reply' = <<>> /\ at' = 1 /\ results' = <<>> /\ outcome' = "ok"
    BY <1>13 DEF Done, Nothing
  <2>2. TypeOK'
    BY <2>1 DEF TypeOK
  <2>3. NothingInvented'
    BY <2>1 DEF NothingInvented, Founded
  <2> QED BY <1>1, <2>1, <2>2, <2>3 DEF SearchInv
<1> QED BY <1>4, <1>5, <1>7, <1>8, <1>10, <1>11, <1>12, <1>13 DEF SearchNext

LEMMA SearchInductive == SearchSpec => []SearchInv
BY SearchInitial, SearchStep, PTL DEF SearchSpec

\* The builders, the loop and the options keep their ranges, in every search.
THEOREM SearchTypeCorrect == SearchSpec => []SearchTypeOK
<1>1. CommandsInv => C!TypeOK
  BY DEF CommandsInv, PoolInv, IsBuilder, Typed, C!TypeOK
<1>2. SearchInv => SearchTypeOK
  BY <1>1 DEF SearchInv, SearchTypeOK
<1> QED BY <1>2, SearchInductive, PTL

\* Whatever was set, forked and sent before, a search that asks for no scores,
\* payloads, sort keys or chosen fields returns the documents found, however
\* many: its command has no shaping option that its caller did not set.
THEOREM SearchesFindDocuments == SearchSpec => []SearchFindsDocuments
<1>1. SearchInv => SearchFindsDocuments
  BY DEF SearchInv, SearchFindsDocuments, Harmless, Documents
<1> QED BY <1>1, SearchInductive, PTL

\* Explained scores and payloads that are not there do not come between a key
\* and its content: such a search, too, returns the documents found.
THEOREM OptionsAreHarmless == SearchSpec => []HarmlessOptions
<1>1. SearchInv => HarmlessOptions
  BY DEF SearchInv, HarmlessOptions, Harmless, Documents
<1> QED BY <1>1, SearchInductive, PTL

\* In a search, too, the loop makes nothing up, whatever RediSearch replies.
THEOREM SearchInventsNothing == SearchSpec => []NothingInvented
<1>1. SearchInv => NothingInvented
  BY DEF SearchInv
<1> QED BY <1>1, SearchInductive, PTL
=============================================================================
