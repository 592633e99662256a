-------------------------- MODULE InputOutput_proofs --------------------------
(***************************************************************************)
(* The command line, for any nesting of lines and any values: the buffer   *)
(* describes the cursor, and a handler is handed the leaves of its path.   *)
(* The switch for any interfaces, addresses, VLANs and sizes of arrays;    *)
(* the shared buffer of comm.c for any network, any number of threads and  *)
(* any frames; the log for any routers and interfaces; the ARP table for   *)
(* any addresses, threads, expiry time and bounds; and all of them         *)
(* together.                                                               *)
(***************************************************************************)
EXTENDS MCInputOutput, KeyedList_proofs

-----------------------------------------------------------------------------
(* The leaves on the way to a parameter.                                   *)

\* The function lead of CliLeaves, up to n.
CliLeadAt(param, lead, i) ==
    IF i = 0 THEN <<>>
    ELSE IF CtIsLeaf(SubSeq(param, 1, i)) THEN Append(lead[i - 1], SubSeq(param, 1, i))
    ELSE lead[i - 1]

CliLeads(param, n, lead) == lead = [i \in 0 .. n |-> CliLeadAt(param, lead, i)]

LEMMA CliLeadOf ==
    ASSUME NEW param, NEW n \in Nat, NEW f, CliLeads(param, n, f)
    PROVE  \A i \in 0 .. n : f[i] = CliLeadAt(param, f, i)
  <1> DEFINE g == [i \in 0 .. n |-> CliLeadAt(param, f, i)]
  <1>1. f = g
    BY DEF CliLeads
  <1>2. \A i \in 0 .. n : g[i] = CliLeadAt(param, f, i)
    OBVIOUS
  <1> HIDE DEF g
  <1>3. QED
    BY <1>1, <1>2

LEMMA CliLeadExists ==
    ASSUME NEW param, NEW n \in Nat
    PROVE  \E f : CliLeads(param, n, f)
  <1> DEFINE T == {m \in Nat : ~ \E f : CliLeads(param, m, f)}
  <1>1. SUFFICES ASSUME T # {} PROVE FALSE
    OBVIOUS
  <1>2. PICK m \in T : \A k \in T : m <= k
    BY <1>1, KlLeast
  <1>3. m # 0
    <2> DEFINE f == [i \in 0 .. 0 |-> <<>>]
    <2>1. CliLeads(param, 0, f)
      BY DEF CliLeads, CliLeadAt
    <2>2. QED
      BY <2>1, <1>2
  <1>4. PICK g : CliLeads(param, m - 1, g)
    BY <1>2, <1>3
  <1> DEFINE top == CliLeadAt(param, g, m)
             f == [i \in 0 .. m |-> IF i = m THEN top ELSE g[i]]
  <1>5. \A i \in 0 .. m - 1 : g[i] = CliLeadAt(param, g, i)
    BY <1>2, <1>3, <1>4, CliLeadOf
  <1>6. \A i \in 0 .. m - 1 : f[i] = g[i]
    BY <1>2
  <1>7. f[m] = top
    BY <1>2
  <1>8. \A i \in 0 .. m : f[i] = CliLeadAt(param, f, i)
    <2> HIDE DEF f
    <2>1. ASSUME NEW i \in 0 .. m, i # m PROVE f[i] = CliLeadAt(param, f, i)
      BY <2>1, <1>2, <1>5, <1>6 DEF CliLeadAt
    <2>2. f[m] = CliLeadAt(param, f, m)
      BY <1>2, <1>3, <1>6, <1>7 DEF CliLeadAt
    <2>3. QED
      BY <2>1, <2>2
  <1>9. f = [i \in 0 .. m |-> f[i]]
    OBVIOUS
  <1>10. CliLeads(param, m, f)
    <2> HIDE DEF f
    <2>1. QED
      BY <1>8, <1>9 DEF CliLeads
  <1>11. QED
    BY <1>2, <1>10

\* What CliLeaves returns.
LEMMA CliLeavesIs ==
    ASSUME NEW param, Len(param) \in Nat
    PROVE  \E f : CliLeads(param, Len(param), f) /\ CliLeaves(param) = f[Len(param)]
  <1> DEFINE f == CHOOSE g : CliLeads(param, Len(param), g)
  <1>1. CliLeads(param, Len(param), f)
    BY CliLeadExists
  <1>2. CliLeaves(param) = f[Len(param)]
    BY DEF CliLeaves, CliLeads, CliLeadAt
  <1>3. QED
    BY <1>1, <1>2

LEMMA CliLeavesRoot == CliLeaves(<<>>) = <<>>
  <1>1. Len(<<>>) = 0
    OBVIOUS
  <1>2. PICK f : CliLeads(<<>>, 0, f) /\ CliLeaves(<<>>) = f[0]
    BY <1>1, CliLeavesIs
  <1>3. \A i \in 0 .. 0 : f[i] = CliLeadAt(<<>>, f, i)
    BY <1>2, CliLeadOf, 0 \in Nat
  <1>4. f[0] = CliLeadAt(<<>>, f, 0)
    BY <1>3
  <1>5. QED
    BY <1>2, <1>4 DEF CliLeadAt

LEMMA CliSubAppend ==
    ASSUME NEW S, NEW p \in Seq(S), NEW w \in S
    PROVE  /\ \A i \in 0 .. Len(p) : SubSeq(Append(p, w), 1, i) = SubSeq(p, 1, i)
           /\ SubSeq(Append(p, w), 1, Len(p) + 1) = Append(p, w)
           /\ Front(Append(p, w)) = p
           /\ Last(Append(p, w)) = w
  <1> DEFINE q == Append(p, w)
  <1>1. /\ q \in Seq(S) /\ Len(q) = Len(p) + 1
        /\ \A i \in 1 .. Len(p) : q[i] = p[i]
        /\ q[Len(p) + 1] = w
    BY AppendProperties
  <1>2. Len(p) \in Nat /\ \A i \in 1 .. Len(p) : p[i] \in S
    BY LenProperties, ElementOfSeq
  <1> HIDE DEF q
  <1>3. ASSUME NEW i \in 0 .. Len(p) PROVE SubSeq(q, 1, i) = SubSeq(p, 1, i)
    <2>1. /\ SubSeq(q, 1, i) \in Seq(S) /\ Len(SubSeq(q, 1, i)) = i
          /\ \A k \in 1 .. i : SubSeq(q, 1, i)[k] = q[k]
      <3>1. \A k \in 1 .. i : q[k] \in S
        BY <1>1, <1>2
      <3>2. i \in Int /\ 1 \in Int /\ (1 <= i \/ i = 0) /\ i - 1 + 1 = i
        BY <1>2
      <3>3. \A k \in 1 .. i : 1 + k - 1 = k
        BY <3>2
      <3>4. QED
        BY <3>1, <3>2, <3>3, SubSeqProperties
    <2>2. /\ SubSeq(p, 1, i) \in Seq(S) /\ Len(SubSeq(p, 1, i)) = i
          /\ \A k \in 1 .. i : SubSeq(p, 1, i)[k] = p[k]
      <3>1. \A k \in 1 .. i : p[k] \in S
        BY <1>1, <1>2
      <3>2. i \in Int /\ 1 \in Int /\ (1 <= i \/ i = 0) /\ i - 1 + 1 = i
        BY <1>2
      <3>3. \A k \in 1 .. i : 1 + k - 1 = k
        BY <3>2
      <3>4. QED
        BY <3>1, <3>2, <3>3, SubSeqProperties
    <2>3. \A k \in 1 .. i : q[k] = p[k]
      BY <1>1, <1>2
    <2>4. QED
      BY <2>1, <2>2, <2>3, SeqEqual
  <1>4. SubSeq(q, 1, Len(p) + 1) = q
    BY <1>1, SubSeqFull
  <1>5. Front(q) = p
    <2>1. Front(q) = SubSeq(q, 1, Len(p))
      BY <1>1, <1>2 DEF Front
    <2>2. SubSeq(q, 1, Len(p)) = SubSeq(p, 1, Len(p))
      BY <1>2, <1>3
    <2>3. QED
      BY <2>1, <2>2, SubSeqFull
  <1>6. Last(q) = w
    BY <1>1 DEF Last
  <1>7. QED
    BY <1>3, <1>4, <1>5, <1>6 DEF q

LEMMA CliLeavesAppend ==
    ASSUME NEW S, NEW p \in Seq(S), NEW w \in S
    PROVE  CliLeaves(Append(p, w)) =
             IF CtIsLeaf(Append(p, w)) THEN Append(CliLeaves(p), Append(p, w)) ELSE CliLeaves(p)
  <1> DEFINE q == Append(p, w)
  <1>1. Len(p) \in Nat /\ Len(q) = Len(p) + 1
    BY AppendProperties, LenProperties
  <1>2. /\ \A i \in 0 .. Len(p) : SubSeq(q, 1, i) = SubSeq(p, 1, i)
        /\ SubSeq(q, 1, Len(p) + 1) = q
    BY CliSubAppend
  <1> HIDE DEF q
  <1>3. PICK f : CliLeads(p, Len(p), f) /\ CliLeaves(p) = f[Len(p)]
    BY <1>1, CliLeavesIs
  <1>4. PICK g : CliLeads(q, Len(p) + 1, g) /\ CliLeaves(q) = g[Len(p) + 1]
    BY <1>1, CliLeavesIs
  <1>5. \A i \in 0 .. Len(p) : f[i] = CliLeadAt(p, f, i)
    BY <1>1, <1>3, CliLeadOf
  <1>6. \A i \in 0 .. Len(p) + 1 : g[i] = CliLeadAt(q, g, i)
    BY <1>1, <1>4, CliLeadOf
  <1>7. \A i \in 0 .. Len(p) : f[i] = g[i]
    <2> DEFINE T == {i \in 0 .. Len(p) : f[i] # g[i]}
    <2>1. SUFFICES ASSUME T # {} PROVE FALSE
      OBVIOUS
    <2>2. T \in SUBSET Nat
      BY <1>1
    <2>3. PICK m \in T : \A k \in T : m <= k
      BY <2>1, <2>2, KlLeast
    <2>4. f[m] = CliLeadAt(p, f, m) /\ g[m] = CliLeadAt(q, g, m)
      BY <1>1, <1>5, <1>6, <2>3
    <2>5. SubSeq(q, 1, m) = SubSeq(p, 1, m)
      BY <1>2, <2>3
    <2>6. m # 0 => f[m - 1] = g[m - 1]
      BY <1>1, <2>3
    <2>7. f[m] = g[m]
      <3>1. CASE m = 0
        BY <2>4, <3>1 DEF CliLeadAt
      <3>2. CASE m # 0
        <4>1. g[m - 1] = f[m - 1]
          BY <2>6, <3>2
        <4>2. CliLeadAt(q, g, m) = CliLeadAt(p, f, m)
          BY <2>5, <3>2, <4>1, Zenon DEF CliLeadAt
        <4>3. QED
          BY <2>4, <4>2, Zenon
      <3>3. QED
        BY <3>1, <3>2
    <2>8. QED
      BY <2>3, <2>7
  <1>8. g[Len(p) + 1] = CliLeadAt(q, g, Len(p) + 1) /\ g[Len(p)] = f[Len(p)]
    BY <1>1, <1>6, <1>7
  <1>9. Len(p) + 1 # 0 /\ Len(p) + 1 - 1 = Len(p)
    BY <1>1
  <1>10. g[Len(p) + 1] = IF CtIsLeaf(q) THEN Append(g[Len(p)], q) ELSE g[Len(p)]
    <2>1. SubSeq(q, 1, Len(p) + 1) = q
      BY <1>2
    <2> DEFINE n == Len(p) + 1
    <2>2. n # 0 /\ n - 1 = Len(p) /\ SubSeq(q, 1, n) = q /\ g[n] = CliLeadAt(q, g, n)
      BY <1>8, <1>9, <2>1
    <2> HIDE DEF n
    <2>3. g[n] = IF CtIsLeaf(q) THEN Append(g[Len(p)], q) ELSE g[Len(p)]
      BY <2>2, Zenon DEF CliLeadAt
    <2>4. QED
      BY <2>3 DEF n
  <1>11. CliLeaves(q) = IF CtIsLeaf(q) THEN Append(CliLeaves(p), q) ELSE CliLeaves(p)
    BY <1>3, <1>4, <1>8, <1>10
  <1>12. QED
    BY <1>11 DEF q


LEMMA CliSplit ==
    ASSUME NEW S, NEW p \in Seq(S), p # <<>>
    PROVE  /\ Front(p) \in Seq(S) /\ Last(p) \in S /\ p = Append(Front(p), Last(p))
           /\ Len(Front(p)) = Len(p) - 1
  <1>1. PICK q \in Seq(S), w \in S : p = Append(q, w)
    BY SequenceEmptyOrAppend
  <1>2. Front(p) = q /\ Last(p) = w /\ Len(p) = Len(q) + 1 /\ Len(q) \in Nat
    BY <1>1, CliSubAppend, AppendProperties, LenProperties
  <1>3. QED
    BY <1>1, <1>2

LEMMA CliRangeAppend ==
    ASSUME NEW S, NEW p \in Seq(S), NEW w \in S
    PROVE  Range(Append(p, w)) = Range(p) \cup {w}
  <1>1. <<w>> \in Seq(S) /\ Range(<<w>>) = {w}
    BY DEF Range
  <1>2. QED
    <2>1. Append(p, w) = p \o <<w>>
      BY AppendIsConcat
    <2>2. Range(p \o <<w>>) = Range(p) \cup Range(<<w>>)
      BY <1>1, RangeConcatenation
    <2>3. QED
      BY <1>1, <2>1, <2>2, Zenon

\* The leaves of a parameter are prefixes of it that end in a leaf's word, and
\* these words are those it has.
CliWordsOf(lead) == {Last(lead[k]) : k \in 1 .. Len(lead)}
CliLeafWords(p) == {w \in Range(p) : w \in CtLeafWord}

CliLeavesGood(S, p) ==
    /\ CliLeaves(p) \in Seq(Seq(S))
    /\ \A k \in 1 .. Len(CliLeaves(p)) :
         CtIsLeaf(CliLeaves(p)[k]) /\ Len(CliLeaves(p)[k]) <= Len(p)
    /\ CliWordsOf(CliLeaves(p)) = CliLeafWords(p)

LEMMA CliLeavesAre ==
    ASSUME NEW S, NEW p \in Seq(S)
    PROVE  CliLeavesGood(S, p)
  <1> DEFINE T == {n \in Nat : \E q \in Seq(S) : Len(q) = n /\ ~CliLeavesGood(S, q)}
  <1>1. SUFFICES ASSUME T # {} PROVE FALSE
    BY LenProperties
  <1>2. PICK n \in T : \A k \in T : n <= k
    BY <1>1, KlLeast
  <1>3. PICK q \in Seq(S) : Len(q) = n /\ ~CliLeavesGood(S, q)
    BY <1>2
  <1>4. q # <<>>
    <2>1. CliLeafWords(<<>>) = {}
      BY DEF Range, CliLeafWords
    <2>2. /\ CliWordsOf(<<>>) = {} /\ <<>> \in Seq(Seq(S)) /\ Len(<<>>) = 0
          /\ \A k \in 1 .. 0 : FALSE
      BY DEF CliWordsOf
    <2>4. CliLeavesGood(S, <<>>)
      BY <2>1, <2>2, CliLeavesRoot DEF CliLeavesGood
    <2>3. QED
      BY <2>4, <1>3
  <1> DEFINE r == Front(q)
             w == Last(q)
  <1>5. r \in Seq(S) /\ w \in S /\ q = Append(r, w) /\ Len(r) = n - 1
    BY <1>3, <1>4, CliSplit
  <1>6. Len(r) \in Nat /\ Len(q) = Len(r) + 1
    BY <1>5, <1>3, LenProperties
  <1>7. CliLeavesGood(S, r)
    BY <1>2, <1>5, <1>6
  <1>8. CliLeaves(q) = IF CtIsLeaf(q) THEN Append(CliLeaves(r), q) ELSE CliLeaves(r)
    <2> HIDE DEF r, w
    <2>1. CliLeaves(Append(r, w)) =
            IF CtIsLeaf(Append(r, w)) THEN Append(CliLeaves(r), Append(r, w)) ELSE CliLeaves(r)
      BY <1>5, CliLeavesAppend
    <2>2. QED
      BY <1>5, <2>1, Zenon
  <1>9. Range(q) = Range(r) \cup {w}
    <2>1. Range(Append(r, w)) = Range(r) \cup {w}
      BY <1>5, CliRangeAppend
    <2> HIDE DEF r, w
    <2>2. QED
      BY <1>5, <2>1, Zenon
  <1>10. CtIsLeaf(q) <=> w \in CtLeafWord
    BY <1>4 DEF CtIsLeaf, CtRoot
  <1> DEFINE lead == CliLeaves(r)
  <1>11. /\ lead \in Seq(Seq(S)) /\ Len(lead) \in Nat
         /\ \A k \in 1 .. Len(lead) : CtIsLeaf(lead[k]) /\ Len(lead[k]) <= Len(r)
         /\ \A k \in 1 .. Len(lead) : Len(lead[k]) \in Nat
         /\ CliWordsOf(lead) = CliLeafWords(r)
    BY <1>7, LenProperties, ElementOfSeq DEF CliLeavesGood
  <1> HIDE DEF r, w, lead
  <1>12. CASE ~CtIsLeaf(q)
    <2>1. CliLeaves(q) = lead
      BY <1>8, <1>12 DEF lead
    <2>2. CliLeafWords(q) = CliLeafWords(r)
      BY <1>9, <1>10, <1>12 DEF CliLeafWords
    <2>3. \A k \in 1 .. Len(lead) : Len(lead[k]) <= Len(q)
      BY <1>6, <1>11
    <2>4. QED
      BY <1>3, <1>11, <2>1, <2>2, <2>3 DEF CliLeavesGood
  <1>13. CASE CtIsLeaf(q)
    <2> DEFINE more == Append(lead, q)
    <2>1. CliLeaves(q) = more
      BY <1>8, <1>13 DEF lead
    <2>2. /\ more \in Seq(Seq(S)) /\ Len(more) = Len(lead) + 1
          /\ \A k \in 1 .. Len(lead) : more[k] = lead[k]
          /\ more[Len(lead) + 1] = q
      BY <1>3, <1>11, AppendProperties
    <2> HIDE DEF more
    <2>3. \A k \in 1 .. Len(more) : k \in 1 .. Len(lead) \/ k = Len(lead) + 1
      BY <1>11, <2>2
    <2>4. \A k \in 1 .. Len(more) : CtIsLeaf(more[k]) /\ Len(more[k]) <= Len(q)
      <3>1. ASSUME NEW k \in 1 .. Len(lead) PROVE CtIsLeaf(more[k]) /\ Len(more[k]) <= Len(q)
        <4>1. more[k] = lead[k]
          BY <2>2
        <4>2. CtIsLeaf(lead[k]) /\ Len(lead[k]) <= Len(r) /\ Len(lead[k]) \in Nat
          BY <1>11
        <4>3. Len(lead[k]) <= Len(q)
          BY <1>6, <4>2
        <4>4. QED
          BY <4>1, <4>2, <4>3, Zenon
      <3>2. CtIsLeaf(more[Len(lead) + 1]) /\ Len(more[Len(lead) + 1]) <= Len(q)
        <4>1. Len(q) <= Len(q)
          BY <1>6
        <4>2. QED
          BY <4>1, <1>13, <2>2, Zenon
      <3>3. QED
        BY <2>3, <3>1, <3>2, Zenon
    <2>5. CliWordsOf(more) = CliWordsOf(lead) \cup {w}
      <3>1. Last(q) = w
        BY DEF w
      <3>2. \A k \in 1 .. Len(lead) : k \in 1 .. Len(more)
        BY <1>11, <2>2
      <3>3. Len(lead) + 1 \in 1 .. Len(more)
        BY <1>11, <2>2
      <3>4. QED
        BY <2>2, <2>3, <3>1, <3>2, <3>3 DEF CliWordsOf
    <2>6. CliLeafWords(q) = CliLeafWords(r) \cup {w}
      BY <1>9, <1>10, <1>13 DEF CliLeafWords
    <2>7. CliWordsOf(more) = CliLeafWords(q)
      BY <1>11, <2>5, <2>6
    <2>9. CliLeavesGood(S, q)
      BY <2>1, <2>2, <2>4, <2>7, Zenon DEF CliLeavesGood
    <2>8. QED
      BY <1>3, <2>9
  <1>14. QED
    BY <1>12, <1>13

-----------------------------------------------------------------------------
(* The command tree: every parameter hangs from another one, and its leaves *)
(* are those of that one and its own.                                       *)

CtKeyword ==
    { "adjacency", "all", "arp", "cd", "cd..", "clear", "cls", "cmdtree", "commands",
      "config", "console", "debug", "detail", "do", "enable", "ero", "events", "flag",
      "global", "help", "history", "interface", "ip-address", "isis", "layer2-map", "load",
      "log-file", "log-status", "lsdb", "mac", "metric", "name", "no", "no-stdout", "node",
      "overload", "ping", "protocol", "registered", "repeat", "resolve-arp", "route", "rt",
      "run", "show", "spf", "spf-result", "statistics", "stdout", "supportsave", "term",
      "timeout", "topology", "traceoptions", "ut" }
CtWord == CtKeyword \cup CtLeafWord

\* Tuples, put together and taken apart.
LEMMA CtTuples ==
    /\ \A a : Front(<<a>>) = <<>>
    /\ \A a, b : Front(<<a, b>>) = <<a>> /\ <<a>> \o <<b>> = <<a, b>>
    /\ \A a, b, c : Front(<<a, b, c>>) = <<a, b>> /\ <<a, b>> \o <<c>> = <<a, b, c>>
    /\ \A a, b, c, d : Front(<<a, b, c, d>>) = <<a, b, c>>
  <1>1. ASSUME NEW a PROVE Front(<<a>>) = <<>>
    <2>1. Front(<<a>>) = SubSeq(<<a>>, 1, 0)
      BY DEF Front
    <2>2. QED
      BY <2>1, SubSeqEmpty
  <1>2. ASSUME NEW a, NEW b PROVE Front(<<a, b>>) = <<a>> /\ <<a>> \o <<b>> = <<a, b>>
    <2> DEFINE S == {a, b}
    <2>1. <<a>> \in Seq(S) /\ <<a, b>> \in Seq(S) /\ b \in S
      OBVIOUS
    <2>2. Len(<<a>>) = 1 /\ Len(<<a, b>>) = 2
      OBVIOUS
    <2>3. Append(<<a>>, b) = <<a, b>>
      <3>1. /\ Append(<<a>>, b) \in Seq(S) /\ Len(Append(<<a>>, b)) = 2
            /\ Append(<<a>>, b)[1] = a /\ Append(<<a>>, b)[2] = b
        BY <2>1, <2>2, AppendProperties
      <3>2. \A i \in 1 .. 2 : Append(<<a>>, b)[i] = <<a, b>>[i]
        BY <3>1
      <3>3. QED
        BY <2>1, <2>2, <3>1, <3>2, SeqEqual
    <2>4. Front(Append(<<a>>, b)) = <<a>>
      BY <2>1, CliSubAppend
    <2>5. Append(<<a>>, b) = <<a>> \o <<b>>
      BY <2>1, AppendIsConcat
    <2>6. QED
      BY <2>3, <2>4, <2>5, Zenon
  <1>3. ASSUME NEW a, NEW b, NEW c
        PROVE Front(<<a, b, c>>) = <<a, b>> /\ <<a, b>> \o <<c>> = <<a, b, c>>
    <2> DEFINE S == {a, b, c}
    <2>1. <<a, b>> \in Seq(S) /\ <<a, b, c>> \in Seq(S) /\ c \in S
      OBVIOUS
    <2>2. Len(<<a, b>>) = 2 /\ Len(<<a, b, c>>) = 3
      OBVIOUS
    <2>3. Append(<<a, b>>, c) = <<a, b, c>>
      <3>1. /\ Append(<<a, b>>, c) \in Seq(S) /\ Len(Append(<<a, b>>, c)) = 3
            /\ Append(<<a, b>>, c)[1] = a /\ Append(<<a, b>>, c)[2] = b
            /\ Append(<<a, b>>, c)[3] = c
        BY <2>1, <2>2, AppendProperties
      <3>2. \A i \in 1 .. 3 : Append(<<a, b>>, c)[i] = <<a, b, c>>[i]
        BY <3>1
      <3>3. QED
        BY <2>1, <2>2, <3>1, <3>2, SeqEqual
    <2>4. Front(Append(<<a, b>>, c)) = <<a, b>>
      BY <2>1, CliSubAppend
    <2>5. Append(<<a, b>>, c) = <<a, b>> \o <<c>>
      BY <2>1, AppendIsConcat
    <2>6. QED
      BY <2>3, <2>4, <2>5, Zenon
  <1>4. ASSUME NEW a, NEW b, NEW c, NEW d PROVE Front(<<a, b, c, d>>) = <<a, b, c>>
    <2> DEFINE S == {a, b, c, d}
    <2>1. <<a, b, c>> \in Seq(S) /\ <<a, b, c, d>> \in Seq(S) /\ d \in S
      OBVIOUS
    <2>2. Len(<<a, b, c>>) = 3 /\ Len(<<a, b, c, d>>) = 4
      OBVIOUS
    <2>3. Append(<<a, b, c>>, d) = <<a, b, c, d>>
      <3>1. /\ Append(<<a, b, c>>, d) \in Seq(S) /\ Len(Append(<<a, b, c>>, d)) = 4
            /\ Append(<<a, b, c>>, d)[1] = a /\ Append(<<a, b, c>>, d)[2] = b
            /\ Append(<<a, b, c>>, d)[3] = c /\ Append(<<a, b, c>>, d)[4] = d
        BY <2>1, <2>2, AppendProperties
      <3>2. \A i \in 1 .. 4 : Append(<<a, b, c>>, d)[i] = <<a, b, c, d>>[i]
        BY <3>1
      <3>3. QED
        BY <2>1, <2>2, <3>1, <3>2, SeqEqual
    <2>4. Front(Append(<<a, b, c>>, d)) = <<a, b, c>>
      BY <2>1, CliSubAppend
    <2>5. QED
      BY <2>3, <2>4, Zenon
  <1>5. QED
    BY <1>1, <1>2, <1>3, <1>4, Zenon

LEMMA CtFrontConcat ==
    ASSUME NEW S, NEW x \in Seq(S), NEW w \in Seq(S), w # <<>>
    PROVE  Front(x \o w) = x \o Front(w) /\ x \o w # <<>>
  <1>1. PICK v \in Seq(S), e \in S : w = Append(v, e)
    BY SequenceEmptyOrAppend
  <1>2. Front(w) = v
    BY <1>1, CliSubAppend
  <1>3. w = v \o <<e>> /\ <<e>> \in Seq(S)
    BY <1>1, AppendIsConcat
  <1>4. x \o v \in Seq(S) /\ (x \o v) \o <<e>> = x \o (v \o <<e>>)
    BY <1>3, ConcatProperties, ConcatAssociative
  <1>5. Append(x \o v, e) = (x \o v) \o <<e>>
    BY <1>4, AppendIsConcat
  <1>6. Front(Append(x \o v, e)) = x \o v /\ Append(x \o v, e) # <<>>
    <2> DEFINE y == x \o v
    <2>1. y \in Seq(S)
      BY <1>4
    <2> HIDE DEF y
    <2>2. Front(Append(y, e)) = y /\ Append(y, e) # <<>>
      BY <2>1, CliSubAppend, AppendProperties
    <2>3. QED
      BY <2>2 DEF y
  <1>7. x \o w = Append(x \o v, e)
    <2>1. x \o w = x \o (v \o <<e>>)
      BY <1>3
    <2>2. QED
      BY <2>1, <1>4, <1>5, Zenon
  <1>8. Front(x \o w) = x \o v /\ x \o w # <<>>
    BY <1>6, <1>7, Zenon
  <1>9. QED
    BY <1>2, <1>8, Zenon

\* The parameters of G have names, and hang from parameters.
CtRooted(G) == G \subseteq Seq(CtWord) /\ <<>> \notin G /\ \A p \in G : Front(p) \in CtParam

\* What follows a word of W is there with what leads to it.
CtClosed(W) == W \subseteq Seq(CtWord) /\ \A w \in W : w = <<>> \/ Front(w) = <<>> \/ Front(w) \in W

LEMMA CtUnderRooted ==
    ASSUME NEW x \in Seq(CtWord), x # <<>>, x \in CtParam, Front(x) \in CtParam,
           NEW W, CtClosed(W), CtUnder(x, W) \subseteq CtParam
    PROVE  CtRooted(CtUnder(x, W))
  <1>1. ASSUME NEW p \in CtUnder(x, W)
        PROVE  p \in Seq(CtWord) /\ p # <<>> /\ Front(p) \in CtParam
    <2>1. PICK w \in W : p = x \o w
      BY DEF CtUnder
    <2>2. w \in Seq(CtWord)
      BY DEF CtClosed
    <2>3. CASE w = <<>>
      <3>1. p = x
        BY <2>1, <2>3, ConcatEmptySeq
      <3>2. QED
        BY <3>1
    <2>4. CASE w # <<>>
      <3>1. Front(p) = x \o Front(w) /\ p # <<>> /\ p \in Seq(CtWord)
        BY <2>1, <2>2, <2>4, CtFrontConcat, ConcatProperties
      <3>2. CASE Front(w) = <<>>
        BY <3>1, <3>2, ConcatEmptySeq
      <3>3. CASE Front(w) \in W
        <4>1. x \o Front(w) \in CtUnder(x, W)
          BY <3>3 DEF CtUnder
        <4>2. QED
          BY <3>1, <4>1
      <3>4. QED
        BY <2>4, <3>2, <3>3 DEF CtClosed
    <2>5. QED
      BY <2>3, <2>4
  <1>2. QED
    BY <1>1 DEF CtRooted

LEMMA CtKeywords == CtKeyword \subseteq CtWord /\ CtLeafWord \subseteq CtWord
  BY DEF CtWord

LEMMA CtBuiltinRooted == CtRooted(CtBuiltin)
  <1>1. CtBuiltin \subseteq CtParam
    BY DEF CtParam, CtCommand
  <1>2. CtRoot \in CtParam /\ CtRoot = <<>>
    BY DEF CtParam, CtRoot
  <1>3. CtRooted(CtShowHook)
    <2>1. CtShowHook \subseteq Seq(CtWord) /\ <<>> \notin CtShowHook
      BY DEF CtShowHook, CtWord, CtKeyword, CtLeafWord
    <2>2. \A p \in CtShowHook : Front(p) = <<>> \/ Front(p) \in CtShowHook
      BY CtTuples DEF CtShowHook
    <2>3. QED
      BY <1>1, <1>2, <2>1, <2>2 DEF CtRooted, CtBuiltin
  <1>4. CtRooted(CtDebugHook)
    <2>1. CtDebugHook \subseteq Seq(CtWord) /\ <<>> \notin CtDebugHook
      BY DEF CtDebugHook, CtWord, CtKeyword, CtLeafWord
    <2>2. \A p \in CtDebugHook : Front(p) = <<>> \/ Front(p) \in CtDebugHook
      BY CtTuples DEF CtDebugHook
    <2>3. QED
      BY <1>1, <1>2, <2>1, <2>2 DEF CtRooted, CtBuiltin
  <1>5. CtRooted(CtConfigHook)
    <2>1. CtConfigHook \subseteq Seq(CtWord) /\ <<>> \notin CtConfigHook
      BY DEF CtConfigHook, CtWord, CtKeyword, CtLeafWord
    <2>2. \A p \in CtConfigHook : Front(p) = <<>> \/ Front(p) \in CtConfigHook
      BY CtTuples DEF CtConfigHook
    <2>3. QED
      BY <1>1, <1>2, <2>1, <2>2 DEF CtRooted, CtBuiltin
  <1>6. CtRooted(CtRunHook)
    <2>1. CtRunHook \subseteq Seq(CtWord) /\ <<>> \notin CtRunHook
      BY DEF CtRunHook, CtWord, CtKeyword, CtLeafWord
    <2>2. \A p \in CtRunHook : Front(p) = <<>> \/ Front(p) \in CtRunHook
      BY CtTuples DEF CtRunHook
    <2>3. QED
      BY <1>1, <1>2, <2>1, <2>2 DEF CtRooted, CtBuiltin
  <1>7. CtRooted(CtHidden)
    <2>1. CtHidden \subseteq Seq(CtWord) /\ <<>> \notin CtHidden
      BY DEF CtHidden, CtWord, CtKeyword
    <2>2. \A p \in CtHidden : Front(p) = <<>>
      BY CtTuples DEF CtHidden
    <2>3. QED
      BY <1>1, <1>2, <2>1, <2>2 DEF CtRooted, CtBuiltin
  <1>8. QED
    BY <1>3, <1>4, <1>5, <1>6, <1>7 DEF CtRooted, CtBuiltin

\* A parameter one word or two below a parameter.
LEMMA CtHang ==
    ASSUME NEW x \in Seq(CtWord), NEW a \in CtWord
    PROVE  x \o <<a>> \in Seq(CtWord) /\ x \o <<a>> # <<>> /\ Front(x \o <<a>>) = x
  <1>1. <<a>> \in Seq(CtWord) /\ <<a>> # <<>>
    OBVIOUS
  <1>2. x \o <<a>> \in Seq(CtWord)
    BY <1>1, ConcatProperties
  <1>3. Front(x \o <<a>>) = x \o Front(<<a>>) /\ x \o <<a>> # <<>>
    BY <1>1, CtFrontConcat
  <1>4. x \o Front(<<a>>) = x
    BY CtTuples, ConcatEmptySeq
  <1>5. QED
    BY <1>2, <1>3, <1>4

LEMMA CtUnderSelf ==
    ASSUME NEW x \in Seq(CtWord), NEW W, <<>> \in W
    PROVE  x \in CtUnder(x, W)
  BY ConcatEmptySeq DEF CtUnder

\* The nodes of the four branches.
LEMMA CtNodes ==
    /\ CtShowNode \in CtShow /\ CtRunNode \in CtRun
    /\ CtClearNode \in CtClear /\ CtConfigNode \in CtConfig
    /\ Front(CtShowNode) \in CtShow /\ Front(CtRunNode) \in CtRun
    /\ Front(CtClearNode) \in CtClear /\ Front(CtConfigNode) \in CtConfig
    /\ {CtShowNode, CtRunNode, CtClearNode, CtConfigNode} \subseteq Seq(CtWord) \ {<<>>}
  <1>1. {CtShowNode, CtRunNode, CtClearNode, CtConfigNode} \subseteq Seq(CtWord) \ {<<>>}
    BY DEF CtShowNode, CtRunNode, CtClearNode, CtConfigNode, CtWord, CtKeyword, CtLeafWord
  <1>2. /\ CtShowNode \in CtShow /\ CtRunNode \in CtRun
        /\ CtClearNode \in CtClear /\ CtConfigNode \in CtConfig
    <2>1. CtShowNode \in CtShow
      BY <1>1, CtUnderSelf DEF CtShow
    <2>2. CtRunNode \in CtRun
      BY <1>1, CtUnderSelf DEF CtRun
    <2>3. CtClearNode \in CtClear
      BY <1>1, CtUnderSelf DEF CtClear
    <2>4. CtConfigNode \in CtConfig
      BY <1>1, CtUnderSelf DEF CtConfig
    <2>5. QED
      BY <2>1, <2>2, <2>3, <2>4
  <1>3. /\ Front(CtShowNode) = <<"show">> \o <<"node">>
        /\ Front(CtRunNode) = <<"run">> \o <<"node">>
        /\ Front(CtClearNode) = <<"clear">> \o <<"node">>
        /\ Front(CtConfigNode) = <<"config">> \o <<"node">>
    BY CtTuples DEF CtShowNode, CtRunNode, CtClearNode, CtConfigNode
  <1>4. /\ <<"show">> \o <<"node">> \in CtShow /\ <<"run">> \o <<"node">> \in CtRun
        /\ <<"clear">> \o <<"node">> \in CtClear /\ <<"config">> \o <<"node">> \in CtConfig
    BY DEF CtShow, CtRun, CtClear, CtConfig, CtUnder
  <1>5. QED
    BY <1>1, <1>2, <1>3, <1>4

LEMMA CtGroups ==
    /\ CtBuiltin \subseteq CtParam /\ CtShow \subseteq CtParam /\ CtRun \subseteq CtParam
    /\ CtClear \subseteq CtParam /\ CtConfig \subseteq CtParam /\ CtRoute \subseteq CtParam
    /\ CtTraceOptions \subseteq CtParam /\ CtIsisConfig \subseteq CtParam
    /\ CtIsisShow \subseteq CtParam /\ CtIsisClear \subseteq CtParam
    /\ CtNo \subseteq CtParam /\ CtCommand \subseteq CtParam
    /\ CtRoot \in CtParam /\ CtDo \in CtParam /\ CtRoot = <<>>
  BY DEF CtParam, CtCommand, CtRoot

\* The four keywords everything hangs from.
LEMMA CtBranches ==
    \A w \in {"show", "run", "clear", "config"} :
        <<w>> \in CtParam /\ <<w>> \in Seq(CtWord) /\ <<w>> # <<>> /\ Front(<<w>>) \in CtParam
  <1>1. \A w \in {"show", "run", "clear", "config"} : <<w>> \in CtBuiltin
    BY DEF CtBuiltin, CtShowHook, CtConfigHook, CtRunHook
  <1>2. \A w \in {"show", "run", "clear", "config"} : <<w>> \in Seq(CtWord) /\ <<w>> # <<>>
    BY DEF CtWord, CtKeyword
  <1>3. QED
    BY <1>1, <1>2, CtTuples, CtGroups

LEMMA CtShowRooted == CtRooted(CtShow)
  <1>1. CtRooted(CtUnder(<<"show">>, {<<"topology">>, <<"topology", "node">>,
                <<"topology", "node", "<node-name>">>, <<"node">>}))
    <2> DEFINE W == {<<"topology">>, <<"topology", "node">>,
                <<"topology", "node", "<node-name>">>, <<"node">>}
    <2>1. CtClosed(W)
      BY CtTuples DEF CtClosed, CtWord, CtKeyword, CtLeafWord
    <2>2. CtUnder(<<"show">>, W) \subseteq CtParam
      BY CtGroups DEF CtShow
    <2> HIDE DEF W
    <2>3. CtRooted(CtUnder(<<"show">>, W))
      BY <2>1, <2>2, CtUnderRooted, CtBranches, CtNodes, CtGroups
    <2>4. QED
      BY <2>3 DEF W
  <1>2. CtRooted(CtUnder(CtShowNode, { <<>>, <<"protocol">>, <<"log-status">>, <<"arp">>, <<"mac">>, <<"rt">>,
                <<"interface">>, <<"interface", "statistics">>,
                <<"interface", "statistics", "protocol">>, <<"spf-result">> }))
    <2> DEFINE W == { <<>>, <<"protocol">>, <<"log-status">>, <<"arp">>, <<"mac">>, <<"rt">>,
                <<"interface">>, <<"interface", "statistics">>,
                <<"interface", "statistics", "protocol">>, <<"spf-result">> }
    <2>1. CtClosed(W)
      BY CtTuples DEF CtClosed, CtWord, CtKeyword, CtLeafWord
    <2>2. CtUnder(CtShowNode, W) \subseteq CtParam
      BY CtGroups DEF CtShow
    <2> HIDE DEF W
    <2>3. CtRooted(CtUnder(CtShowNode, W))
      BY <2>1, <2>2, CtUnderRooted, CtBranches, CtNodes, CtGroups
    <2>4. QED
      BY <2>3 DEF W
  <1>3. QED
    BY <1>1, <1>2 DEF CtRooted, CtShow

LEMMA CtRunRooted == CtRooted(CtRun)
  <1>1. CtRooted(CtUnder(<<"run">>, {<<"spf">>, <<"spf", "all">>, <<"node">>}))
    <2> DEFINE W == {<<"spf">>, <<"spf", "all">>, <<"node">>}
    <2>1. CtClosed(W)
      BY CtTuples DEF CtClosed, CtWord, CtKeyword, CtLeafWord
    <2>2. CtUnder(<<"run">>, W) \subseteq CtParam
      BY CtGroups DEF CtRun
    <2> HIDE DEF W
    <2>3. CtRooted(CtUnder(<<"run">>, W))
      BY <2>1, <2>2, CtUnderRooted, CtBranches, CtNodes, CtGroups
    <2>4. QED
      BY <2>3 DEF W
  <1>2. CtRooted(CtUnder(CtRunNode, { <<>>, <<"ping">>, <<"ping", "<ip-address>">>, <<"ping", "<ip-address>", "ero">>,
                <<"ping", "<ip-address>", "ero", "<ero-ip-address>">>,
                <<"resolve-arp">>, <<"resolve-arp", "<ip-address>">>, <<"spf">> }))
    <2> DEFINE W == { <<>>, <<"ping">>, <<"ping", "<ip-address>">>, <<"ping", "<ip-address>", "ero">>,
                <<"ping", "<ip-address>", "ero", "<ero-ip-address>">>,
                <<"resolve-arp">>, <<"resolve-arp", "<ip-address>">>, <<"spf">> }
    <2>1. CtClosed(W)
      BY CtTuples DEF CtClosed, CtWord, CtKeyword, CtLeafWord
    <2>2. CtUnder(CtRunNode, W) \subseteq CtParam
      BY CtGroups DEF CtRun
    <2> HIDE DEF W
    <2>3. CtRooted(CtUnder(CtRunNode, W))
      BY <2>1, <2>2, CtUnderRooted, CtBranches, CtNodes, CtGroups
    <2>4. QED
      BY <2>3 DEF W
  <1>3. QED
    BY <1>1, <1>2 DEF CtRooted, CtRun

LEMMA CtClearRooted == CtRooted(CtClear)
  <1>1. CtRooted(CtUnder(<<"clear">>, {<<"log-file">>, <<"node">>}))
    <2> DEFINE W == {<<"log-file">>, <<"node">>}
    <2>1. CtClosed(W)
      BY CtTuples DEF CtClosed, CtWord, CtKeyword, CtLeafWord
    <2>2. CtUnder(<<"clear">>, W) \subseteq CtParam
      BY CtGroups DEF CtClear
    <2> HIDE DEF W
    <2>3. CtRooted(CtUnder(<<"clear">>, W))
      BY <2>1, <2>2, CtUnderRooted, CtBranches, CtNodes, CtGroups
    <2>4. QED
      BY <2>3 DEF W
  <1>2. CtRooted(CtUnder(CtClearNode, {<<>>, <<"protocol">>}))
    <2> DEFINE W == {<<>>, <<"protocol">>}
    <2>1. CtClosed(W)
      BY CtTuples DEF CtClosed, CtWord, CtKeyword, CtLeafWord
    <2>2. CtUnder(CtClearNode, W) \subseteq CtParam
      BY CtGroups DEF CtClear
    <2> HIDE DEF W
    <2>3. CtRooted(CtUnder(CtClearNode, W))
      BY <2>1, <2>2, CtUnderRooted, CtBranches, CtNodes, CtGroups
    <2>4. QED
      BY <2>3 DEF W
  <1>3. QED
    BY <1>1, <1>2 DEF CtRooted, CtClear

LEMMA CtInterfaceNamed ==
    /\ CtInterface \in Seq(CtWord) /\ CtInterface # <<>>
    /\ CtInterface \in CtConfig /\ Front(CtInterface) \in CtConfig
  <1>1. <<"interface", "<if-name>">> \in Seq(CtWord) /\ <<"interface", "<if-name>">> # <<>>
    BY DEF CtWord, CtKeyword, CtLeafWord
  <1>2. /\ CtInterface \in Seq(CtWord) /\ CtInterface # <<>>
        /\ Front(CtInterface) = CtConfigNode \o Front(<<"interface", "<if-name>">>)
    BY <1>1, CtNodes, CtFrontConcat, ConcatProperties DEF CtInterface
  <1>3. CtInterface \in CtConfig
    BY <1>2, CtUnderSelf DEF CtConfig
  <1>4. CtConfigNode \o <<"interface">> \in CtConfig
    BY DEF CtConfig, CtUnder
  <1>5. QED
    BY <1>2, <1>3, <1>4, CtTuples

\* The other parameters that have trees of their own.
LEMMA CtHooks ==
    /\ \A x \in {CtConfigNode \o <<"route">>, CtConfigNode \o <<"traceoptions">>,
                 CtInterface \o <<"traceoptions">>, CtConfigNode \o <<"protocol", "isis">>,
                 CtShowNode \o <<"protocol", "isis">>, CtClearNode \o <<"protocol", "isis">>} :
         x \in Seq(CtWord) /\ x # <<>> /\ x \in CtParam /\ Front(x) \in CtParam
  <1>1. ASSUME NEW x \in Seq(CtWord), NEW a \in {"route", "traceoptions"}, x \in CtParam,
               x \o <<a>> \in CtParam
        PROVE  LET y == x \o <<a>> IN
               y \in Seq(CtWord) /\ y # <<>> /\ y \in CtParam /\ Front(y) \in CtParam
    <2>1. a \in CtWord
      BY DEF CtWord, CtKeyword
    <2>2. QED
      BY <1>1, <2>1, CtHang
  <1>2. CtConfigNode \o <<"route">> \in CtRoute
    <2>1. CtConfigNode \o <<"route">> \in Seq(CtWord)
      BY CtHang, CtNodes DEF CtWord, CtKeyword
    <2>2. QED
      BY <2>1, CtUnderSelf DEF CtRoute
  <1>3. /\ CtConfigNode \o <<"traceoptions">> \in CtTraceOptions
        /\ CtInterface \o <<"traceoptions">> \in CtTraceOptions
    <2>1. "traceoptions" \in CtWord
      BY DEF CtWord, CtKeyword
    <2>2. \A x \in {CtConfigNode, CtInterface} : x \o <<"traceoptions">> \in Seq(CtWord)
      BY <2>1, CtHang, CtNodes, CtInterfaceNamed
    <2>3. \A x \in {CtConfigNode, CtInterface} :
             x \o <<"traceoptions">> \in
               CtUnder(x \o <<"traceoptions">>, {<<>>, <<"flag">>, <<"flag", "<flag-val>">>})
      BY <2>2, CtUnderSelf
    <2>4. QED
      BY <2>3 DEF CtTraceOptions
  <1>4. ASSUME NEW x \in Seq(CtWord), x \o <<"protocol">> \in CtParam, NEW W, <<>> \in W,
               CtUnder(x \o <<"protocol", "isis">>, W) \subseteq CtParam
        PROVE  LET y == x \o <<"protocol", "isis">> IN
               y \in Seq(CtWord) /\ y # <<>> /\ y \in CtParam /\ Front(y) \in CtParam
    <2> DEFINE w == <<"protocol", "isis">>
    <2>1. w \in Seq(CtWord) /\ w # <<>> /\ Front(w) = <<"protocol">>
      BY CtTuples DEF CtWord, CtKeyword
    <2> HIDE DEF w
    <2>2. x \o w \in Seq(CtWord) /\ x \o w # <<>> /\ Front(x \o w) = x \o <<"protocol">>
      <3>1. x \o w \in Seq(CtWord)
        BY <2>1, ConcatProperties
      <3>2. Front(x \o w) = x \o Front(w) /\ x \o w # <<>>
        BY <2>1, CtFrontConcat
      <3>3. QED
        BY <2>1, <3>1, <3>2, Zenon
    <2>3. x \o w \in CtParam
      BY <1>4, <2>2, CtUnderSelf DEF w
    <2>4. QED
      BY <1>4, <2>2, <2>3 DEF w
  <1>5. /\ CtConfigNode \o <<"protocol">> \in CtParam
        /\ CtShowNode \o <<"protocol">> \in CtParam
        /\ CtClearNode \o <<"protocol">> \in CtParam
    BY CtGroups DEF CtConfig, CtShow, CtClear, CtUnder
  <1>6. LET y == CtConfigNode \o <<"protocol", "isis">> IN
        y \in Seq(CtWord) /\ y # <<>> /\ y \in CtParam /\ Front(y) \in CtParam
    BY <1>4, <1>5, CtNodes, CtGroups DEF CtIsisConfig
  <1>7. LET y == CtShowNode \o <<"protocol", "isis">> IN
        y \in Seq(CtWord) /\ y # <<>> /\ y \in CtParam /\ Front(y) \in CtParam
    BY <1>4, <1>5, CtNodes, CtGroups DEF CtIsisShow
  <1>8. LET y == CtClearNode \o <<"protocol", "isis">> IN
        y \in Seq(CtWord) /\ y # <<>> /\ y \in CtParam /\ Front(y) \in CtParam
    BY <1>4, <1>5, CtNodes, CtGroups DEF CtIsisClear
  <1>9. QED
    BY <1>1, <1>2, <1>3, <1>6, <1>7, <1>8, CtNodes, CtInterfaceNamed, CtGroups

LEMMA CtConfigRooted == CtRooted(CtConfig)
  <1>1. CtRooted(CtUnder(<<"config">>, {<<"global">>, <<"global", "stdout">>, <<"global", "no-stdout">>,
                <<"node">>}))
    <2> DEFINE W == {<<"global">>, <<"global", "stdout">>, <<"global", "no-stdout">>,
                <<"node">>}
    <2>1. CtClosed(W)
      BY CtTuples DEF CtClosed, CtWord, CtKeyword, CtLeafWord
    <2>2. CtUnder(<<"config">>, W) \subseteq CtParam
      BY CtGroups DEF CtConfig
    <2> HIDE DEF W
    <2>3. CtRooted(CtUnder(<<"config">>, W))
      BY <2>1, <2>2, CtUnderRooted, CtBranches, CtNodes, CtInterfaceNamed, CtHooks, CtGroups
    <2>4. QED
      BY <2>3 DEF W
  <1>2. CtRooted(CtUnder(CtConfigNode, {<<>>, <<"protocol">>, <<"interface">>}))
    <2> DEFINE W == {<<>>, <<"protocol">>, <<"interface">>}
    <2>1. CtClosed(W)
      BY CtTuples DEF CtClosed, CtWord, CtKeyword, CtLeafWord
    <2>2. CtUnder(CtConfigNode, W) \subseteq CtParam
      BY CtGroups DEF CtConfig
    <2> HIDE DEF W
    <2>3. CtRooted(CtUnder(CtConfigNode, W))
      BY <2>1, <2>2, CtUnderRooted, CtBranches, CtNodes, CtInterfaceNamed, CtHooks, CtGroups
    <2>4. QED
      BY <2>3 DEF W
  <1>3. CtRooted(CtUnder(CtInterface, { <<>>, <<"<if-up-down>">>, <<"metric">>, <<"metric", "<metric-val>">>,
                <<"ip-address">>, <<"ip-address", "<intf-ip-address>">>,
                <<"ip-address", "<intf-ip-address>", "<mask>">> }))
    <2> DEFINE W == { <<>>, <<"<if-up-down>">>, <<"metric">>, <<"metric", "<metric-val>">>,
                <<"ip-address">>, <<"ip-address", "<intf-ip-address>">>,
                <<"ip-address", "<intf-ip-address>", "<mask>">> }
    <2>1. CtClosed(W)
      BY CtTuples DEF CtClosed, CtWord, CtKeyword, CtLeafWord
    <2>2. CtUnder(CtInterface, W) \subseteq CtParam
      BY CtGroups DEF CtConfig
    <2> HIDE DEF W
    <2>3. CtRooted(CtUnder(CtInterface, W))
      BY <2>1, <2>2, CtUnderRooted, CtBranches, CtNodes, CtInterfaceNamed, CtHooks, CtGroups
    <2>4. QED
      BY <2>3 DEF W
  <1>4. QED
    BY <1>1, <1>2, <1>3 DEF CtRooted, CtConfig

LEMMA CtRouteRooted == CtRooted(CtRoute)
  <1>1. CtRooted(CtUnder(CtConfigNode \o <<"route">>, { <<>>, <<"<ip-address>">>, <<"<ip-address>", "<mask>">>,
                <<"<ip-address>", "<mask>", "<gw-ip>">>,
                <<"<ip-address>", "<mask>", "<gw-ip>", "<oif>">> }))
    <2> DEFINE W == { <<>>, <<"<ip-address>">>, <<"<ip-address>", "<mask>">>,
                <<"<ip-address>", "<mask>", "<gw-ip>">>,
                <<"<ip-address>", "<mask>", "<gw-ip>", "<oif>">> }
    <2>1. CtClosed(W)
      BY CtTuples DEF CtClosed, CtWord, CtKeyword, CtLeafWord
    <2>2. CtUnder(CtConfigNode \o <<"route">>, W) \subseteq CtParam
      BY CtGroups DEF CtRoute
    <2> HIDE DEF W
    <2>3. CtRooted(CtUnder(CtConfigNode \o <<"route">>, W))
      BY <2>1, <2>2, CtUnderRooted, CtBranches, CtNodes, CtInterfaceNamed, CtHooks, CtGroups
    <2>4. QED
      BY <2>3 DEF W
  <1>2. QED
    BY <1>1 DEF CtRooted, CtRoute

LEMMA CtIsisConfigRooted == CtRooted(CtIsisConfig)
  <1>1. CtRooted(CtUnder(CtConfigNode \o <<"protocol", "isis">>, { <<>>, <<"layer2-map">>, <<"overload">>, <<"overload", "timeout">>,
                <<"overload", "timeout", "<timeout-val>">>,
                <<"interface">>, <<"interface", "all">>, <<"interface", "<if-name>">> }))
    <2> DEFINE W == { <<>>, <<"layer2-map">>, <<"overload">>, <<"overload", "timeout">>,
                <<"overload", "timeout", "<timeout-val>">>,
                <<"interface">>, <<"interface", "all">>, <<"interface", "<if-name>">> }
    <2>1. CtClosed(W)
      BY CtTuples DEF CtClosed, CtWord, CtKeyword, CtLeafWord
    <2>2. CtUnder(CtConfigNode \o <<"protocol", "isis">>, W) \subseteq CtParam
      BY CtGroups DEF CtIsisConfig
    <2> HIDE DEF W
    <2>3. CtRooted(CtUnder(CtConfigNode \o <<"protocol", "isis">>, W))
      BY <2>1, <2>2, CtUnderRooted, CtBranches, CtNodes, CtInterfaceNamed, CtHooks, CtGroups
    <2>4. QED
      BY <2>3 DEF W
  <1>2. QED
    BY <1>1 DEF CtRooted, CtIsisConfig

LEMMA CtIsisShowRooted == CtRooted(CtIsisShow)
  <1>1. CtRooted(CtUnder(CtShowNode \o <<"protocol", "isis">>, { <<>>, <<"interface">>, <<"interface", "<if-name>">>, <<"lsdb">>,
                <<"lsdb", "detail">>, <<"lsdb", "<rtr-id>">>, <<"adjacency">>, <<"events">> }))
    <2> DEFINE W == { <<>>, <<"interface">>, <<"interface", "<if-name>">>, <<"lsdb">>,
                <<"lsdb", "detail">>, <<"lsdb", "<rtr-id>">>, <<"adjacency">>, <<"events">> }
    <2>1. CtClosed(W)
      BY CtTuples DEF CtClosed, CtWord, CtKeyword, CtLeafWord
    <2>2. CtUnder(CtShowNode \o <<"protocol", "isis">>, W) \subseteq CtParam
      BY CtGroups DEF CtIsisShow
    <2> HIDE DEF W
    <2>3. CtRooted(CtUnder(CtShowNode \o <<"protocol", "isis">>, W))
      BY <2>1, <2>2, CtUnderRooted, CtBranches, CtNodes, CtInterfaceNamed, CtHooks, CtGroups
    <2>4. QED
      BY <2>3 DEF W
  <1>2. QED
    BY <1>1 DEF CtRooted, CtIsisShow

LEMMA CtIsisClearRooted == CtRooted(CtIsisClear)
  <1>1. CtRooted(CtUnder(CtClearNode \o <<"protocol", "isis">>, {<<>>, <<"adjacency">>, <<"lsdb">>}))
    <2> DEFINE W == {<<>>, <<"adjacency">>, <<"lsdb">>}
    <2>1. CtClosed(W)
      BY CtTuples DEF CtClosed, CtWord, CtKeyword, CtLeafWord
    <2>2. CtUnder(CtClearNode \o <<"protocol", "isis">>, W) \subseteq CtParam
      BY CtGroups DEF CtIsisClear
    <2> HIDE DEF W
    <2>3. CtRooted(CtUnder(CtClearNode \o <<"protocol", "isis">>, W))
      BY <2>1, <2>2, CtUnderRooted, CtBranches, CtNodes, CtInterfaceNamed, CtHooks, CtGroups
    <2>4. QED
      BY <2>3 DEF W
  <1>2. QED
    BY <1>1 DEF CtRooted, CtIsisClear

LEMMA CtTraceOptionsRooted == CtRooted(CtTraceOptions)
  <1>1. CtRooted(CtUnder(CtConfigNode \o <<"traceoptions">>, {<<>>, <<"flag">>, <<"flag", "<flag-val>">>}))
    <2> DEFINE W == {<<>>, <<"flag">>, <<"flag", "<flag-val>">>}
    <2>1. CtClosed(W)
      BY CtTuples DEF CtClosed, CtWord, CtKeyword, CtLeafWord
    <2>2. CtUnder(CtConfigNode \o <<"traceoptions">>, W) \subseteq CtParam
      BY CtGroups DEF CtTraceOptions
    <2> HIDE DEF W
    <2>3. CtRooted(CtUnder(CtConfigNode \o <<"traceoptions">>, W))
      BY <2>1, <2>2, CtUnderRooted, CtBranches, CtNodes, CtInterfaceNamed, CtHooks, CtGroups
    <2>4. QED
      BY <2>3 DEF W
  <1>2. CtRooted(CtUnder(CtInterface \o <<"traceoptions">>, {<<>>, <<"flag">>, <<"flag", "<flag-val>">>}))
    <2> DEFINE W == {<<>>, <<"flag">>, <<"flag", "<flag-val>">>}
    <2>1. CtClosed(W)
      BY CtTuples DEF CtClosed, CtWord, CtKeyword, CtLeafWord
    <2>2. CtUnder(CtInterface \o <<"traceoptions">>, W) \subseteq CtParam
      BY CtGroups DEF CtTraceOptions
    <2> HIDE DEF W
    <2>3. CtRooted(CtUnder(CtInterface \o <<"traceoptions">>, W))
      BY <2>1, <2>2, CtUnderRooted, CtBranches, CtNodes, CtInterfaceNamed, CtHooks, CtGroups
    <2>4. QED
      BY <2>3 DEF W
  <1>3. QED
    BY <1>1, <1>2 DEF CtRooted, CtTraceOptions

LEMMA CtCommandRooted == CtRooted(CtCommand)
  BY CtBuiltinRooted, CtShowRooted, CtRunRooted, CtClearRooted, CtConfigRooted, CtRouteRooted,
     CtTraceOptionsRooted, CtIsisConfigRooted, CtIsisShowRooted, CtIsisClearRooted
     DEF CtRooted, CtCommand

\* A negation hangs from the parameter it negates.
LEMMA CtNegations ==
    /\ CtNegated \subseteq CtCommand
    /\ \A p \in CtNo : p \in Seq(CtWord) /\ p # <<>> /\ Front(p) \in CtNegated /\ Last(p) = "no"
    /\ "no" \notin CtLeafWord
  <1>1. CtNegated \subseteq CtCommand
    <2>1. <<"config">> \in CtCommand
      BY DEF CtCommand, CtBuiltin, CtConfigHook
    <2>2. CtConfigNode \in CtCommand
      BY CtNodes DEF CtCommand
    <2>3. CtConfigNode \o <<"protocol">> \in CtCommand
      BY DEF CtCommand, CtConfig, CtUnder
    <2>4. CtConfigNode \o <<"protocol", "isis", "overload">> \in CtCommand
      <3>1. (CtConfigNode \o <<"protocol", "isis">>) \o <<"overload">> \in CtIsisConfig
        BY DEF CtIsisConfig, CtUnder
      <3>2. <<"protocol", "isis">> \in Seq(CtWord) /\ <<"overload">> \in Seq(CtWord)
        BY DEF CtWord, CtKeyword
      <3>3. (CtConfigNode \o <<"protocol", "isis">>) \o <<"overload">> =
              CtConfigNode \o (<<"protocol", "isis">> \o <<"overload">>)
        BY <3>2, CtNodes, ConcatAssociative
      <3>4. <<"protocol", "isis">> \o <<"overload">> = <<"protocol", "isis", "overload">>
        BY CtTuples
      <3>5. CtConfigNode \o <<"protocol", "isis", "overload">> \in CtIsisConfig
        BY <3>1, <3>3, <3>4, Zenon
      <3>6. QED
        BY <3>5 DEF CtCommand
    <2>5. QED
      BY <2>1, <2>2, <2>3, <2>4 DEF CtNegated
  <1>2. "no" \notin CtLeafWord /\ "no" \in CtWord
    BY DEF CtLeafWord, CtWord, CtKeyword
  <1>3. ASSUME NEW p \in CtNo
        PROVE  p \in Seq(CtWord) /\ p # <<>> /\ Front(p) \in CtNegated /\ Last(p) = "no"
    <2>1. PICK q \in CtNegated : p = Append(q, "no")
      BY DEF CtNo
    <2>2. q \in Seq(CtWord)
      BY <1>1, CtCommandRooted DEF CtRooted
    <2>3. QED
      BY <1>2, <2>1, <2>2, CliSubAppend, AppendProperties
  <1>4. QED
    BY <1>1, <1>2, <1>3

\* Every parameter has a name, and but for the root a parent.
LEMMA CtTree ==
    /\ CtParam \subseteq Seq(CtWord)
    /\ \A p \in CtParam : p # <<>> => Front(p) \in CtParam
    /\ <<>> \notin CtCommand
  <1>1. CtDo \in Seq(CtWord) /\ Front(CtDo) = <<>>
    BY CtTuples DEF CtDo, CtWord, CtKeyword
  <1>2. \A p \in CtNo : Front(p) \in CtParam
    BY CtNegations, CtGroups
  <1>3. ASSUME NEW p \in CtParam PROVE p \in Seq(CtWord) /\ (p # <<>> => Front(p) \in CtParam)
    <2>1. CASE p = CtRoot
      <3>1. <<>> \in Seq(CtWord)
        OBVIOUS
      <3>2. QED
        BY <2>1, <3>1, CtGroups
    <2>2. CASE p = CtDo
      BY <2>2, <1>1, CtGroups
    <2>3. CASE p \in CtCommand
      BY <2>3, CtCommandRooted DEF CtRooted
    <2>4. CASE p \in CtNo
      BY <2>4, <1>2, CtNegations
    <2>5. QED
      BY <2>1, <2>2, <2>3, <2>4 DEF CtParam
  <1>4. QED
    BY <1>3, CtCommandRooted DEF CtRooted

LEMMA CtLeavesFront ==
    ASSUME NEW p \in Seq(CtWord), p # <<>>
    PROVE  /\ Front(p) \in Seq(CtWord) /\ Len(p) = Len(Front(p)) + 1 /\ Len(Front(p)) \in Nat
           /\ CliLeaves(p) = IF CtIsLeaf(p) THEN Append(CliLeaves(Front(p)), p)
                             ELSE CliLeaves(Front(p))
  <1> DEFINE r == Front(p)
             w == Last(p)
  <1>1. r \in Seq(CtWord) /\ w \in CtWord /\ p = Append(r, w) /\ Len(r) = Len(p) - 1
    BY CliSplit
  <1>2. Len(r) \in Nat /\ Len(p) \in Nat /\ Len(p) = Len(r) + 1
    BY <1>1, LenProperties
  <1> HIDE DEF r, w
  <1>3. CliLeaves(Append(r, w)) = IF CtIsLeaf(Append(r, w)) THEN Append(CliLeaves(r), Append(r, w))
                                  ELSE CliLeaves(r)
    BY <1>1, CliLeavesAppend
  <1>4. CliLeaves(p) = IF CtIsLeaf(p) THEN Append(CliLeaves(r), p) ELSE CliLeaves(r)
    BY <1>1, <1>3, Zenon
  <1>5. QED
    BY <1>1, <1>2, <1>4, Zenon DEF r

\* The leaves of a parameter are parameters, and none is below it.
CtLeafParam == {p \in CtParam : CtIsLeaf(p)}

LEMMA CtLeavesIn ==
    ASSUME NEW p \in CtParam
    PROVE  /\ CliLeaves(p) \in Seq(CtLeafParam)
           /\ \A l \in Range(CliLeaves(p)) : Len(l) \in Nat /\ Len(l) <= Len(p)
           /\ Len(CliLeaves(p)) \in Nat /\ Len(p) \in Nat
  <1> DEFINE T == {n \in Nat : \E q \in CtParam : Len(q) = n /\ CliLeaves(q) \notin Seq(CtLeafParam)}
  <1>1. p \in Seq(CtWord) /\ Len(p) \in Nat
    BY CtTree, LenProperties
  <1>2. T = {}
    <2>1. SUFFICES ASSUME T # {} PROVE FALSE
      OBVIOUS
    <2>2. PICK n \in T : \A k \in T : n <= k
      BY <2>1, KlLeast
    <2>3. PICK q \in CtParam : Len(q) = n /\ CliLeaves(q) \notin Seq(CtLeafParam)
      BY <2>2
    <2>4. q # <<>>
      BY <2>3, CliLeavesRoot, EmptySeq
    <2>5. q \in Seq(CtWord) /\ Front(q) \in CtParam
      BY <2>4, CtTree
    <2>6. /\ Len(q) = Len(Front(q)) + 1 /\ Len(Front(q)) \in Nat
          /\ CliLeaves(q) = IF CtIsLeaf(q) THEN Append(CliLeaves(Front(q)), q)
                            ELSE CliLeaves(Front(q))
      BY <2>4, <2>5, CtLeavesFront
    <2>7. CliLeaves(Front(q)) \in Seq(CtLeafParam)
      <3>1. Len(Front(q)) \notin T
        BY <2>2, <2>3, <2>6
      <3>2. QED
        BY <2>5, <2>6, <3>1
    <2>8. CASE CtIsLeaf(q)
      <3>1. q \in CtLeafParam
        BY <2>8 DEF CtLeafParam
      <3>2. Append(CliLeaves(Front(q)), q) \in Seq(CtLeafParam)
        BY <2>7, <3>1, AppendProperties
      <3>3. QED
        BY <2>3, <2>6, <2>8, <3>2
    <2>9. CASE ~CtIsLeaf(q)
      BY <2>3, <2>6, <2>7, <2>9
    <2>10. QED
      BY <2>8, <2>9
  <1>3. CliLeaves(p) \in Seq(CtLeafParam)
    BY <1>1, <1>2
  <1>4. CliLeavesGood(CtWord, p)
    BY <1>1, CliLeavesAre
  <1>5. ASSUME NEW l \in Range(CliLeaves(p)) PROVE Len(l) \in Nat /\ Len(l) <= Len(p)
    <2>1. PICK k \in 1 .. Len(CliLeaves(p)) : l = CliLeaves(p)[k]
      BY <1>3, RangeEquality
    <2>2. l \in Seq(CtWord)
      BY <1>4, <2>1, ElementOfSeq DEF CliLeavesGood
    <2>3. QED
      BY <1>4, <2>1, <2>2, LenProperties DEF CliLeavesGood
  <1>6. QED
    BY <1>1, <1>3, <1>5, LenProperties

LEMMA CtLeavesBare == CliLeaves(CtRoot) = <<>> /\ CliLeaves(CtDo) = <<>> /\ CliLeaves(CliConfig) = <<>>
  <1>1. ASSUME NEW a \in {"do", "config"} PROVE CliLeaves(<<a>>) = <<>>
    <2>1. a \in CtWord /\ a \notin CtLeafWord
      BY DEF CtWord, CtKeyword, CtLeafWord
    <2>2. <<a>> \in Seq(CtWord) /\ <<a>> # <<>> /\ Last(<<a>>) = a
      BY <2>1 DEF Last
    <2>3. ~CtIsLeaf(<<a>>)
      BY <2>1, <2>2 DEF CtIsLeaf
    <2>4. CliLeaves(<<a>>) = CliLeaves(Front(<<a>>))
      BY <2>2, <2>3, CtLeavesFront
    <2>5. Front(<<a>>) = <<>>
      BY CtTuples
    <2>6. QED
      BY <2>4, <2>5, CliLeavesRoot
  <1>2. QED
    BY <1>1, CliLeavesRoot DEF CtRoot, CtDo, CliConfig

\* A token the parser accepts after a parameter: what leads to it leads to the parameter too.
LEMMA CtStep ==
    ASSUME NEW at \in CtParam, NEW next \in CtOptions[at]
    PROVE  /\ next \in CtParam
           /\ next \notin Range(CliLeaves(at))
           /\ CliLeaves(next) = IF CtIsLeaf(next) THEN Append(CliLeaves(at), next)
                                ELSE CliLeaves(at)
  <1> DEFINE Good(x) == next \in CtParam /\ next # <<>> /\ Front(next) \in CtParam
                        /\ CliLeaves(Front(next)) = CliLeaves(at)
                        /\ Len(x) = Len(Front(next)) /\ CliLeaves(x) = CliLeaves(at) /\ x \in CtParam
  <1>1. \E x \in CtParam : Good(x)
    <2>1. CASE at = CtDo
      <3>1. next \in {<<"show">>, <<"debug">>, <<"clear">>}
        BY <2>1 DEF CtOptions
      <3>2. next \in CtBuiltin /\ next # <<>> /\ Front(next) = CtRoot
        BY <3>1, CtTuples DEF CtBuiltin, CtShowHook, CtDebugHook, CtRunHook, CtRoot
      <3>3. Good(CtRoot)
        BY <2>1, <3>2, CtGroups, CtLeavesBare
      <3>4. QED
        BY <3>3, CtGroups
    <2>2. CASE at # CtDo /\ at \in CtNo
      <3>1. next \in CtCommand /\ Front(next) = Front(at)
        BY <2>2 DEF CtOptions
      <3>2. at \in Seq(CtWord) /\ at # <<>> /\ ~CtIsLeaf(at)
        BY <2>2, CtNegations DEF CtIsLeaf
      <3>3. CliLeaves(at) = CliLeaves(Front(at))
        BY <3>2, CtLeavesFront
      <3>4. Good(Front(next))
        BY <3>1, <3>2, <3>3, CtTree, CtGroups
      <3>5. QED
        BY <3>4
    <2>3. CASE at # CtDo /\ at \notin CtNo
      <3>1. next \in CtCommand \cup CtNo /\ next # <<>> /\ Front(next) = at
        BY <2>3 DEF CtOptions, CtRoot
      <3>2. Good(at)
        BY <3>1, CtGroups
      <3>3. QED
        BY <3>2
    <2>4. QED
      BY <2>1, <2>2, <2>3
  <1>2. PICK x \in CtParam : Good(x)
    BY <1>1
  <1>3. /\ Len(next) = Len(Front(next)) + 1 /\ Len(Front(next)) \in Nat
        /\ CliLeaves(next) = IF CtIsLeaf(next) THEN Append(CliLeaves(Front(next)), next)
                             ELSE CliLeaves(Front(next))
    BY <1>2, CtTree, CtLeavesFront
  <1>4. \A l \in Range(CliLeaves(x)) : Len(l) <= Len(x)
    BY <1>2, CtLeavesIn
  <1>5. next \notin Range(CliLeaves(at))
    BY <1>2, <1>3, <1>4
  <1>6. QED
    BY <1>2, <1>3, <1>5

\* Leaving a parameter.
LEMMA CtLeave ==
    ASSUME NEW p \in CtParam, p # CtRoot
    PROVE  /\ CtParent(p) \in CtParam
           /\ CliLeaves(p) = IF CtIsLeaf(p) THEN Append(CliLeaves(CtParent(p)), p)
                             ELSE CliLeaves(CtParent(p))
           /\ Range(CliLeaves(CtParent(p))) \subseteq Range(CliLeaves(p))
  <1>1. /\ p \in Seq(CtWord) /\ p # <<>> /\ Front(p) \in CtParam
    BY CtTree, CtGroups
  <1>2. CliLeaves(p) = IF CtIsLeaf(p) THEN Append(CliLeaves(Front(p)), p)
                       ELSE CliLeaves(Front(p))
    BY <1>1, CtLeavesFront
  <1>3. CliLeaves(Front(p)) \in Seq(CtLeafParam)
    BY <1>1, CtLeavesIn
  <1>4. CtIsLeaf(p) => Range(Append(CliLeaves(Front(p)), p)) = Range(CliLeaves(Front(p))) \cup {p}
    BY <1>3, CliRangeAppend DEF CtLeafParam
  <1>5. QED
    BY <1>1, <1>2, <1>4 DEF CtParent

-----------------------------------------------------------------------------
(* The TLVs of a parameter's leaves.                                       *)

CliTlv == (CtLeafWord \cup {"CMDCODE", "no"}) \X (CliNode \cup {CliOther})

\* held gives every leaf on the way to p a value.
CliHeld(p, held) == Range(CliLeaves(p)) \subseteq DOMAIN held

CliHeldType(held) ==
    /\ DOMAIN held \subseteq CtLeafParam
    /\ \A l \in DOMAIN held : held[l] \in CliValue(Last(l))

LEMMA CliTlvsType ==
    ASSUME NEW p \in CtParam, NEW held, CliHeldType(held), CliHeld(p, held)
    PROVE  /\ CliTlvs(p, held) \in Seq(CliTlv)
           /\ Len(CliTlvs(p, held)) = Len(CliLeaves(p)) /\ Len(CliLeaves(p)) \in Nat
           /\ \A k \in 1 .. Len(CliLeaves(p)) :
                CliTlvs(p, held)[k] = <<Last(CliLeaves(p)[k]), held[CliLeaves(p)[k]]>>
  <1> DEFINE lead == CliLeaves(p)
             tlvs == [i \in 1 .. Len(lead) |-> <<Last(lead[i]), held[lead[i]]>>]
  <1>1. lead \in Seq(CtLeafParam) /\ Len(lead) \in Nat
    BY CtLeavesIn
  <1>2. ASSUME NEW k \in 1 .. Len(lead) PROVE <<Last(lead[k]), held[lead[k]]>> \in CliTlv
    <2>1. lead[k] \in CtLeafParam /\ lead[k] \in Range(lead)
      BY <1>1, RangeEquality, ElementOfSeq
    <2>2. Last(lead[k]) \in CtLeafWord
      BY <2>1 DEF CtLeafParam, CtIsLeaf
    <2>3. held[lead[k]] \in CliNode \cup {CliOther}
      BY <2>1 DEF CliHeld, CliHeldType, CliValue
    <2>4. QED
      BY <2>2, <2>3 DEF CliTlv
  <1>3. CliTlvs(p, held) = tlvs
    BY DEF CliTlvs
  <1> HIDE DEF lead
  <1>4. tlvs \in Seq(CliTlv) /\ Len(tlvs) = Len(lead)
    BY <1>1, <1>2, IsASeq
  <1>5. QED
    BY <1>1, <1>3, <1>4 DEF lead

\* Values of leaves elsewhere do not matter.
LEMMA CliTlvsSame ==
    ASSUME NEW p \in CtParam, NEW q \in CtParam, CliLeaves(q) = CliLeaves(p), NEW held, NEW after,
           \A l \in Range(CliLeaves(p)) : after[l] = held[l]
    PROVE  CliTlvs(q, after) = CliTlvs(p, held)
  <1> DEFINE lead == CliLeaves(p)
  <1>1. \A k \in 1 .. Len(lead) : lead[k] \in Range(lead)
    BY CtLeavesIn, RangeEquality
  <1>2. \A k \in 1 .. Len(lead) : after[lead[k]] = held[lead[k]]
    BY <1>1
  <1>3. QED
    BY <1>2 DEF CliTlvs

LEMMA CliTlvsAppend ==
    ASSUME NEW p \in CtParam, NEW q \in CtParam, CtIsLeaf(q),
           CliLeaves(q) = Append(CliLeaves(p), q), NEW held, NEW after,
           CliHeldType(held), CliHeld(p, held), CliHeldType(after), q \in DOMAIN after,
           \A l \in Range(CliLeaves(p)) : l \in DOMAIN after /\ after[l] = held[l]
    PROVE  CliTlvs(q, after) = Append(CliTlvs(p, held), <<Last(q), after[q]>>)
  <1> DEFINE lead == CliLeaves(p)
             more == CliLeaves(q)
             s == CliTlvs(p, held)
             tlv == <<Last(q), after[q]>>
             t == CliTlvs(q, after)
  <1>1. lead \in Seq(CtLeafParam) /\ q \in CtLeafParam
    BY CtLeavesIn DEF CtLeafParam
  <1>2. /\ Len(more) = Len(lead) + 1 /\ Len(lead) \in Nat
        /\ \A k \in 1 .. Len(lead) : more[k] = lead[k]
        /\ more[Len(lead) + 1] = q
        /\ Range(more) = Range(lead) \cup {q}
    BY <1>1, AppendProperties, LenProperties, CliRangeAppend
  <1>3. CliHeld(q, after)
    BY <1>2 DEF CliHeld
  <1>4. /\ t \in Seq(CliTlv) /\ Len(t) = Len(more)
        /\ \A k \in 1 .. Len(more) : t[k] = <<Last(more[k]), after[more[k]]>>
    BY <1>3, CliTlvsType
  <1>5. /\ s \in Seq(CliTlv) /\ Len(s) = Len(lead)
        /\ \A k \in 1 .. Len(lead) : s[k] = <<Last(lead[k]), held[lead[k]]>>
    BY CliTlvsType
  <1>6. \A k \in 1 .. Len(lead) : lead[k] \in Range(lead)
    BY <1>1, RangeEquality
  <1> HIDE DEF lead, more, s, t
  <1>7. Len(lead) + 1 \in 1 .. Len(more) /\ \A k \in 1 .. Len(lead) : k \in 1 .. Len(more)
    BY <1>2
  <1>8. t[Len(lead) + 1] = tlv
    BY <1>2, <1>4, <1>7
  <1>9. tlv \in CliTlv
    BY <1>4, <1>7, <1>8, ElementOfSeq
  <1>10. \A k \in 1 .. Len(lead) : t[k] = s[k]
    <2>1. ASSUME NEW k \in 1 .. Len(lead) PROVE t[k] = s[k]
      <3>1. t[k] = <<Last(more[k]), after[more[k]]>> /\ more[k] = lead[k]
        BY <1>2, <1>4, <1>7
      <3>2. after[lead[k]] = held[lead[k]]
        BY <1>6 DEF lead
      <3>3. s[k] = <<Last(lead[k]), held[lead[k]]>>
        BY <1>5
      <3>4. QED
        BY <3>1, <3>2, <3>3, Zenon
    <2>2. QED
      BY <2>1
  <1> HIDE DEF tlv
  <1>11. /\ Append(s, tlv) \in Seq(CliTlv) /\ Len(Append(s, tlv)) = Len(s) + 1
         /\ \A k \in 1 .. Len(s) : Append(s, tlv)[k] = s[k]
         /\ Append(s, tlv)[Len(s) + 1] = tlv
    BY <1>5, <1>9, AppendProperties
  <1>12. \A k \in 1 .. Len(t) : t[k] = Append(s, tlv)[k]
    <2>1. \A k \in 1 .. Len(t) : k \in 1 .. Len(lead) \/ k = Len(lead) + 1
      BY <1>2, <1>4
    <2>2. \A k \in 1 .. Len(lead) : t[k] = Append(s, tlv)[k]
      BY <1>5, <1>10, <1>11
    <2>3. t[Len(lead) + 1] = Append(s, tlv)[Len(lead) + 1]
      BY <1>5, <1>8, <1>11
    <2>4. QED
      BY <2>1, <2>2, <2>3, Zenon
  <1>13. Len(t) = Len(Append(s, tlv))
    BY <1>2, <1>4, <1>5, <1>11
  <1>14. t = Append(s, tlv)
    BY <1>4, <1>11, <1>12, <1>13, SeqEqual
  <1>15. QED
    BY <1>14 DEF s, t, tlv

\* What CliKeep keeps.
LEMMA CliKeeps ==
    ASSUME NEW held, CliHeldType(held), NEW P
    PROVE  /\ CliHeldType(CliKeep(held, P))
           /\ \A p \in P : CliHeld(p, held) =>
                /\ CliHeld(p, CliKeep(held, P))
                /\ \A l \in Range(CliLeaves(p)) : CliKeep(held, P)[l] = held[l]
  <1> DEFINE live == UNION {Range(CliLeaves(p)) : p \in P}
  <1>1. CliKeep(held, P) = [l \in DOMAIN held \cap live |-> held[l]]
    BY DEF CliKeep
  <1>2. CliHeldType(CliKeep(held, P))
    BY <1>1 DEF CliHeldType
  <1>3. \A p \in P : Range(CliLeaves(p)) \subseteq live
    OBVIOUS
  <1> HIDE DEF live
  <1>4. ASSUME NEW p \in P, CliHeld(p, held)
        PROVE  /\ CliHeld(p, CliKeep(held, P))
               /\ \A l \in Range(CliLeaves(p)) : CliKeep(held, P)[l] = held[l]
    BY <1>1, <1>3, <1>4 DEF CliHeld
  <1>5. QED
    BY <1>2, <1>4

-----------------------------------------------------------------------------
(* What the handlers read.                                                   *)

\* Where a handler that reads leaves is registered.
LEMMA CtHandlerIs ==
    ASSUME NEW p
    PROVE  LET h == CtHandler(p) IN
           /\ h = "config_mode_enter_handler" => p = <<"config">>
           /\ h = "show_nw_topology_handler" =>
                p \in {<<"show", "topology">>, <<"show", "topology", "node", "<node-name>">>}
           /\ h = "show_interface_handler" => p = CtShowNode \o <<"interface", "statistics">>
           /\ h = "show_table_handler" => p \in CtUnder(CtShowNode, {<<"arp">>, <<"mac">>, <<"rt">>})
           /\ h = "spf_algo_handler" =>
                p \in {CtShowNode \o <<"spf-result">>, <<"run", "spf", "all">>, CtRunNode \o <<"spf">>}
           /\ h = "ping_handler" =>
                p \in CtUnder(CtRunNode \o <<"ping", "<ip-address>">>,
                              {<<>>, <<"ero", "<ero-ip-address>">>})
           /\ h = "arp_handler" => p = CtRunNode \o <<"resolve-arp", "<ip-address>">>
           /\ h = "intf_config_handler" =>
                p \in CtUnder(CtInterface, {<<"<if-up-down>">>, <<"metric", "<metric-val>">>,
                              <<"ip-address", "<intf-ip-address>", "<mask>">>})
           /\ h = "l3_config_handler" =>
                p \in CtUnder(CtConfigNode \o <<"route", "<ip-address>", "<mask>">>,
                              {<<>>, <<"<gw-ip>", "<oif>">>})
           /\ h = "traceoptions_handler" =>
                p \in CtTraceOptions \/ p = CtShowNode \o <<"log-status">>
           /\ h = "isis_config_handler" => p = CtConfigNode \o <<"protocol", "isis">>
           /\ h = "isis_intf_config_handler" => p \in CtIsisConfig
           /\ h = "isis_show_handler" => p \in CtIsisShow
           /\ h = "isis_clear_handler" =>
                p \in CtUnder(CtClearNode \o <<"protocol", "isis">>, {<<"adjacency">>, <<"lsdb">>})
  BY DEF CtHandler, CtLibCallback

\* What each of them reads.
LEMMA CtReadsIs ==
    ASSUME NEW p \in CtParam
    PROVE  LET h == CtCallback[p]
               r == CtReads[h]
           IN  /\ h = CtHandler(p)
               /\ h = "show_nw_topology_handler" => r = CtShowTopology
               /\ h = "show_interface_handler" => r = CtShowInterface
               /\ h = "ping_handler" => r = CtPing
               /\ h = "l3_config_handler" => r = CtL3Config
               /\ h = "intf_config_handler" => r = CtIntfConfig
               /\ h = "isis_config_handler" => r = CtIsisNode
               /\ h = "isis_show_handler" => r = CtIsisShowInfo
               /\ h = "isis_intf_config_handler" => r = CtIsisIntf
               /\ h = "isis_clear_handler" => r = CtIsisClearing
               /\ h \notin {"show_nw_topology_handler", "show_interface_handler", "ping_handler",
                            "l3_config_handler", "intf_config_handler", "isis_config_handler",
                            "isis_show_handler", "isis_intf_config_handler", "isis_clear_handler"} =>
                     r.knows = CtAnyLeaf
               /\ r.node => h \in {"show_interface_handler", "arp_handler", "show_table_handler",
                                   "ping_handler", "l3_config_handler", "intf_config_handler",
                                   "spf_algo_handler", "traceoptions_handler", "isis_config_handler",
                                   "isis_show_handler", "isis_intf_config_handler",
                                   "isis_clear_handler"}
  <1> DEFINE h == CtCallback[p]
  <1>1. h = CtHandler(p)
    BY DEF CtCallback
  <1>2. h \in Range(CtCallback)
    BY DEF Range, CtCallback
  <1> HIDE DEF h
  <1>3. QED
    BY <1>1, <1>2 DEF CtReads, CtReading, h, CtShowTopology, CtShowInterface, CtArp, CtShowTable,
       CtPing, CtL3Config, CtIntfConfig, CtSpf, CtTraceOption, CtIsisNode, CtIsisShowInfo, CtIsisIntf,
       CtIsisClearing

LEMMA CtTupleWords ==
    /\ Range(<<>>) = {}
    /\ \A a : Range(<<a>>) = {a}
    /\ \A a, b : Range(<<a, b>>) = {a, b}
    /\ \A a, b, c : Range(<<a, b, c>>) = {a, b, c}
    /\ \A a, b, c, d : Range(<<a, b, c, d>>) = {a, b, c, d}
  <1>1. Range(<<>>) = {}
    BY DEF Range
  <1>2. ASSUME NEW a PROVE Range(<<a>>) = {a}
    BY DEF Range
  <1>3. ASSUME NEW a, NEW b PROVE Range(<<a, b>>) = {a, b}
    BY DEF Range
  <1>4. ASSUME NEW a, NEW b, NEW c PROVE Range(<<a, b, c>>) = {a, b, c}
    BY DEF Range
  <1>5. ASSUME NEW a, NEW b, NEW c, NEW d PROVE Range(<<a, b, c, d>>) = {a, b, c, d}
    BY DEF Range
  <1>6. QED
    BY <1>1, <1>2, <1>3, <1>4, <1>5

\* The words of the leaves of a parameter below another one.
LEMMA CtUnderWords ==
    ASSUME NEW x \in Seq(CtWord), NEW W, W \subseteq Seq(CtWord), NEW p \in CtUnder(x, W)
    PROVE  \E w \in W : p = x \o w /\ Range(p) = Range(x) \cup Range(w)
  <1>1. PICK w \in W : p = x \o w
    BY DEF CtUnder
  <1>2. Range(x \o w) = Range(x) \cup Range(w)
    BY RangeConcatenation
  <1>3. QED
    BY <1>1, <1>2, Zenon

CtNodeSet == {CtShowNode, CtRunNode, CtClearNode, CtConfigNode}

LEMMA CtNodeWords ==
    /\ \A x \in CtNodeSet : x \in Seq(CtWord) /\ Len(x) = 3 /\ "<node-name>" \in Range(x)
                            /\ x[1] \in {"show", "run", "clear", "config"}
                            /\ \A y \in Range(x) : y \in CtLeafWord => y = "<node-name>"
    /\ \A y \in Range(CtInterface) : y \in CtLeafWord => y \in {"<node-name>", "<if-name>"}
  <1>1. \A x \in CtNodeSet : x \in Seq(CtWord)
    BY CtNodes DEF CtNodeSet
  <1>2. \A x \in CtNodeSet : Len(x) = 3 /\ x[1] \in {"show", "run", "clear", "config"}
    BY DEF CtNodeSet, CtShowNode, CtRunNode, CtClearNode, CtConfigNode
  <1>3. \A x \in CtNodeSet : Range(x) \subseteq {"show", "run", "clear", "config", "node", "<node-name>"}
                             /\ "<node-name>" \in Range(x)
    BY CtTupleWords DEF CtNodeSet, CtShowNode, CtRunNode, CtClearNode, CtConfigNode
  <1>4. \A y \in {"show", "run", "clear", "config", "node", "<node-name>"} :
            y \in CtLeafWord => y = "<node-name>"
    BY DEF CtLeafWord
  <1>5. <<"interface", "<if-name>">> \in Seq(CtWord) /\ CtConfigNode \in Seq(CtWord)
    BY CtNodes DEF CtWord, CtKeyword, CtLeafWord
  <1>6. Range(CtInterface) = Range(CtConfigNode) \cup {"interface", "<if-name>"}
    BY <1>5, RangeConcatenation, CtTupleWords DEF CtInterface
  <1>7. "interface" \notin CtLeafWord /\ CtConfigNode \in CtNodeSet
    BY DEF CtLeafWord, CtNodeSet
  <1>8. QED
    BY <1>1, <1>2, <1>3, <1>4, <1>6, <1>7

\* A command of a node.
CtOfNode(p) == \E x \in CtNodeSet, w \in Seq(CtWord) : p = x \o w

LEMMA CtOfNodeIs ==
    ASSUME NEW p, CtOfNode(p)
    PROVE  /\ "<node-name>" \in CliLeafWords(p)
           /\ CliBranch(p) # <<"repeat">> /\ p # CliConfig
  <1>1. PICK x \in CtNodeSet, w \in Seq(CtWord) : p = x \o w
    BY DEF CtOfNode
  <1>2. x \in Seq(CtWord) /\ Len(x) = 3 /\ x[1] # "repeat" /\ "<node-name>" \in Range(x)
    BY CtNodeWords
  <1> DEFINE q == x \o w
  <1>3. Range(q) = Range(x) \cup Range(w)
    BY <1>2, RangeConcatenation
  <1>4. Len(q) = 3 + Len(w) /\ Len(w) \in Nat /\ q[1] = x[1]
    <2>1. /\ Len(q) = Len(x) + Len(w)
          /\ \A i \in 1 .. Len(x) + Len(w) : q[i] = IF i <= Len(x) THEN x[i] ELSE w[i - Len(x)]
      BY <1>2, ConcatProperties
    <2>2. Len(w) \in Nat
      BY LenProperties
    <2> HIDE DEF q
    <2>3. 1 \in 1 .. Len(x) + Len(w) /\ 1 <= Len(x)
      BY <1>2, <2>2
    <2>4. QED
      BY <1>2, <2>1, <2>2, <2>3
  <1> HIDE DEF q
  <1>9. p = q
    BY <1>1 DEF q
  <1>5. "<node-name>" \in CtLeafWord
    BY DEF CtLeafWord
  <1>6. Len(CliConfig) = 1
    BY DEF CliConfig
  <1>7. p # CliConfig
    <2>1. Len(q) # 1
      BY <1>4
    <2>2. QED
      BY <1>6, <1>9, <2>1, Zenon
  <1>10. CliBranch(p) # <<"repeat">>
    <2>1. p[1] = x[1]
      BY <1>4, <1>9
    <2>2. \A a, b : <<a>> = <<b>> => a = b
      OBVIOUS
    <2>3. QED
      BY <1>2, <2>1, <2>2 DEF CliBranch
  <1>8. QED
    BY <1>2, <1>3, <1>5, <1>7, <1>9, <1>10 DEF CliLeafWords

LEMMA CtOfNodeUnder ==
    ASSUME NEW x, CtOfNode(x), NEW W, W \subseteq Seq(CtWord), NEW p \in CtUnder(x, W)
    PROVE  CtOfNode(p)
  <1>1. PICK y \in CtNodeSet, v \in Seq(CtWord) : x = y \o v
    BY DEF CtOfNode
  <1>2. PICK w \in W : p = x \o w
    BY DEF CtUnder
  <1>3. y \in Seq(CtWord) /\ w \in Seq(CtWord)
    BY CtNodeWords
  <1>4. p = y \o (v \o w) /\ v \o w \in Seq(CtWord)
    BY <1>1, <1>2, <1>3, ConcatAssociative, ConcatProperties
  <1>5. QED
    BY <1>4 DEF CtOfNode

\* A handler that looks the node up is handed its name, but for "run spf all".
LEMMA CtFindsNode ==
    ASSUME NEW p \in CtParam, CtReads[CtCallback[p]].node, p # <<"run", "spf", "all">>
    PROVE  CtOfNode(p)
  <1> DEFINE h == CtHandler(p)
  <1>1. h \in {"show_interface_handler", "arp_handler", "show_table_handler",
               "ping_handler", "l3_config_handler", "intf_config_handler",
               "spf_algo_handler", "traceoptions_handler", "isis_config_handler",
               "isis_show_handler", "isis_intf_config_handler", "isis_clear_handler"}
    BY CtReadsIs
  <1>2. \A x \in CtNodeSet : CtOfNode(x)
    <2>1. \A x \in CtNodeSet : x = x \o <<>> /\ <<>> \in Seq(CtWord)
      BY CtNodeWords, ConcatEmptySeq, EmptySeq
    <2>2. QED
      BY <2>1 DEF CtOfNode
  <1>3. /\ CtShowNode \in CtNodeSet /\ CtRunNode \in CtNodeSet
        /\ CtClearNode \in CtNodeSet /\ CtConfigNode \in CtNodeSet
    BY DEF CtNodeSet
  <1>4. \A x \in CtNodeSet, w \in Seq(CtWord) : CtOfNode(x \o w)
    BY DEF CtOfNode
  <1>5. CASE h = "show_interface_handler"
    <2>1. p = CtShowNode \o <<"interface", "statistics">>
      BY <1>5, CtHandlerIs
    <2>2. <<"interface", "statistics">> \in Seq(CtWord)
      BY DEF CtWord, CtKeyword
    <2>3. QED
      BY <1>3, <1>4, <2>1, <2>2
  <1>6. CASE h = "arp_handler"
    <2>1. p = CtRunNode \o <<"resolve-arp", "<ip-address>">>
      BY <1>6, CtHandlerIs
    <2>2. <<"resolve-arp", "<ip-address>">> \in Seq(CtWord)
      BY DEF CtWord, CtKeyword, CtLeafWord
    <2>3. QED
      BY <1>3, <1>4, <2>1, <2>2
  <1>7. CASE h = "show_table_handler"
    <2>1. p \in CtUnder(CtShowNode, {<<"arp">>, <<"mac">>, <<"rt">>})
      BY <1>7, CtHandlerIs
    <2>2. {<<"arp">>, <<"mac">>, <<"rt">>} \subseteq Seq(CtWord)
      BY DEF CtWord, CtKeyword
    <2>3. QED
      BY <1>2, <1>3, <2>1, <2>2, CtOfNodeUnder
  <1>8. CASE h = "ping_handler"
    <2>1. p \in CtUnder(CtRunNode \o <<"ping", "<ip-address>">>, {<<>>, <<"ero", "<ero-ip-address>">>})
      BY <1>8, CtHandlerIs
    <2>2. /\ {<<>>, <<"ero", "<ero-ip-address>">>} \subseteq Seq(CtWord)
          /\ <<"ping", "<ip-address>">> \in Seq(CtWord)
      BY DEF CtWord, CtKeyword, CtLeafWord
    <2>3. CtOfNode(CtRunNode \o <<"ping", "<ip-address>">>)
      BY <1>3, <1>4, <2>2
    <2>4. QED
      BY <2>1, <2>2, <2>3, CtOfNodeUnder
  <1>9. CASE h = "l3_config_handler"
    <2>1. p \in CtUnder(CtConfigNode \o <<"route", "<ip-address>", "<mask>">>,
                        {<<>>, <<"<gw-ip>", "<oif>">>})
      BY <1>9, CtHandlerIs
    <2>2. /\ {<<>>, <<"<gw-ip>", "<oif>">>} \subseteq Seq(CtWord)
          /\ <<"route", "<ip-address>", "<mask>">> \in Seq(CtWord)
      BY DEF CtWord, CtKeyword, CtLeafWord
    <2>3. CtOfNode(CtConfigNode \o <<"route", "<ip-address>", "<mask>">>)
      BY <1>3, <1>4, <2>2
    <2>4. QED
      BY <2>1, <2>2, <2>3, CtOfNodeUnder
  <1>10. CtOfNode(CtInterface)
    <2>1. <<"interface", "<if-name>">> \in Seq(CtWord)
      BY DEF CtWord, CtKeyword, CtLeafWord
    <2>2. QED
      BY <1>3, <1>4, <2>1 DEF CtInterface
  <1>11. CASE h = "intf_config_handler"
    <2>1. p \in CtUnder(CtInterface, {<<"<if-up-down>">>, <<"metric", "<metric-val>">>,
                        <<"ip-address", "<intf-ip-address>", "<mask>">>})
      BY <1>11, CtHandlerIs
    <2>2. {<<"<if-up-down>">>, <<"metric", "<metric-val>">>,
           <<"ip-address", "<intf-ip-address>", "<mask>">>} \subseteq Seq(CtWord)
      BY DEF CtWord, CtKeyword, CtLeafWord
    <2>3. QED
      BY <1>10, <2>1, <2>2, CtOfNodeUnder
  <1>12. CASE h = "spf_algo_handler"
    <2>1. p \in {CtShowNode \o <<"spf-result">>, CtRunNode \o <<"spf">>}
      BY <1>12, CtHandlerIs
    <2>2. <<"spf-result">> \in Seq(CtWord) /\ <<"spf">> \in Seq(CtWord)
      BY DEF CtWord, CtKeyword
    <2>3. QED
      BY <1>3, <1>4, <2>1, <2>2
  <1>13. CASE h = "traceoptions_handler"
    <2>1. p \in CtTraceOptions \/ p = CtShowNode \o <<"log-status">>
      BY <1>13, CtHandlerIs
    <2>2. CASE p = CtShowNode \o <<"log-status">>
      <3>1. <<"log-status">> \in Seq(CtWord)
        BY DEF CtWord, CtKeyword
      <3>2. QED
        BY <1>3, <1>4, <2>2, <3>1
    <2>3. CASE p \in CtTraceOptions
      <3>1. {<<>>, <<"flag">>, <<"flag", "<flag-val>">>} \subseteq Seq(CtWord)
            /\ {<<"traceoptions">>} \subseteq Seq(CtWord)
        BY DEF CtWord, CtKeyword, CtLeafWord
      <3>2. PICK x \in {CtConfigNode, CtInterface} :
              p \in CtUnder(x \o <<"traceoptions">>, {<<>>, <<"flag">>, <<"flag", "<flag-val>">>})
        BY <2>3 DEF CtTraceOptions
      <3>3. CtOfNode(x)
        BY <1>2, <1>3, <1>10
      <3>4. x \o <<"traceoptions">> \in CtUnder(x, {<<"traceoptions">>})
        BY DEF CtUnder
      <3>5. CtOfNode(x \o <<"traceoptions">>)
        BY <3>1, <3>3, <3>4, CtOfNodeUnder
      <3>6. QED
        BY <3>1, <3>2, <3>5, CtOfNodeUnder
    <2>4. QED
      BY <2>1, <2>2, <2>3
  <1>14. <<"protocol", "isis">> \in Seq(CtWord)
    BY DEF CtWord, CtKeyword
  <1>15. CASE h = "isis_config_handler"
    <2>1. p = CtConfigNode \o <<"protocol", "isis">>
      BY <1>15, CtHandlerIs
    <2>2. QED
      BY <1>3, <1>4, <1>14, <2>1
  <1>16. CASE h = "isis_show_handler"
    <2> DEFINE W == { <<>>, <<"interface">>, <<"interface", "<if-name>">>, <<"lsdb">>,
          <<"lsdb", "detail">>, <<"lsdb", "<rtr-id>">>, <<"adjacency">>, <<"events">> }
    <2>1. p \in CtUnder(CtShowNode \o <<"protocol", "isis">>, W)
      BY <1>16, CtHandlerIs DEF CtIsisShow
    <2>2. W \subseteq Seq(CtWord)
      BY DEF CtWord, CtKeyword, CtLeafWord
    <2>3. CtOfNode(CtShowNode \o <<"protocol", "isis">>)
      BY <1>3, <1>4, <1>14
    <2> HIDE DEF W
    <2>4. QED
      BY <2>1, <2>2, <2>3, CtOfNodeUnder
  <1>17. CASE h = "isis_intf_config_handler"
    <2> DEFINE W == { <<>>, <<"layer2-map">>, <<"overload">>, <<"overload", "timeout">>,
          <<"overload", "timeout", "<timeout-val>">>,
          <<"interface">>, <<"interface", "all">>, <<"interface", "<if-name>">> }
    <2>1. p \in CtUnder(CtConfigNode \o <<"protocol", "isis">>, W)
      BY <1>17, CtHandlerIs DEF CtIsisConfig
    <2>2. W \subseteq Seq(CtWord)
      BY DEF CtWord, CtKeyword, CtLeafWord
    <2>3. CtOfNode(CtConfigNode \o <<"protocol", "isis">>)
      BY <1>3, <1>4, <1>14
    <2> HIDE DEF W
    <2>4. QED
      BY <2>1, <2>2, <2>3, CtOfNodeUnder
  <1>18. CASE h = "isis_clear_handler"
    <2>1. p \in CtUnder(CtClearNode \o <<"protocol", "isis">>, {<<"adjacency">>, <<"lsdb">>})
      BY <1>18, CtHandlerIs
    <2>2. {<<"adjacency">>, <<"lsdb">>} \subseteq Seq(CtWord)
      BY DEF CtWord, CtKeyword
    <2>3. CtOfNode(CtClearNode \o <<"protocol", "isis">>)
      BY <1>3, <1>4, <1>14
    <2>4. QED
      BY <2>1, <2>2, <2>3, CtOfNodeUnder
  <1> HIDE DEF h
  <1>19. QED
    BY <1>1, <1>5, <1>6, <1>7, <1>8, <1>9, <1>11, <1>12, <1>13, <1>15, <1>16, <1>17, <1>18

\* The leaf words of what follows x by a member of W.
LEMMA CtUnderLeaves ==
    ASSUME NEW x \in Seq(CtWord), NEW W, W \subseteq Seq(CtWord), NEW p \in CtUnder(x, W),
           NEW K, \A y \in Range(x) : y \in CtLeafWord => y \in K,
           \A w \in W : \A y \in Range(w) : y \in CtLeafWord => y \in K
    PROVE  CliLeafWords(p) \subseteq K
  <1>1. PICK w \in W : p = x \o w /\ Range(p) = Range(x) \cup Range(w)
    BY CtUnderWords
  <1>2. QED
    BY <1>1 DEF CliLeafWords

\* The node's parameters one hook below the node.
LEMMA CtHookLeaves ==
    ASSUME NEW x \in CtNodeSet, NEW v \in Seq(CtWord), NEW K, "<node-name>" \in K,
           \A y \in Range(v) : y \in CtLeafWord => y \in K
    PROVE  x \o v \in Seq(CtWord) /\ \A y \in Range(x \o v) : y \in CtLeafWord => y \in K
  <1>1. /\ x \in Seq(CtWord)
        /\ \A y \in Range(x) : y \in CtLeafWord => y = "<node-name>"
    BY CtNodeWords
  <1>2. x \o v \in Seq(CtWord) /\ Range(x \o v) = Range(x) \cup Range(v)
    BY <1>1, ConcatProperties, RangeConcatenation
  <1> DEFINE p == x \o v
  <1> HIDE DEF p
  <1>3. \A y \in Range(p) : y \in CtLeafWord => y \in K
    BY <1>1, <1>2 DEF p
  <1>4. QED
    BY <1>2, <1>3 DEF p

CtUnknowing == CtInterface \o <<"ip-address", "<intf-ip-address>", "<mask>">>

\* A handler knows every leaf of its path, but for one.
LEMMA CtKnowsLeaves ==
    ASSUME NEW p \in CtParam, p # CtUnknowing
    PROVE  CliLeafWords(p) \subseteq CtReads[CtCallback[p]].knows
  <1> DEFINE h == CtHandler(p)
             K == CtReads[CtCallback[p]].knows
  <1>1. CtNodeSet = {CtShowNode, CtRunNode, CtClearNode, CtConfigNode}
    BY DEF CtNodeSet
  <1>2. {"node", "topology", "show"} \cap CtLeafWord = {}
    BY DEF CtLeafWord
  <1>3. CASE h = "show_nw_topology_handler"
    <2>1. p \in {<<"show", "topology">>, <<"show", "topology", "node", "<node-name>">>}
      BY <1>3, CtHandlerIs
    <2>2. K = {"<node-name>"}
      BY <1>3, CtReadsIs DEF CtShowTopology, CtReading
    <2>3. Range(p) \subseteq {"show", "topology", "node", "<node-name>"}
      BY <2>1, CtTupleWords
    <2>4. QED
      BY <1>2, <2>2, <2>3 DEF CliLeafWords
  <1>4. CASE h = "show_interface_handler"
    <2> DEFINE w == <<"interface", "statistics">>
    <2>1. p = CtShowNode \o w
      BY <1>4, CtHandlerIs
    <2>2. K = {"<node-name>"}
      BY <1>4, CtReadsIs DEF CtShowInterface, CtReading
    <2>3. w \in Seq(CtWord) /\ \A y \in Range(w) : y \notin CtLeafWord
      BY CtTupleWords DEF CtWord, CtKeyword, CtLeafWord
    <2> HIDE DEF w
    <2>4. \A y \in Range(p) : y \in CtLeafWord => y \in K
      BY <1>1, <2>1, <2>2, <2>3, CtHookLeaves
    <2>5. QED
      BY <2>4 DEF CliLeafWords
  <1>5. CASE h = "ping_handler"
    <2> DEFINE v == <<"ping", "<ip-address>">>
               W == {<<>>, <<"ero", "<ero-ip-address>">>}
    <2>1. p \in CtUnder(CtRunNode \o v, W)
      BY <1>5, CtHandlerIs
    <2>2. K = {"<node-name>", "<ip-address>", "<ero-ip-address>"}
      BY <1>5, CtReadsIs DEF CtPing, CtReading
    <2>3. /\ v \in Seq(CtWord) /\ \A y \in Range(v) : y \in CtLeafWord => y \in K
          /\ W \subseteq Seq(CtWord)
          /\ \A w \in W : \A y \in Range(w) : y \in CtLeafWord => y \in K
      BY <2>2, CtTupleWords DEF CtWord, CtKeyword, CtLeafWord
    <2> HIDE DEF v, W, K
    <2>4. /\ CtRunNode \o v \in Seq(CtWord)
          /\ \A y \in Range(CtRunNode \o v) : y \in CtLeafWord => y \in K
      BY <1>1, <2>2, <2>3, CtHookLeaves
    <2>5. CliLeafWords(p) \subseteq K
      BY <2>1, <2>3, <2>4, CtUnderLeaves
    <2>6. QED
      BY <2>5 DEF K
  <1>6. CASE h = "l3_config_handler"
    <2> DEFINE v == <<"route", "<ip-address>", "<mask>">>
               W == {<<>>, <<"<gw-ip>", "<oif>">>}
    <2>1. p \in CtUnder(CtConfigNode \o v, W)
      BY <1>6, CtHandlerIs
    <2>2. K = {"<node-name>", "<ip-address>", "<gw-ip>", "<mask>", "<oif>"}
      BY <1>6, CtReadsIs DEF CtL3Config, CtReading
    <2>3. /\ v \in Seq(CtWord) /\ \A y \in Range(v) : y \in CtLeafWord => y \in K
          /\ W \subseteq Seq(CtWord)
          /\ \A w \in W : \A y \in Range(w) : y \in CtLeafWord => y \in K
      BY <2>2, CtTupleWords DEF CtWord, CtKeyword, CtLeafWord
    <2> HIDE DEF v, W, K
    <2>4. /\ CtConfigNode \o v \in Seq(CtWord)
          /\ \A y \in Range(CtConfigNode \o v) : y \in CtLeafWord => y \in K
      BY <1>1, <2>2, <2>3, CtHookLeaves
    <2>5. CliLeafWords(p) \subseteq K
      BY <2>1, <2>3, <2>4, CtUnderLeaves
    <2>6. QED
      BY <2>5 DEF K
  <1>7. CASE h = "intf_config_handler"
    <2> DEFINE W == {<<"<if-up-down>">>, <<"metric", "<metric-val>">>}
    <2>1. p \in CtUnder(CtInterface, {<<"<if-up-down>">>, <<"metric", "<metric-val>">>,
                        <<"ip-address", "<intf-ip-address>", "<mask>">>})
      BY <1>7, CtHandlerIs
    <2>2. p \in CtUnder(CtInterface, W)
      BY <2>1 DEF CtUnder, CtUnknowing
    <2>3. K = {"<node-name>", "<if-name>", "<if-up-down>", "<metric-val>"}
      BY <1>7, CtReadsIs DEF CtIntfConfig, CtReading
    <2>4. /\ W \subseteq Seq(CtWord)
          /\ \A w \in W : \A y \in Range(w) : y \in CtLeafWord => y \in K
      BY <2>3, CtTupleWords DEF CtWord, CtKeyword, CtLeafWord
    <2>5. /\ CtInterface \in Seq(CtWord)
          /\ \A y \in Range(CtInterface) : y \in CtLeafWord => y \in K
      BY <2>3, CtNodeWords, CtInterfaceNamed
    <2> HIDE DEF W, K
    <2>6. CliLeafWords(p) \subseteq K
      BY <2>2, <2>4, <2>5, CtUnderLeaves
    <2>7. QED
      BY <2>6 DEF K
  <1> DEFINE v == <<"protocol", "isis">>
  <1>8. v \in Seq(CtWord) /\ \A y \in Range(v) : y \notin CtLeafWord
    BY CtTupleWords DEF CtWord, CtKeyword, CtLeafWord
  <1> HIDE DEF v
  <1>9. ASSUME NEW x \in CtNodeSet, "<node-name>" \in K
        PROVE  x \o v \in Seq(CtWord) /\ \A y \in Range(x \o v) : y \in CtLeafWord => y \in K
    BY <1>8, <1>9, CtHookLeaves
  <1>10. CASE h = "isis_config_handler"
    <2>1. p = CtConfigNode \o v
      BY <1>10, CtHandlerIs DEF v
    <2>2. K = {"<node-name>"}
      BY <1>10, CtReadsIs DEF CtIsisNode, CtReading
    <2>3. QED
      BY <1>1, <1>9, <2>1, <2>2 DEF CliLeafWords
  <1>11. CASE h = "isis_show_handler"
    <2> DEFINE W == { <<>>, <<"interface">>, <<"interface", "<if-name>">>, <<"lsdb">>,
          <<"lsdb", "detail">>, <<"lsdb", "<rtr-id>">>, <<"adjacency">>, <<"events">> }
    <2>1. p \in CtUnder(CtShowNode \o v, W)
      BY <1>11, CtHandlerIs DEF CtIsisShow, v
    <2>2. K = {"<node-name>", "<rtr-id>", "<if-name>"}
      BY <1>11, CtReadsIs DEF CtIsisShowInfo, CtReading
    <2>3. /\ W \subseteq Seq(CtWord)
          /\ \A w \in W : \A y \in Range(w) : y \in CtLeafWord => y \in K
      BY <2>2, CtTupleWords DEF CtWord, CtKeyword, CtLeafWord
    <2> HIDE DEF W, K
    <2>4. /\ CtShowNode \o v \in Seq(CtWord)
          /\ \A y \in Range(CtShowNode \o v) : y \in CtLeafWord => y \in K
      BY <1>1, <1>8, <2>2, CtHookLeaves
    <2>5. CliLeafWords(p) \subseteq K
      BY <2>1, <2>3, <2>4, CtUnderLeaves
    <2>6. QED
      BY <2>5 DEF K
  <1>12. CASE h = "isis_intf_config_handler"
    <2> DEFINE W == { <<>>, <<"layer2-map">>, <<"overload">>, <<"overload", "timeout">>,
          <<"overload", "timeout", "<timeout-val>">>,
          <<"interface">>, <<"interface", "all">>, <<"interface", "<if-name>">> }
    <2>1. p \in CtUnder(CtConfigNode \o v, W)
      BY <1>12, CtHandlerIs DEF CtIsisConfig, v
    <2>2. K = {"<node-name>", "<if-name>", "<timeout-val>"}
      BY <1>12, CtReadsIs DEF CtIsisIntf, CtReading
    <2>3. /\ W \subseteq Seq(CtWord)
          /\ \A w \in W : \A y \in Range(w) : y \in CtLeafWord => y \in K
      BY <2>2, CtTupleWords DEF CtWord, CtKeyword, CtLeafWord
    <2> HIDE DEF W, K
    <2>4. /\ CtConfigNode \o v \in Seq(CtWord)
          /\ \A y \in Range(CtConfigNode \o v) : y \in CtLeafWord => y \in K
      BY <1>1, <1>8, <2>2, CtHookLeaves
    <2>5. CliLeafWords(p) \subseteq K
      BY <2>1, <2>3, <2>4, CtUnderLeaves
    <2>6. QED
      BY <2>5 DEF K
  <1>13. CASE h = "isis_clear_handler"
    <2> DEFINE W == {<<"adjacency">>, <<"lsdb">>}
    <2>1. p \in CtUnder(CtClearNode \o v, W)
      BY <1>13, CtHandlerIs DEF v
    <2>2. K = {"<node-name>"}
      BY <1>13, CtReadsIs DEF CtIsisClearing, CtReading
    <2>3. /\ W \subseteq Seq(CtWord)
          /\ \A w \in W : \A y \in Range(w) : y \in CtLeafWord => y \in K
      BY <2>2, CtTupleWords DEF CtWord, CtKeyword, CtLeafWord
    <2> HIDE DEF W, K
    <2>4. /\ CtClearNode \o v \in Seq(CtWord)
          /\ \A y \in Range(CtClearNode \o v) : y \in CtLeafWord => y \in K
      BY <1>1, <1>8, <2>2, CtHookLeaves
    <2>5. CliLeafWords(p) \subseteq K
      BY <2>1, <2>3, <2>4, CtUnderLeaves
    <2>6. QED
      BY <2>5 DEF K
  <1>14. CASE h \notin {"show_nw_topology_handler", "show_interface_handler", "ping_handler",
                        "l3_config_handler", "intf_config_handler", "isis_config_handler",
                        "isis_show_handler", "isis_intf_config_handler", "isis_clear_handler"}
    <2>1. K = CtAnyLeaf
      BY <1>14, CtReadsIs
    <2>2. QED
      BY <2>1 DEF CliLeafWords, CtAnyLeaf
  <1> HIDE DEF h
  <1>15. QED
    BY <1>3, <1>4, <1>5, <1>6, <1>7, <1>10, <1>11, <1>12, <1>13, <1>14

-----------------------------------------------------------------------------
(* Sequences of calls and buffers.                                         *)

LEMMA CliPrefix ==
    ASSUME NEW S, NEW s \in Seq(S), NEW m \in 0 .. Len(s)
    PROVE  /\ SubSeq(s, 1, m) \in Seq(S) /\ Len(SubSeq(s, 1, m)) = m
           /\ \A e \in S : SubSeq(Append(s, e), 1, m) = SubSeq(s, 1, m)
           /\ SubSeq(s, 1, Len(s)) = s
           /\ \A e \in S : SubSeq(Append(s, e), 1, Len(s)) = s
           /\ SubSeq(SubSeq(s, 1, m), 1, m) = SubSeq(s, 1, m)
  <1>1. Len(s) \in Nat /\ \A i \in 1 .. m : s[i] \in S
    BY LenProperties, ElementOfSeq
  <1>2. m \in Int /\ 1 \in Int /\ (1 <= m \/ m = 0)
    BY <1>1
  <1>3. SubSeq(s, 1, m) \in Seq(S) /\ Len(SubSeq(s, 1, m)) = m
    BY <1>1, <1>2, SubSeqProperties
  <1>4. SubSeq(s, 1, Len(s)) = s
    BY SubSeqFull
  <1>5. \A e \in S : SubSeq(Append(s, e), 1, m) = SubSeq(s, 1, m)
                     /\ SubSeq(Append(s, e), 1, Len(s)) = SubSeq(s, 1, Len(s))
    BY <1>1, CliSubAppend
  <1> DEFINE t == SubSeq(s, 1, m)
  <1>6. SubSeq(t, 1, Len(t)) = t
    BY <1>3, SubSeqFull
  <1>7. QED
    BY <1>3, <1>4, <1>5, <1>6

LEMMA CliPop ==
    ASSUME NEW S, NEW s \in Seq(S), s # <<>>
    PROVE  /\ Head(s) \in S /\ Head(s) \in Range(s)
           /\ Tail(s) \in Seq(S) /\ Len(Tail(s)) = Len(s) - 1 /\ Len(s) \in Nat /\ Len(s) >= 1
           /\ Range(Tail(s)) \subseteq Range(s)
  <1>1. Len(s) \in Nat /\ Len(s) >= 1
    BY EmptySeq
  <1>2. /\ Head(s) \in S /\ Tail(s) \in Seq(S) /\ Len(Tail(s)) = Len(s) - 1
        /\ \A i \in 1 .. Len(Tail(s)) : Tail(s)[i] = s[i + 1]
    BY HeadTailProperties
  <1>3. Head(s) = s[1]
    OBVIOUS
  <1>4. Range(s) = {s[i] : i \in 1 .. Len(s)} /\ Range(Tail(s)) = {Tail(s)[i] : i \in 1 .. Len(Tail(s))}
    BY <1>2, RangeEquality
  <1>5. ASSUME NEW i \in 1 .. Len(Tail(s)) PROVE Tail(s)[i] \in Range(s)
    <2>1. i + 1 \in 1 .. Len(s)
      BY <1>1, <1>2
    <2>2. QED
      BY <1>2, <1>4, <2>1
  <1>6. QED
    BY <1>1, <1>2, <1>3, <1>4, <1>5

LEMMA CliPush ==
    ASSUME NEW S, NEW s \in Seq(S), NEW e \in S
    PROVE  /\ <<e>> \o s \in Seq(S) /\ Len(<<e>> \o s) = Len(s) + 1 /\ Len(s) \in Nat
           /\ Range(<<e>> \o s) = {e} \cup Range(s)
  <1> DEFINE h == <<e>>
  <1>1. h \in Seq(S) /\ Range(h) = {e}
    BY CtTupleWords
  <1> HIDE DEF h
  <1>2. Range(h \o s) = Range(h) \cup Range(s)
    BY <1>1, RangeConcatenation
  <1>3. <<e>> \o s \in Seq(S) /\ Len(<<e>> \o s) = Len(s) + 1 /\ Len(s) \in Nat
    BY KlPrepend, LenProperties
  <1>4. Range(<<e>> \o s) = {e} \cup Range(s)
    BY <1>1, <1>2, Zenon DEF h
  <1>5. QED
    BY <1>3, <1>4, Zenon

\* What CliServed says of a call: the leaves it was given, and those of its path.
CliGivenIn(s) == [i \in DOMAIN s |-> s[i][1]]
CliPath(p) == [i \in DOMAIN CliLeaves(p) |-> Last(CliLeaves(p)[i])]
CliIds(s) == {s[i][1] : i \in 1 .. Len(s) - 1}

LEMMA CliGiven ==
    ASSUME NEW p \in CtParam, NEW held, CliHeldType(held), CliHeld(p, held),
           NEW s, s = CliTlvs(p, held), NEW t, t = Append(s, CliCode)
    PROVE  /\ CliGivenIn(s) = CliPath(p)
           /\ CliGivenIn(t) = Append(CliPath(p), "CMDCODE")
           /\ CliIds(t) = CliLeafWords(p) /\ CliIds(s) \subseteq CliLeafWords(p)
  <1> DEFINE path == CliPath(p)
  <1> DEFINE lead == CliLeaves(p)
             n == Len(lead)
  <1>17. path = [i \in DOMAIN lead |-> Last(lead[i])]
    BY DEF CliPath
  <1> HIDE DEF path
  <1>1. /\ s \in Seq(CliTlv) /\ Len(s) = n /\ n \in Nat
        /\ \A k \in 1 .. n : s[k] = <<Last(lead[k]), held[lead[k]]>>
    BY CliTlvsType
  <1>2. CliCode \in CliTlv /\ CliCode[1] = "CMDCODE"
    BY DEF CliTlv, CliCode
  <1>3. /\ t \in Seq(CliTlv) /\ Len(t) = n + 1
        /\ \A k \in 1 .. n : t[k] = s[k]
        /\ t[n + 1] = CliCode
    BY <1>1, <1>2, AppendProperties
  <1>4. lead \in Seq(CtLeafParam) /\ DOMAIN lead = 1 .. n
    BY CtLeavesIn, LenProperties
  <1>5. DOMAIN s = 1 .. n /\ DOMAIN t = 1 .. n + 1
    BY <1>1, <1>3, LenProperties
  <1>6. p \in Seq(CtWord)
    BY CtTree
  <1>7. CliWordsOf(lead) = CliLeafWords(p)
    BY <1>6, CliLeavesAre DEF CliLeavesGood
  <1> DEFINE W == CtLeafWord \cup {"CMDCODE"}
  <1>8. \A k \in 1 .. n : Last(lead[k]) \in W
    BY <1>4, ElementOfSeq DEF CtLeafParam, CtIsLeaf
  <1> HIDE DEF lead, n
  <1>9. \A k \in 1 .. n : s[k][1] = Last(lead[k])
    BY <1>1
  <1>10. [i \in DOMAIN s |-> s[i][1]] = path
    BY <1>4, <1>5, <1>9, <1>17
  <1>11. path \in Seq(W) /\ Len(path) = n
    <2>1. [i \in 1 .. n |-> Last(lead[i])] \in Seq(W) /\ Len([i \in 1 .. n |-> Last(lead[i])]) = n
      BY <1>1, <1>8, IsASeq
    <2>2. QED
      BY <1>4, <1>17, <2>1
  <1>12. \A k \in 1 .. n : path[k] = Last(lead[k])
    BY <1>4, <1>17
  <1>13. [i \in DOMAIN t |-> t[i][1]] = Append(path, "CMDCODE")
    <2> DEFINE g == [i \in 1 .. n + 1 |-> t[i][1]]
               q == Append(path, "CMDCODE")
    <2>1. "CMDCODE" \in W
      OBVIOUS
    <2> HIDE DEF W
    <2>2. /\ q \in Seq(W) /\ Len(q) = n + 1
          /\ \A k \in 1 .. n : q[k] = path[k]
          /\ q[n + 1] = "CMDCODE"
      BY <1>11, <2>1, AppendProperties
    <2>3. \A k \in 1 .. n + 1 : k \in 1 .. n \/ k = n + 1
      BY <1>1
    <2> HIDE DEF q
    <2>4. \A k \in 1 .. n : t[k][1] = q[k]
      BY <1>3, <1>9, <1>12, <2>2
    <2>5. t[n + 1][1] = q[n + 1]
      BY <1>2, <1>3, <2>2
    <2>6. \A k \in 1 .. n + 1 : t[k][1] = q[k]
      BY <2>3, <2>4, <2>5, Zenon
    <2>7. DOMAIN q = 1 .. n + 1 /\ q = [k \in DOMAIN q |-> q[k]]
      BY <2>2, LenProperties
    <2>8. g = q
      BY <2>6, <2>7
    <2>9. QED
      BY <1>5, <2>8 DEF q
  <1>14. {t[i][1] : i \in 1 .. Len(t) - 1} = CliWordsOf(lead)
    <2>1. Len(t) - 1 = n
      BY <1>1, <1>3
    <2>2. \A k \in 1 .. n : t[k][1] = Last(lead[k])
      BY <1>3, <1>9
    <2>3. QED
      BY <2>1, <2>2 DEF CliWordsOf, n
  <1>15. {s[i][1] : i \in 1 .. Len(s) - 1} \subseteq CliWordsOf(lead)
    <2>1. \A i \in 1 .. Len(s) - 1 : i \in 1 .. n
      BY <1>1
    <2>2. QED
      BY <2>1, <1>9 DEF CliWordsOf, n
  <1>16. QED
    BY <1>7, <1>10, <1>13, <1>14, <1>15 DEF CliGivenIn, CliIds, path, lead

-----------------------------------------------------------------------------
(* The inductive invariant.                                                *)

\* Nothing has shaken the buffer: no replay is under way, and no mode was entered by one.
CliPlain == ~cli_stray /\ \A call \in Range(cli_calls) : call.why # "replay"

\* The leaves to the cursor, to the token read and to where a "do" returns have values.
CliHolds ==
    /\ CliHeld(cli_cursor, cli_held)
    /\ \A p \in CliOlds(cli_calls) : CliHeld(p, cli_held)
    /\ cli_phase = "parse" => CliHeld(cli_at, cli_held)

\* Up to the checkpoint the buffer describes the cursor, and while a line is parsed all of
\* it describes the token read.
CliBufInv ==
    CliPlain /\ cli_phase # "dead" =>
        /\ SubSeq(cli_buf, 1, cli_mark) = CliTlvs(cli_cursor, cli_held)
        /\ cli_phase = "prompt" => cli_mark = Len(cli_buf)
        /\ cli_phase = "parse" =>
             /\ cli_buf = CliTlvs(cli_at, cli_held)
             /\ Range(CliLeaves(cli_cursor)) \subseteq Range(CliLeaves(cli_at))

CliShape ==
    /\ cli_cursor \in CtParam /\ cli_at \in CtParam
    /\ cli_buf \in Seq(CliTlv) /\ cli_mark \in 0 .. Len(cli_buf)
    /\ CliHeldType(cli_held)
    /\ cli_phase \in {"prompt", "parse", "ret", "dead"}
    /\ cli_calls \in Seq(CliReaders) /\ Len(cli_calls) <= CliMaxNest + 1
    /\ cli_phase = "prompt" \/ CliReason # "do" => Len(cli_calls) <= CliMaxNest
    /\ cli_stray \in BOOLEAN
    /\ CliHolds /\ CliBufInv

CliFates == {"", "exit", "no parent", "mode at root", "display", "unknown leaf", "no node",
             "memory"}

CliAnswered ==
    /\ cli_call.param \in CtParam
    /\ {cli_off, cli_hurt, cli_call.off, cli_call.odd} \subseteq BOOLEAN
    /\ cli_fate \in CliFates /\ (cli_fate # "" => cli_phase = "dead")
    /\ CliServed

CliInv == CliShape /\ CliAnswered

LEMMA CliOldsWithin ==
    ASSUME NEW calls, NEW more, Range(calls) \subseteq Range(more)
    PROVE  CliOlds(calls) \subseteq CliOlds(more)
  BY DEF CliOlds

LEMMA CliEndShape ==
    ASSUME CliHeldType(cli_held), cli_at' \in CtParam,
           NEW cursor \in CtParam, NEW buf \in Seq(CliTlv), NEW mark \in 0 .. Len(buf),
           NEW calls \in Seq(CliReaders), Len(calls) <= CliMaxNest + 1, NEW stray \in BOOLEAN,
           CliEnd(cursor, buf, mark, calls, stray),
           CliHeld(cursor, cli_held), \A p \in CliOlds(calls) : CliHeld(p, cli_held),
           cursor # CtRoot /\ calls = <<>> /\ ~stray =>
                SubSeq(buf, 1, mark) = CliTlvs(cursor, cli_held)
    PROVE  CliShape' /\ cli_phase' # "dead"
  <1> DEFINE P == {cursor} \cup CliOlds(calls)
  <1>1. /\ cli_cursor' = cursor /\ cli_held' = CliKeep(cli_held, P)
        /\ cli_phase' = IF calls = <<>> THEN "prompt" ELSE "ret"
        /\ cli_calls' = IF calls = <<>> THEN calls ELSE Tail(calls)
        /\ cli_stray' = (cursor # CtRoot /\ (stray \/ calls # <<>>))
        /\ cli_buf' = IF cursor # CtRoot THEN SubSeq(buf, 1, mark) ELSE <<>>
        /\ cli_mark' = IF cursor # CtRoot THEN mark ELSE 0
    BY DEF CliEnd, CliRestore
  <1>2. /\ CliHeldType(cli_held') /\ CliHeld(cursor, cli_held')
        /\ \A l \in Range(CliLeaves(cursor)) : cli_held'[l] = cli_held[l]
        /\ \A p \in CliOlds(calls) : CliHeld(p, cli_held')
    BY <1>1, CliKeeps
  <1> HIDE DEF P
  <1>3. CliTlvs(cursor, cli_held') = CliTlvs(cursor, cli_held)
    BY <1>2, CliTlvsSame
  <1>4. /\ cli_calls' \in Seq(CliReaders) /\ Len(cli_calls') <= CliMaxNest + 1
        /\ Range(cli_calls') \subseteq Range(calls)
        /\ Len(cli_calls') <= CliMaxNest
    <2>1. CASE calls = <<>>
      <3>1. Len(calls) = 0
        BY <2>1
      <3>2. QED
        BY <1>1, <2>1, <3>1, CliAssumption
    <2>2. CASE calls # <<>>
      BY <1>1, <2>2, CliPop, CliAssumption
    <2>3. QED
      BY <2>1, <2>2
  <1>5. \A p \in CliOlds(cli_calls') : CliHeld(p, cli_held')
    <2>1. CliOlds(cli_calls') \subseteq CliOlds(calls)
      BY <1>4, CliOldsWithin
    <2>2. QED
      BY <1>2, <2>1
  <1>6. cli_phase' \in {"prompt", "ret"}
    BY <1>1
  <1>7. CliHolds'
    BY <1>1, <1>2, <1>5, <1>6 DEF CliHolds
  <1>8. cli_buf' \in Seq(CliTlv) /\ cli_mark' \in 0 .. Len(cli_buf') /\ cli_mark' = Len(cli_buf')
    <2>1. CASE cursor = CtRoot
      BY <1>1, <2>1, EmptySeq
    <2>2. CASE cursor # CtRoot
      BY <1>1, <2>2, CliPrefix
    <2>3. QED
      BY <2>1, <2>2
  <1>9. CliPlain' => SubSeq(cli_buf', 1, cli_mark') = CliTlvs(cursor, cli_held)
    <2>1. CASE cursor = CtRoot
      <3>1. cli_buf' = <<>> /\ cli_mark' = 0
        BY <1>1, <2>1
      <3>2. SubSeq(<<>>, 1, 0) = <<>>
        BY SubSeqEmpty
      <3>3. CliTlvs(cursor, cli_held) = <<>>
        BY <2>1, CtLeavesBare DEF CliTlvs
      <3>4. QED
        BY <3>1, <3>2, <3>3
    <2>2. CASE cursor # CtRoot
      <3>1. CliPlain' => SubSeq(buf, 1, mark) = CliTlvs(cursor, cli_held)
        BY <1>1, <2>2 DEF CliPlain
      <3>2. cli_buf' = SubSeq(buf, 1, mark) /\ cli_mark' = mark
        BY <1>1, <2>2
      <3>3. SubSeq(SubSeq(buf, 1, mark), 1, mark) = SubSeq(buf, 1, mark)
        BY CliPrefix
      <3>4. QED
        BY <3>1, <3>2, <3>3
    <2>3. QED
      BY <2>1, <2>2
  <1>10. CliBufInv'
    BY <1>1, <1>3, <1>6, <1>8, <1>9 DEF CliBufInv
  <1>11. cli_stray' \in BOOLEAN
    BY <1>1
  <1>12. QED
    BY <1>1, <1>2, <1>4, <1>6, <1>7, <1>8, <1>10, <1>11 DEF CliShape

\* What stays as it is when nothing is asked of a handler.
LEMMA CliSameAnswer ==
    ASSUME CliAnswered, UNCHANGED << cli_call, cli_fate >>, cli_off' \in BOOLEAN, cli_hurt' \in BOOLEAN,
           cli_phase # "dead"
    PROVE  CliAnswered'
  <1>1. CliServed'
    BY DEF CliAnswered, CliServed
  <1>2. cli_fate = ""
    BY DEF CliAnswered
  <1>3. QED
    BY <1>1, <1>2 DEF CliAnswered

\* A line that ends where it was read, in a mode of its own or none.
LEMMA CliDies ==
    ASSUME CliInv, NEW why \in {"no parent", "mode at root", "display", "memory"}, CliDie(why)
    PROVE  CliInv'
  <1>1. CliShape'
    BY DEF CliInv, CliShape, CliDie, CliHolds, CliBufInv, CliPlain, CliReason
  <1>2. CliServed'
    BY DEF CliInv, CliAnswered, CliServed, CliDie
  <1>3. QED
    BY <1>1, <1>2 DEF CliInv, CliAnswered, CliDie, CliFates

-----------------------------------------------------------------------------
(* Init, and one lemma per action.                                         *)

LEMMA CliInitInv == CliInit => CliInv
  <1> SUFFICES ASSUME CliInit PROVE CliInv
    OBVIOUS
  <1>1. CtRoot \in CtParam
    BY CtGroups
  <1>2. CliHeldType(cli_held) /\ CliHeld(CtRoot, cli_held)
    <2>1. DOMAIN <<>> = {} /\ Range(<<>>) = {}
      BY CtTupleWords
    <2>2. QED
      BY <2>1, CtLeavesBare DEF CliInit, CliHeldType, CliHeld
  <1>3. <<>> \in Seq(CliTlv) /\ <<>> \in Seq(CliReaders) /\ Len(<<>>) = 0
    OBVIOUS
  <1>4. CliHolds
    <2>1. CliOlds(<<>>) = {}
      BY CtTupleWords DEF CliOlds
    <2>2. QED
      BY <1>2, <2>1 DEF CliInit, CliHolds
  <1>5. CliBufInv
    <2>1. SubSeq(<<>>, 1, 0) = <<>>
      BY SubSeqEmpty
    <2>2. CliTlvs(CtRoot, cli_held) = <<>>
      BY CtLeavesBare DEF CliTlvs
    <2>3. QED
      BY <1>3, <2>1, <2>2 DEF CliInit, CliBufInv
  <1>6. CliShape
    <2>1. /\ Len(<<>>) <= CliMaxNest + 1 /\ Len(<<>>) <= CliMaxNest
          /\ 0 \in 0 .. Len(<<>>)
      BY <1>3, CliAssumption
    <2>2. QED
      BY <1>1, <1>2, <1>3, <1>4, <1>5, <2>1 DEF CliInit, CliShape
  <1>7. CliAnswered
    BY <1>1 DEF CliInit, CliNoCall, CliAnswered, CliServed, CliFates
  <1>8. QED
    BY <1>6, <1>7 DEF CliInv

\* A parse begins where the cursor is told to be.
LEMMA CliBeginShape ==
    ASSUME CliShape, NEW cursor \in CtParam, NEW buf \in Seq(CliTlv), NEW mark \in 0 .. Len(buf),
           NEW calls \in Seq(CliReaders), Len(calls) <= CliMaxNest + 1,
           CliBegin(cursor, buf, mark, calls), cli_stray' \in BOOLEAN,
           CliHeld(cursor, cli_held), \A p \in CliOlds(calls) : CliHeld(p, cli_held),
           CliReason' # "do" => Len(calls) <= CliMaxNest,
           CliPlain' => buf = CliTlvs(cursor, cli_held) /\ mark = Len(buf)
    PROVE  CliShape'
  <1>1. /\ cli_phase' = "parse" /\ cli_cursor' = cursor /\ cli_at' = cursor /\ cli_buf' = buf
        /\ cli_mark' = mark /\ cli_calls' = calls /\ cli_held' = cli_held
    BY DEF CliBegin
  <1>2. CliHolds'
    BY <1>1 DEF CliHolds
  <1>3. SubSeq(buf, 1, Len(buf)) = buf
    BY SubSeqFull
  <1>4. CliBufInv'
    BY <1>1, <1>3 DEF CliBufInv
  <1>5. QED
    BY <1>1, <1>2, <1>4 DEF CliShape

LEMMA CliBeginSame ==
    ASSUME CliInv, cli_phase # "dead", NEW cursor, NEW buf, NEW mark, NEW calls,
           CliBegin(cursor, buf, mark, calls)
    PROVE  CliAnswered'
  BY CliSameAnswer DEF CliInv, CliAnswered, CliBegin

LEMMA CliPromptBuf ==
    ASSUME CliShape, CliAtPrompt, CliPlain
    PROVE  cli_buf = CliTlvs(cli_cursor, cli_held) /\ cli_mark = Len(cli_buf)
  BY SubSeqFull DEF CliShape, CliBufInv, CliAtPrompt

LEMMA CliNoTlvs ==
    /\ \A held : CliTlvs(CtRoot, held) = <<>> /\ CliTlvs(CtDo, held) = <<>>
                 /\ CliTlvs(CliConfig, held) = <<>>
    /\ \A held : CliHeld(CtRoot, held) /\ CliHeld(CtDo, held) /\ CliHeld(CliConfig, held)
    /\ <<>> \in Seq(CliTlv) /\ Len(<<>>) = 0 /\ 0 \in 0 .. Len(<<>>)
  <1>1. \A held : CliTlvs(CtRoot, held) = <<>> /\ CliTlvs(CtDo, held) = <<>>
                 /\ CliTlvs(CliConfig, held) = <<>>
    BY CtLeavesBare DEF CliTlvs
  <1>2. \A held : CliHeld(CtRoot, held) /\ CliHeld(CtDo, held) /\ CliHeld(CliConfig, held)
    BY CtLeavesBare, CtTupleWords DEF CliHeld
  <1>3. QED
    BY <1>1, <1>2, EmptySeq

LEMMA CliLineKeeps == CliInv /\ CliLine => CliInv'
  <1> SUFFICES ASSUME CliInv, CliLine PROVE CliInv'
    OBVIOUS
  <1>1. CliShape /\ CliAtPrompt /\ cli_phase = "prompt"
    BY DEF CliInv, CliLine, CliAtPrompt
  <1>2. CASE CliInFile
    <2>1. CliBegin(cli_cursor, <<>>, 0, cli_calls) /\ cli_stray' = (cli_stray \/ cli_cursor # CtRoot)
      BY <1>2 DEF CliLine
    <2>2. CliPlain' => <<>> = CliTlvs(cli_cursor, cli_held)
      BY <2>1, CliNoTlvs DEF CliPlain
    <2>3. CliShape'
      BY <1>1, <2>1, <2>2, CliNoTlvs, CliBeginShape DEF CliShape, CliHolds
    <2>4. CliAnswered'
      BY <1>1, <2>1, CliBeginSame
    <2>5. QED
      BY <2>3, <2>4 DEF CliInv
  <1>3. CASE ~CliInFile
    <2>1. CliBegin(cli_cursor, cli_buf, cli_mark, cli_calls) /\ cli_stray' = cli_stray
      BY <1>3 DEF CliLine
    <2>2. CliPlain' => CliPlain
      BY <2>1 DEF CliPlain, CliBegin
    <2>3. CliShape'
      BY <1>1, <2>1, <2>2, CliPromptBuf, CliBeginShape DEF CliShape, CliHolds
    <2>4. CliAnswered'
      BY <1>1, <2>1, CliBeginSame
    <2>5. QED
      BY <2>3, <2>4 DEF CliInv
  <1>4. QED
    BY <1>2, <1>3

\* At the prompt, outside a file, a line ends without a word.
LEMMA CliPromptEnds ==
    ASSUME CliInv, CliAtPrompt, CliEnd(cli_cursor, cli_buf, cli_mark, cli_calls, cli_stray),
           UNCHANGED << cli_at, cli_off, cli_call, cli_fate, cli_hurt >>
    PROVE  CliInv'
  <1>1. CliShape /\ CliAnswered /\ cli_phase # "dead"
    BY DEF CliInv, CliAtPrompt
  <1>2. cli_calls = <<>> /\ ~cli_stray => CliPlain
    BY CtTupleWords DEF CliPlain
  <1>3. cli_cursor # CtRoot /\ cli_calls = <<>> /\ ~cli_stray =>
            SubSeq(cli_buf, 1, cli_mark) = CliTlvs(cli_cursor, cli_held)
    BY <1>1, <1>2 DEF CliShape, CliBufInv
  <1>4. CliShape'
    BY <1>1, <1>3, CliEndShape DEF CliShape, CliHolds
  <1>5. CliAnswered'
    BY <1>1, CliSameAnswer DEF CliAnswered
  <1>6. QED
    BY <1>4, <1>5 DEF CliInv

LEMMA CliDoKeeps == CliInv /\ CliDo => CliInv'
  <1> SUFFICES ASSUME CliInv, CliDo PROVE CliInv'
    OBVIOUS
  <1>1. CliShape /\ CliAtPrompt /\ cli_phase = "prompt"
    BY DEF CliInv, CliDo, CliAtPrompt
  <1>2. CASE cli_cursor = CtDo
    BY <1>2, CliDies DEF CliDo
  <1>3. CASE cli_cursor # CtDo /\ CliBranch(cli_cursor) = CliConfig
    <2> DEFINE calls == <<CliReader("do", cli_cursor)>> \o cli_calls
    <2>1. CliBegin(CtDo, <<>>, 0, calls) /\ cli_stray' = cli_stray
      BY <1>3 DEF CliDo
    <2>2. CliReader("do", cli_cursor) \in CliReaders /\ CliReader("do", cli_cursor).old = cli_cursor
      BY <1>1 DEF CliReader, CliReaders, CliShape
    <2>3. /\ calls \in Seq(CliReaders) /\ Len(calls) <= CliMaxNest + 1
          /\ Range(calls) = {CliReader("do", cli_cursor)} \cup Range(cli_calls)
      BY <1>1, <2>2, CliPush, CliAssumption DEF CliShape
    <2>4. \A p \in CliOlds(calls) : CliHeld(p, cli_held)
      BY <1>1, <2>2, <2>3 DEF CliShape, CliHolds, CliOlds
    <2>8. calls # <<>> /\ Head(calls) = CliReader("do", cli_cursor)
      <3>1. calls[1] = CliReader("do", cli_cursor) /\ Len(calls) >= 1
        BY <1>1, <2>2, KlPrepend, LenProperties DEF CliShape
      <3> HIDE DEF calls
      <3>2. QED
        BY <2>3, <3>1
    <2> HIDE DEF calls
    <2>9. CliReason' = "do"
      BY <2>1, <2>8 DEF CliReason, CliReader, CliBegin
    <2>5. CliShape'
      BY <1>1, <2>1, <2>3, <2>4, <2>9, CliNoTlvs, CliBeginShape, CtGroups DEF CliShape
    <2>6. CliAnswered'
      BY <1>1, <2>1, CliBeginSame
    <2>7. QED
      BY <2>5, <2>6 DEF CliInv
  <1>4. CASE cli_cursor # CtDo /\ CliBranch(cli_cursor) # CliConfig
    BY <1>1, <1>4, CliPromptEnds DEF CliDo
  <1>5. QED
    BY <1>2, <1>3, <1>4

LEMMA CliTopKeeps == CliInv /\ CliTop => CliInv'
  <1> SUFFICES ASSUME CliInv, CliTop PROVE CliInv'
    OBVIOUS
  <1>1. CliShape /\ CliAnswered /\ cli_phase # "dead"
    BY DEF CliInv, CliTop, CliAtPrompt
  <1>2. CASE cli_cursor = CtDo
    BY <1>2, CliDies DEF CliTop
  <1>3. CASE cli_cursor # CtDo
    <2>1. /\ CliEnd(CtRoot, <<>>, 0, cli_calls, FALSE)
          /\ cli_hurt' = (cli_hurt \/ cli_cursor \in CtNo)
          /\ UNCHANGED << cli_at, cli_off, cli_call, cli_fate >>
      BY <1>3 DEF CliTop
    <2>2. CliShape'
      BY <1>1, <2>1, CliNoTlvs, CliEndShape, CtGroups DEF CliShape, CliHolds
    <2>3. CliAnswered'
      BY <1>1, <2>1, CliSameAnswer DEF CliAnswered
    <2>4. QED
      BY <2>2, <2>3 DEF CliInv
  <1>4. QED
    BY <1>2, <1>3

LEMMA CliUpKeeps == CliInv /\ CliUp => CliInv'
  <1> SUFFICES ASSUME CliInv, CliUp PROVE CliInv'
    OBVIOUS
  <1>1. CliShape /\ CliAnswered /\ cli_phase # "dead" /\ CliAtPrompt
    BY DEF CliInv, CliUp, CliAtPrompt
  <1>2. CASE cli_cursor = CtDo
    BY <1>2, CliDies DEF CliUp
  <1>3. CASE cli_cursor # CtDo
    <2> DEFINE up   == IF cli_cursor = CtRoot THEN CtRoot ELSE CtParent(cli_cursor)
               leaf == CtIsLeaf(cli_cursor)
               buf  == IF leaf /\ cli_buf # <<>> THEN Front(cli_buf) ELSE cli_buf
               mark == IF leaf THEN Len(buf) ELSE cli_mark
    <2>1. /\ CliEnd(up, buf, mark, cli_calls, cli_stray)
          /\ cli_hurt' = (cli_hurt \/ (leaf /\ cli_buf = <<>>))
          /\ UNCHANGED << cli_at, cli_off, cli_call, cli_fate >>
      BY <1>3 DEF CliUp
    <2>2. /\ up \in CtParam
          /\ Range(CliLeaves(up)) \subseteq Range(CliLeaves(cli_cursor))
          /\ leaf => CliLeaves(cli_cursor) = Append(CliLeaves(up), cli_cursor)
          /\ ~leaf => CliLeaves(cli_cursor) = CliLeaves(up)
      <3>1. CASE cli_cursor = CtRoot
        BY <3>1, CtGroups DEF CtIsLeaf
      <3>2. CASE cli_cursor # CtRoot
        BY <1>1, <3>2, CtLeave DEF CliShape
      <3>3. QED
        BY <3>1, <3>2
    <2>3. buf \in Seq(CliTlv) /\ mark \in 0 .. Len(buf)
      <3>1. buf \in Seq(CliTlv)
        BY <1>1, CliSplit DEF CliShape
      <3>2. leaf => mark \in 0 .. Len(buf)
        BY <3>1, LenProperties
      <3>3. ~leaf => mark \in 0 .. Len(buf)
        BY <1>1 DEF CliShape
      <3>4. QED
        BY <3>1, <3>2, <3>3
    <2>4. CliHeld(up, cli_held) /\ CliHeldType(cli_held) /\ CliHeld(cli_cursor, cli_held)
      BY <1>1, <2>2 DEF CliShape, CliHolds, CliHeld
    <2>5. ASSUME cli_calls = <<>>, ~cli_stray
          PROVE  SubSeq(buf, 1, mark) = CliTlvs(up, cli_held)
      <3>1. CliPlain
        BY <2>5, CtTupleWords DEF CliPlain
      <3>2. cli_buf = CliTlvs(cli_cursor, cli_held) /\ cli_mark = Len(cli_buf)
        BY <1>1, <3>1, CliPromptBuf
      <3>3. CASE leaf
        <4> DEFINE tlv == <<Last(cli_cursor), cli_held[cli_cursor]>>
        <4>1. cli_cursor \in Range(CliLeaves(cli_cursor)) /\ cli_cursor \in CtLeafParam
          <5>1. cli_cursor \in CtLeafParam
            BY <1>1, <3>3 DEF CtLeafParam, CliShape
          <5>2. CliLeaves(up) \in Seq(CtLeafParam)
            BY <2>2, CtLeavesIn
          <5>3. Range(Append(CliLeaves(up), cli_cursor)) = Range(CliLeaves(up)) \cup {cli_cursor}
            BY <5>1, <5>2, CliRangeAppend
          <5>4. CliLeaves(cli_cursor) = Append(CliLeaves(up), cli_cursor)
            BY <2>2, <3>3
          <5> HIDE DEF up, leaf
          <5>5. QED
            BY <5>1, <5>3, <5>4
        <4>2. cli_cursor \in DOMAIN cli_held
          BY <2>4, <4>1 DEF CliHeld
        <4>3. \A l \in Range(CliLeaves(up)) : l \in DOMAIN cli_held
          BY <2>4 DEF CliHeld
        <4>4. CliTlvs(cli_cursor, cli_held) = Append(CliTlvs(up, cli_held), tlv)
          <5> HIDE DEF up, buf, mark
          <5>1. QED
            BY <1>1, <2>2, <2>4, <3>3, <4>2, <4>3, CliTlvsAppend DEF CliShape
        <4>5. CliTlvs(up, cli_held) \in Seq(CliTlv)
          <5> HIDE DEF up
          <5>1. QED
            BY <2>2, <2>4, CliTlvsType
        <4>6. tlv \in CliTlv
          <5>1. Last(cli_cursor) \in CtLeafWord /\ cli_held[cli_cursor] \in CliValue(Last(cli_cursor))
            BY <2>4, <4>1, <4>2 DEF CliHeldType, CtLeafParam, CtIsLeaf
          <5>2. QED
            BY <5>1 DEF CliTlv, CliValue
        <4> DEFINE s == CliTlvs(up, cli_held)
        <4>7. cli_buf = Append(s, tlv)
          BY <3>2, <4>4
        <4>8. s \in Seq(CliTlv)
          BY <4>5
        <4> HIDE DEF s, tlv, up
        <4>9. cli_buf # <<>> /\ Front(cli_buf) = s
          <5>1. Append(s, tlv) # <<>> /\ Front(Append(s, tlv)) = s
            BY <4>6, <4>8, AppendProperties, CliSubAppend
          <5>2. QED
            BY <4>7, <5>1, Zenon
        <4>10. buf = s /\ mark = Len(buf)
          BY <3>3, <4>9
        <4>11. QED
          BY <4>8, <4>10, SubSeqFull DEF s
      <3>4. CASE ~leaf
        <4>1. CliTlvs(cli_cursor, cli_held) = CliTlvs(up, cli_held)
          BY <2>2, <3>4, CliTlvsSame DEF CliTlvs
        <4>2. buf = cli_buf /\ mark = Len(cli_buf)
          BY <3>2, <3>4
        <4> HIDE DEF up, buf, mark
        <4>3. QED
          BY <2>3, <3>2, <4>1, <4>2, SubSeqFull
      <3>5. QED
        BY <3>3, <3>4
    <2> HIDE DEF up, buf, mark
    <2>6. CliShape'
      BY <1>1, <2>1, <2>2, <2>3, <2>4, <2>5, CliEndShape DEF CliShape, CliHolds
    <2>7. CliAnswered'
      BY <1>1, <2>1, CliSameAnswer DEF CliAnswered
    <2>8. QED
      BY <2>6, <2>7 DEF CliInv
  <1>4. QED
    BY <1>2, <1>3

LEMMA CliLoadKeeps == CliInv /\ CliLoad => CliInv'
  <1> SUFFICES ASSUME CliInv, CliLoad PROVE CliInv'
    OBVIOUS
  <1>1. CliShape /\ CliAnswered /\ cli_phase = "prompt" /\ Len(cli_calls) < CliMaxNest
    BY DEF CliInv, CliLoad, CliAtPrompt
  <1> DEFINE calls == <<CliReader("file", CtRoot)>> \o cli_calls
  <1>2. /\ cli_calls' = calls /\ cli_buf' = <<>> /\ cli_mark' = 0
        /\ cli_stray' = (cli_stray \/ cli_cursor # CtRoot)
        /\ UNCHANGED << cli_cursor, cli_held, cli_phase, cli_at, cli_off, cli_call, cli_fate,
                        cli_hurt >>
    BY DEF CliLoad
  <1>3. CliReader("file", CtRoot) \in CliReaders /\ CliReader("file", CtRoot).old = CtRoot
    BY CtGroups DEF CliReader, CliReaders
  <1>4. /\ calls \in Seq(CliReaders) /\ Len(calls) = Len(cli_calls) + 1 /\ Len(cli_calls) \in Nat
        /\ Range(calls) = {CliReader("file", CtRoot)} \cup Range(cli_calls)
    BY <1>1, <1>3, CliPush DEF CliShape
  <1>5. \A p \in CliOlds(calls) : CliHeld(p, cli_held)
    BY <1>1, <1>3, <1>4, CliNoTlvs DEF CliShape, CliHolds, CliOlds
  <1> HIDE DEF calls
  <1>6. CliHolds'
    <2>1. CliOlds(cli_calls') = CliOlds(calls)
      BY <1>2
    <2>2. QED
      BY <1>1, <1>2, <1>5, <2>1 DEF CliShape, CliHolds
  <1>7. CliBufInv'
    <2>1. CliPlain' => cli_cursor = CtRoot
      BY <1>2 DEF CliPlain
    <2>2. SubSeq(<<>>, 1, 0) = <<>>
      BY SubSeqEmpty
    <2>3. QED
      BY <1>1, <1>2, <2>1, <2>2, CliNoTlvs DEF CliBufInv
  <1>8. Len(calls) <= CliMaxNest
    BY <1>1, <1>4, CliAssumption
  <1>9. CliShape'
    BY <1>1, <1>2, <1>4, <1>6, <1>7, <1>8, CliNoTlvs, CliAssumption DEF CliShape
  <1>10. CliAnswered'
    BY <1>1, <1>2, CliSameAnswer DEF CliAnswered
  <1>11. QED
    BY <1>9, <1>10 DEF CliInv

\* The calls that are left when the first has returned.
LEMMA CliTailCalls ==
    ASSUME CliShape, cli_calls # <<>>
    PROVE  /\ Head(cli_calls) \in CliReaders /\ Head(cli_calls) \in Range(cli_calls)
           /\ Tail(cli_calls) \in Seq(CliReaders) /\ Len(Tail(cli_calls)) <= CliMaxNest + 1
           /\ \A p \in CliOlds(Tail(cli_calls)) : CliHeld(p, cli_held)
           /\ CliHeld(Head(cli_calls).old, cli_held)
           /\ Tail(cli_calls) = <<>> => \A call \in Range(cli_calls) : call = Head(cli_calls)
  <1>1. /\ Head(cli_calls) \in CliReaders /\ Head(cli_calls) \in Range(cli_calls)
        /\ Tail(cli_calls) \in Seq(CliReaders) /\ Len(Tail(cli_calls)) = Len(cli_calls) - 1
        /\ Len(cli_calls) \in Nat /\ Len(cli_calls) >= 1
        /\ Range(Tail(cli_calls)) \subseteq Range(cli_calls)
    BY CliPop DEF CliShape
  <1>2. Len(Tail(cli_calls)) <= CliMaxNest + 1
    BY <1>1, CliAssumption DEF CliShape
  <1>3. CliOlds(Tail(cli_calls)) \subseteq CliOlds(cli_calls)
    BY <1>1, CliOldsWithin
  <1>4. Head(cli_calls).old \in CliOlds(cli_calls)
    BY <1>1 DEF CliOlds
  <1>5. Tail(cli_calls) = <<>> => \A call \in Range(cli_calls) : call = Head(cli_calls)
    <2>1. SUFFICES ASSUME Tail(cli_calls) = <<>> PROVE \A call \in Range(cli_calls) : call = Head(cli_calls)
      OBVIOUS
    <2>2. Len(cli_calls) = 1
      BY <1>1, <2>1
    <2>3. Range(cli_calls) = {cli_calls[i] : i \in 1 .. Len(cli_calls)}
      BY RangeEquality DEF CliShape
    <2>4. \A i \in 1 .. Len(cli_calls) : i = 1
      BY <2>2
    <2>5. Head(cli_calls) = cli_calls[1]
      OBVIOUS
    <2>6. QED
      BY <2>3, <2>4, <2>5
  <1>6. QED
    BY <1>1, <1>2, <1>3, <1>4, <1>5 DEF CliShape, CliHolds

LEMMA CliFileEndKeeps == CliInv /\ CliFileEnd => CliInv'
  <1> SUFFICES ASSUME CliInv, CliFileEnd PROVE CliInv'
    OBVIOUS
  <1>1. /\ CliShape /\ CliAnswered /\ cli_phase = "prompt" /\ CliAtPrompt
        /\ CliEnd(cli_cursor, cli_buf, cli_mark, Tail(cli_calls), cli_stray)
        /\ UNCHANGED << cli_at, cli_off, cli_call, cli_fate, cli_hurt >>
    BY DEF CliInv, CliFileEnd, CliAtPrompt
  <1>2. cli_calls # <<>> /\ Head(cli_calls).why = "file"
    BY DEF CliFileEnd, CliInFile, CliReason
  <1>3. Tail(cli_calls) = <<>> /\ ~cli_stray => CliPlain
    BY <1>1, <1>2, CliTailCalls DEF CliPlain
  <1>4. Tail(cli_calls) = <<>> /\ ~cli_stray =>
            SubSeq(cli_buf, 1, cli_mark) = CliTlvs(cli_cursor, cli_held)
    BY <1>1, <1>3 DEF CliShape, CliBufInv
  <1>5. CliShape'
    BY <1>1, <1>2, <1>4, CliTailCalls, CliEndShape DEF CliShape, CliHolds
  <1>6. CliAnswered'
    BY <1>1, CliSameAnswer DEF CliAnswered
  <1>7. QED
    BY <1>5, <1>6 DEF CliInv

LEMMA CliRebuilds ==
    ASSUME CliShape, NEW old \in CtParam, CliHeld(old, cli_held)
    PROVE  /\ CliRebuild(old) \in Seq(CliTlv)
           /\ old \notin CtNo => CliRebuild(old) = CliTlvs(old, cli_held)
  <1> DEFINE s == CliTlvs(old, cli_held)
  <1>1. s \in Seq(CliTlv)
    BY CliTlvsType DEF CliShape
  <1>2. <<CliJunk>> \in Seq(CliTlv)
    BY DEF CliJunk, CliTlv
  <1>3. CliRebuild(old) = s \o IF old \in CtNo THEN <<CliJunk>> ELSE <<>>
    BY DEF CliRebuild
  <1> HIDE DEF s
  <1>4. CASE old \in CtNo
    BY <1>1, <1>2, <1>3, <1>4, ConcatProperties
  <1>5. CASE old \notin CtNo
    BY <1>1, <1>3, <1>5, ConcatEmptySeq DEF s
  <1>6. QED
    BY <1>4, <1>5

LEMMA CliReturnKeeps == CliInv /\ CliReturn => CliInv'
  <1> SUFFICES ASSUME CliInv, CliReturn PROVE CliInv'
    OBVIOUS
  <1>1. /\ CliShape /\ CliAnswered /\ cli_phase = "ret" /\ cli_phase # "dead"
        /\ cli_at' = CtRoot /\ cli_off' = FALSE /\ cli_call' = CliNoCall
        /\ UNCHANGED << cli_fate, cli_hurt >>
    BY DEF CliInv, CliReturn
  <1>2. CliAnswered'
    <2>1. cli_fate = ""
      BY <1>1 DEF CliAnswered
    <2>2. QED
      BY <1>1, <2>1, CtGroups DEF CliAnswered, CliServed, CliNoCall
  <1>3. cli_at' \in CtParam
    BY <1>1, CtGroups
  <1>4. CASE /\ CliReason \in {"line", "replay"}
             /\ CliEnd(cli_cursor, cli_buf, cli_mark, cli_calls, cli_stray)
    <2>1. cli_calls = <<>> /\ ~cli_stray => CliPlain
      BY CtTupleWords DEF CliPlain
    <2>2. cli_calls = <<>> /\ ~cli_stray =>
             SubSeq(cli_buf, 1, cli_mark) = CliTlvs(cli_cursor, cli_held)
      BY <1>1, <2>1 DEF CliShape, CliBufInv
    <2>3. CliShape'
      BY <1>1, <1>3, <1>4, <2>2, CliEndShape DEF CliShape, CliHolds
    <2>4. QED
      BY <1>2, <2>3 DEF CliInv
  <1>5. CASE CliReason = "do" /\ cli_cursor = CtDo
    <2> DEFINE old == Head(cli_calls).old
               buf == CliRebuild(old)
    <2>1. CliEnd(old, buf, Len(buf), Tail(cli_calls), old \in CtNo)
      <3>1. CliReason \notin {"line", "replay"} /\ ~CliInFile
        BY <1>5 DEF CliInFile
      <3> HIDE DEF old, buf
      <3>2. QED
        BY <1>5, <3>1, Zenon DEF CliReturn, old, buf
    <2>2. cli_calls # <<>>
      BY <1>5 DEF CliReason
    <2>3. old \in CtParam /\ CliHeld(old, cli_held)
      BY <1>1, <2>2, CliTailCalls DEF CliReaders
    <2>4. buf \in Seq(CliTlv) /\ (old \notin CtNo => buf = CliTlvs(old, cli_held))
      BY <1>1, <2>3, CliRebuilds
    <2> HIDE DEF old, buf
    <2>5. Len(buf) \in 0 .. Len(buf) /\ SubSeq(buf, 1, Len(buf)) = buf
      BY <2>4, LenProperties, SubSeqFull
    <2> DEFINE stray == old \in CtNo
    <2>8. stray \in BOOLEAN /\ (~stray => SubSeq(buf, 1, Len(buf)) = CliTlvs(old, cli_held))
      BY <2>4, <2>5
    <2>9. CliEnd(old, buf, Len(buf), Tail(cli_calls), stray)
      BY <2>1
    <2> HIDE DEF stray
    <2>10. /\ Tail(cli_calls) \in Seq(CliReaders) /\ Len(Tail(cli_calls)) <= CliMaxNest + 1
           /\ \A p \in CliOlds(Tail(cli_calls)) : CliHeld(p, cli_held)
      BY <1>1, <2>2, CliTailCalls
    <2>6. CliShape'
      BY <1>1, <1>3, <2>3, <2>4, <2>5, <2>8, <2>9, <2>10, CliEndShape DEF CliShape
    <2>7. QED
      BY <1>2, <2>6 DEF CliInv
  <1>6. CASE CliReason = "do" /\ cli_cursor # CtDo
    <2>1. CliEnd(cli_cursor, cli_buf, cli_mark, Tail(cli_calls), cli_stray)
      BY <1>6, "line" # "do", "replay" # "do", "file" # "do" DEF CliReturn, CliInFile
    <2>2. cli_calls # <<>> /\ Head(cli_calls).why = "do"
      BY <1>6 DEF CliReason
    <2>3. Tail(cli_calls) = <<>> /\ ~cli_stray => CliPlain
      BY <1>1, <2>2, CliTailCalls DEF CliPlain
    <2>4. Tail(cli_calls) = <<>> /\ ~cli_stray =>
             SubSeq(cli_buf, 1, cli_mark) = CliTlvs(cli_cursor, cli_held)
      BY <1>1, <2>3 DEF CliShape, CliBufInv
    <2>5. CliShape'
      BY <1>1, <1>3, <2>1, <2>2, <2>4, CliTailCalls, CliEndShape DEF CliShape, CliHolds
    <2>6. QED
      BY <1>2, <2>5 DEF CliInv
  <1>7. CASE /\ CliInFile
             /\ cli_phase' = "prompt"
             /\ CliRestore(cli_cursor, cli_buf, cli_mark)
             /\ cli_held' = CliKeep(cli_held, {cli_cursor} \cup CliOlds(cli_calls))
             /\ UNCHANGED << cli_cursor, cli_calls, cli_stray >>
    <2> DEFINE P == {cli_cursor} \cup CliOlds(cli_calls)
    <2>1. /\ CliHeldType(cli_held) /\ CliHeld(cli_cursor, cli_held)
          /\ \A p \in CliOlds(cli_calls) : CliHeld(p, cli_held)
      BY <1>1 DEF CliShape, CliHolds
    <2>2. cli_held' = CliKeep(cli_held, P)
      BY <1>7
    <2>3. /\ CliHeldType(cli_held') /\ CliHeld(cli_cursor, cli_held')
          /\ \A l \in Range(CliLeaves(cli_cursor)) : cli_held'[l] = cli_held[l]
          /\ \A p \in CliOlds(cli_calls) : CliHeld(p, cli_held')
      BY <2>1, <2>2, CliKeeps
    <2> HIDE DEF P
    <2>4. CliTlvs(cli_cursor, cli_held') = CliTlvs(cli_cursor, cli_held)
      BY <1>1, <2>3, CliTlvsSame DEF CliShape
    <2>5. CliHolds'
      BY <1>7, <2>3 DEF CliHolds
    <2>6. /\ cli_buf' \in Seq(CliTlv) /\ cli_mark' \in 0 .. Len(cli_buf')
          /\ cli_mark' = Len(cli_buf') /\ SubSeq(cli_buf', 1, cli_mark') = cli_buf'
          /\ cli_buf' = IF cli_cursor # CtRoot THEN SubSeq(cli_buf, 1, cli_mark) ELSE <<>>
      <3>1. CASE cli_cursor = CtRoot
        <4>1. cli_buf' = <<>> /\ cli_mark' = 0
          BY <1>7, <3>1 DEF CliRestore
        <4>2. SubSeq(<<>>, 1, 0) = <<>>
          BY SubSeqEmpty
        <4>3. QED
          BY <3>1, <4>1, <4>2, CliNoTlvs
      <3>2. CASE cli_cursor # CtRoot
        <4>1. cli_buf' = SubSeq(cli_buf, 1, cli_mark) /\ cli_mark' = cli_mark
          BY <1>7, <3>2 DEF CliRestore
        <4>2. /\ SubSeq(cli_buf, 1, cli_mark) \in Seq(CliTlv)
              /\ Len(SubSeq(cli_buf, 1, cli_mark)) = cli_mark
              /\ SubSeq(SubSeq(cli_buf, 1, cli_mark), 1, cli_mark) = SubSeq(cli_buf, 1, cli_mark)
              /\ cli_mark \in 0 .. cli_mark
          BY <1>1, CliPrefix, LenProperties DEF CliShape
        <4>3. QED
          BY <3>2, <4>1, <4>2
      <3>3. QED
        BY <3>1, <3>2
    <2>7. CliBufInv'
      <3>1. CliPlain' => CliPlain
        BY <1>7 DEF CliPlain
      <3>2. CliPlain => SubSeq(cli_buf, 1, cli_mark) = CliTlvs(cli_cursor, cli_held)
        BY <1>1 DEF CliShape, CliBufInv
      <3>3. CliPlain' => cli_buf' = CliTlvs(cli_cursor, cli_held)
        <4>1. CASE cli_cursor = CtRoot
          BY <2>6, <4>1, CliNoTlvs
        <4>2. CASE cli_cursor # CtRoot
          BY <2>6, <3>1, <3>2, <4>2
        <4>3. QED
          BY <4>1, <4>2
      <3>4. QED
        BY <1>7, <2>4, <2>6, <3>3 DEF CliBufInv
    <2>8. Len(cli_calls) <= CliMaxNest
      BY <1>1, <1>7 DEF CliShape, CliInFile
    <2>9. CliShape'
      BY <1>1, <1>3, <1>7, <2>3, <2>5, <2>6, <2>7, <2>8 DEF CliShape
    <2>10. QED
      BY <1>2, <2>9 DEF CliInv
  <1>8. QED
    BY <1>4, <1>5, <1>6, <1>7 DEF CliReturn

LEMMA CliTokenKeeps == CliInv /\ CliToken => CliInv'
  <1> SUFFICES ASSUME CliInv, CliToken PROVE CliInv'
    OBVIOUS
  <1>1. CliShape /\ CliAnswered /\ cli_phase = "parse"
    BY DEF CliInv, CliToken
  <1>2. PICK next \in CtOptions[cli_at] :
          /\ cli_at' = next
          /\ cli_off' = (cli_off \/ CtIsNo(next))
          /\ IF CtIsLeaf(next)
             THEN \E v \in CliValue(Last(next)) :
                     /\ cli_buf' = Append(cli_buf, <<Last(next), v>>)
                     /\ cli_held' = [l \in DOMAIN cli_held \cup {next} |->
                                        IF l = next THEN v ELSE cli_held[l]]
             ELSE UNCHANGED << cli_buf, cli_held >>
    BY DEF CliToken
  <1>3. UNCHANGED << cli_cursor, cli_mark, cli_phase, cli_calls, cli_call, cli_fate, cli_hurt,
                     cli_stray >>
    BY DEF CliToken
  <1>4. /\ next \in CtParam /\ next \notin Range(CliLeaves(cli_at))
        /\ CliLeaves(next) = IF CtIsLeaf(next) THEN Append(CliLeaves(cli_at), next)
                             ELSE CliLeaves(cli_at)
    BY <1>1, CtStep DEF CliShape
  <1>5. /\ CliHeldType(cli_held) /\ CliHeld(cli_cursor, cli_held) /\ CliHeld(cli_at, cli_held)
        /\ \A p \in CliOlds(cli_calls) : CliHeld(p, cli_held)
    BY <1>1 DEF CliShape, CliHolds
  <1>6. CliPlain' => CliPlain
    BY <1>3 DEF CliPlain
  <1>7. CliPlain => /\ SubSeq(cli_buf, 1, cli_mark) = CliTlvs(cli_cursor, cli_held)
                    /\ cli_buf = CliTlvs(cli_at, cli_held)
                    /\ Range(CliLeaves(cli_cursor)) \subseteq Range(CliLeaves(cli_at))
    BY <1>1 DEF CliShape, CliBufInv
  <1>8. cli_buf \in Seq(CliTlv) /\ cli_mark \in 0 .. Len(cli_buf) /\ Len(cli_buf) \in Nat
    BY <1>1, LenProperties DEF CliShape
  <1>9. CliReason' = CliReason
    BY <1>3 DEF CliReason
  <1>10. CliAnswered'
    BY <1>1, <1>2, <1>3, CliSameAnswer DEF CliAnswered
  <1>11. CASE ~CtIsLeaf(next)
    <2>1. cli_buf' = cli_buf /\ cli_held' = cli_held /\ CliLeaves(next) = CliLeaves(cli_at)
      BY <1>2, <1>4, <1>11
    <2>2. CliHolds'
      BY <1>2, <1>3, <1>5, <2>1 DEF CliHolds, CliHeld
    <2>3. CliTlvs(next, cli_held) = CliTlvs(cli_at, cli_held)
      BY <2>1 DEF CliTlvs
    <2>4. CliBufInv'
      BY <1>1, <1>2, <1>3, <1>6, <1>7, <2>1, <2>3 DEF CliBufInv
    <2>5. CliShape'
      BY <1>1, <1>2, <1>3, <1>4, <1>9, <2>1, <2>2, <2>4 DEF CliShape
    <2>6. QED
      BY <1>10, <2>5 DEF CliInv
  <1>12. CASE CtIsLeaf(next)
    <2>1. PICK v \in CliValue(Last(next)) :
                     /\ cli_buf' = Append(cli_buf, <<Last(next), v>>)
                     /\ cli_held' = [l \in DOMAIN cli_held \cup {next} |->
                                        IF l = next THEN v ELSE cli_held[l]]
      BY <1>2, <1>12
    <2>2. next \in CtLeafParam /\ CliLeaves(next) = Append(CliLeaves(cli_at), next)
      BY <1>4, <1>12 DEF CtLeafParam
    <2>3. /\ CliHeldType(cli_held') /\ DOMAIN cli_held \subseteq DOMAIN cli_held'
          /\ next \in DOMAIN cli_held' /\ cli_held'[next] = v
          /\ \A l \in DOMAIN cli_held : l # next => cli_held'[l] = cli_held[l]
      BY <1>5, <2>1, <2>2 DEF CliHeldType
    <2>4. Range(CliLeaves(next)) = Range(CliLeaves(cli_at)) \cup {next}
      <3>1. CliLeaves(cli_at) \in Seq(CtLeafParam)
        BY <1>1, CtLeavesIn DEF CliShape
      <3>2. Range(Append(CliLeaves(cli_at), next)) = Range(CliLeaves(cli_at)) \cup {next}
        BY <2>2, <3>1, CliRangeAppend
      <3>3. QED
        BY <2>2, <3>2
    <2>5. CliHolds'
      BY <1>2, <1>3, <1>5, <2>3, <2>4 DEF CliHolds, CliHeld
    <2> DEFINE tlv == <<Last(next), v>>
    <2>6. tlv \in CliTlv
      BY <2>1, <2>2 DEF CtLeafParam, CtIsLeaf, CliTlv, CliValue
    <2>7. cli_buf' = Append(cli_buf, tlv)
      BY <2>1
    <2> HIDE DEF tlv
    <2>8. /\ cli_buf' \in Seq(CliTlv) /\ Len(cli_buf') = Len(cli_buf) + 1
          /\ SubSeq(cli_buf', 1, cli_mark) = SubSeq(cli_buf, 1, cli_mark)
      BY <1>8, <2>6, <2>7, AppendProperties, CliPrefix
    <2>9. CliPlain => CliTlvs(next, cli_held') = Append(CliTlvs(cli_at, cli_held), tlv)
      <3>1. \A l \in Range(CliLeaves(cli_at)) : l \in DOMAIN cli_held' /\ cli_held'[l] = cli_held[l]
        BY <1>4, <1>5, <2>3 DEF CliHeld
      <3>2. CliTlvs(next, cli_held') = Append(CliTlvs(cli_at, cli_held), <<Last(next), cli_held'[next]>>)
        BY <1>1, <1>4, <1>5, <1>12, <2>2, <2>3, <3>1, CliTlvsAppend DEF CliShape
      <3>3. QED
        BY <2>3, <3>2 DEF tlv
    <2>10. CliPlain => CliTlvs(cli_cursor, cli_held') = CliTlvs(cli_cursor, cli_held)
      <3>1. CliPlain => \A l \in Range(CliLeaves(cli_cursor)) : cli_held'[l] = cli_held[l]
        BY <1>4, <1>5, <1>7, <2>3 DEF CliHeld
      <3>2. QED
        BY <1>1, <3>1, CliTlvsSame DEF CliShape
    <2>11. CliBufInv'
      BY <1>1, <1>2, <1>3, <1>6, <1>7, <2>4, <2>7, <2>8, <2>9, <2>10 DEF CliBufInv
    <2>12. cli_mark' \in 0 .. Len(cli_buf')
      BY <1>3, <1>8, <2>8
    <2>13. CliShape'
      BY <1>1, <1>2, <1>3, <1>4, <1>9, <2>3, <2>5, <2>8, <2>11, <2>12 DEF CliShape
    <2>14. QED
      BY <1>10, <2>13 DEF CliInv
  <1>13. QED
    BY <1>11, <1>12

LEMMA CliRefuseKeeps == CliInv /\ CliRefuse => CliInv'
  <1> SUFFICES ASSUME CliInv, CliRefuse PROVE CliInv'
    OBVIOUS
  <1>1. CliShape'
    BY DEF CliInv, CliShape, CliRefuse, CliHolds, CliBufInv, CliPlain, CliReason
  <1>2. CliAnswered'
    BY CliSameAnswer DEF CliInv, CliRefuse, CliAnswered
  <1>3. QED
    BY <1>1, <1>2 DEF CliInv

LEMMA CliSuboptionsKeeps == CliInv /\ CliSuboptions => CliInv'
  <1> SUFFICES ASSUME CliInv, CliSuboptions PROVE CliInv'
    OBVIOUS
  <1>1. CliShape /\ CliAnswered /\ cli_phase = "parse"
    BY DEF CliInv, CliSuboptions
  <1>2. CASE CliDie("display") \/ CliDie("no parent")
    BY <1>2, CliDies
  <1>3. CASE ~(CliDie("display") \/ CliDie("no parent"))
    <2>1. /\ cli_cursor' = cli_at /\ cli_mark' = Len(cli_buf) /\ cli_phase' = "ret"
          /\ UNCHANGED << cli_buf, cli_held, cli_at, cli_off, cli_calls, cli_call,
                          cli_fate, cli_hurt, cli_stray >>
      BY <1>3 DEF CliSuboptions
    <2>2. /\ SubSeq(cli_buf, 1, Len(cli_buf)) = cli_buf /\ Len(cli_buf) \in 0 .. Len(cli_buf)
      BY <1>1, SubSeqFull, LenProperties DEF CliShape
    <2>3. CliHolds' /\ CliReason' = CliReason
      BY <1>1, <2>1 DEF CliShape, CliHolds, CliReason
    <2>4. CliBufInv'
      BY <1>1, <2>1, <2>2 DEF CliShape, CliBufInv, CliPlain
    <2>5. CliShape'
      BY <1>1, <2>1, <2>2, <2>3, <2>4 DEF CliShape
    <2>6. CliAnswered'
      BY <1>1, <2>1, CliSameAnswer DEF CliAnswered
    <2>7. QED
      BY <2>5, <2>6 DEF CliInv
  <1>4. QED
    BY <1>2, <1>3

LEMMA CliCrashKeeps == CliInv /\ CliCrash => CliInv'
  BY CliDies DEF CliCrash

\* A command is run: with what its path says, unless the buffer was shaken.
LEMMA CliHandleKeeps ==
    ASSUME CliInv, cli_phase = "parse", cli_at # CtRoot,
           NEW cursor \in {cli_cursor, cli_at}, NEW mark \in 0 .. Len(cli_buf),
           NEW off \in BOOLEAN, NEW buf,
           \/ buf = Append(cli_buf, CliCode)
           \/ buf = cli_buf /\ (CliBranch(cli_at) = <<"repeat">> \/ cli_at = CliConfig),
           CliHandle(cli_at, cursor, buf, mark, off),
           cli_stray' \in BOOLEAN, cli_stray => cli_stray',
           UNCHANGED << cli_held, cli_at, cli_off, cli_hurt >>,
           CliPlain /\ ~cli_stray' =>
                IF CtCallback[cli_at] = "config_mode_enter_handler"
                THEN buf = CliTlvs(cli_at, cli_held)
                ELSE SubSeq(buf, 1, mark) = CliTlvs(cursor, cli_held)
    PROVE  CliInv'
  <1> DEFINE handler == CtCallback[cli_at]
             ids     == {buf[i][1] : i \in 1 .. Len(buf) - 1}
             odd     == cli_stray \/ \E call \in Range(cli_calls) : call.why # "do"
  <1>1. CliShape /\ CliAnswered /\ cli_fate = ""
    BY DEF CliInv, CliAnswered
  <1>2. /\ cli_cursor' = IF handler = "config_mode_enter_handler" THEN cli_at ELSE cursor
        /\ cli_buf' = buf
        /\ cli_mark' = IF handler = "config_mode_enter_handler" THEN Len(buf) ELSE mark
        /\ cli_call' = [param |-> cli_at, tlvs |-> buf, off |-> off, odd |-> odd]
    BY DEF CliHandle
  <1>3. \/ cli_phase' = "dead" /\ cli_fate' = "exit" /\ cli_calls' = cli_calls
        \/ /\ cli_phase' = "dead" /\ cli_fate' = "unknown leaf" /\ cli_calls' = cli_calls
           /\ ~(ids \subseteq CtReads[handler].knows)
        \/ /\ cli_phase' = "dead" /\ cli_fate' = "no node" /\ cli_calls' = cli_calls
           /\ CtReads[handler].node /\ "<node-name>" \notin ids
        \/ /\ cli_phase' = "prompt" /\ Len(cli_calls) < CliMaxNest
           /\ cli_calls' = <<CliReader("replay", CtRoot)>> \o cli_calls /\ cli_fate' = cli_fate
        \/ cli_phase' = "ret" /\ cli_calls' = cli_calls /\ cli_fate' = cli_fate
    BY DEF CliHandle
  <1>4. cli_buf \in Seq(CliTlv) /\ Len(cli_buf) \in Nat /\ CliCode \in CliTlv
    BY <1>1, LenProperties DEF CliShape, CliTlv, CliCode
  <1>5. buf \in Seq(CliTlv) /\ mark \in 0 .. Len(buf) /\ Len(buf) \in 0 .. Len(buf)
    <2>1. /\ Append(cli_buf, CliCode) \in Seq(CliTlv)
          /\ Len(Append(cli_buf, CliCode)) = Len(cli_buf) + 1
      BY <1>4, AppendProperties
    <2>2. CASE buf = Append(cli_buf, CliCode)
      BY <1>4, <2>1, <2>2
    <2>3. CASE buf = cli_buf
      BY <1>4, <2>3
    <2>4. QED
      BY <2>2, <2>3
  <1>6. /\ CliHeldType(cli_held) /\ CliHeld(cli_cursor, cli_held) /\ CliHeld(cli_at, cli_held)
        /\ \A p \in CliOlds(cli_calls) : CliHeld(p, cli_held)
        /\ cli_at \in CtParam /\ cli_cursor \in CtParam
    BY <1>1 DEF CliShape, CliHolds
  <1>7. cursor \in CtParam /\ CliHeld(cursor, cli_held)
    BY <1>6
  <1> DEFINE again == <<CliReader("replay", CtRoot)>> \o cli_calls
  <1>8. /\ again \in Seq(CliReaders) /\ Len(again) = Len(cli_calls) + 1 /\ Len(cli_calls) \in Nat
        /\ Range(again) = {CliReader("replay", CtRoot)} \cup Range(cli_calls)
        /\ CliReader("replay", CtRoot).old = CtRoot /\ CliReader("replay", CtRoot).why = "replay"
    <2>1. CliReader("replay", CtRoot) \in CliReaders
      BY CtGroups DEF CliReader, CliReaders
    <2>2. CliReader("replay", CtRoot).old = CtRoot /\ CliReader("replay", CtRoot).why = "replay"
      BY DEF CliReader
    <2>3. QED
      BY <1>1, <2>1, <2>2, CliPush DEF CliShape
  <1>9. \A p \in CliOlds(again) : CliHeld(p, cli_held)
    BY <1>6, <1>8, CliNoTlvs DEF CliOlds
  <1> HIDE DEF handler, ids, odd, again
  <1>10. cli_calls' = cli_calls \/ cli_calls' = again
    BY <1>3 DEF again
  <1>11. CliHolds'
    <2>1. CliHeld(cli_cursor', cli_held)
      BY <1>2, <1>6, <1>7
    <2>2. \A p \in CliOlds(cli_calls') : CliHeld(p, cli_held)
      BY <1>6, <1>9, <1>10
    <2>3. cli_phase' # "parse"
      BY <1>3
    <2>4. cli_held' = cli_held
      OBVIOUS
    <2>5. QED
      BY <2>1, <2>2, <2>3, <2>4 DEF CliHolds
  <1>12. CliBufInv'
    <2>1. SUFFICES ASSUME CliPlain', cli_phase' # "dead" PROVE CliBufInv'
      BY DEF CliBufInv
    <2>2. cli_calls' = cli_calls /\ cli_phase' = "ret"
      <3>1. cli_calls' # again
        BY <1>8, <2>1 DEF CliPlain
      <3>2. QED
        BY <1>3, <2>1, <3>1 DEF again
    <2>6. CliPlain /\ ~cli_stray'
      BY <2>1, <2>2 DEF CliPlain
    <2>3. CASE handler = "config_mode_enter_handler"
      <3>1. buf = CliTlvs(cli_at, cli_held)
        BY <2>3, <2>6 DEF handler
      <3>2. cli_cursor' = cli_at /\ cli_buf' = buf /\ cli_mark' = Len(buf) /\ cli_held' = cli_held
        BY <1>2, <2>3
      <3>3. SubSeq(buf, 1, Len(buf)) = buf
        BY <1>5, SubSeqFull
      <3>4. QED
        BY <2>2, <3>1, <3>2, <3>3 DEF CliBufInv
    <2>4. CASE handler # "config_mode_enter_handler"
      <3>1. SubSeq(buf, 1, mark) = CliTlvs(cursor, cli_held)
        BY <2>4, <2>6 DEF handler
      <3>2. cli_cursor' = cursor /\ cli_buf' = buf /\ cli_mark' = mark /\ cli_held' = cli_held
        BY <1>2, <2>4
      <3>3. QED
        BY <2>2, <3>1, <3>2 DEF CliBufInv
    <2>5. QED
      BY <2>3, <2>4
  <1>13. /\ cli_calls' \in Seq(CliReaders) /\ Len(cli_calls') <= CliMaxNest + 1
         /\ cli_phase' = "prompt" \/ CliReason' # "do" => Len(cli_calls') <= CliMaxNest
    <2>1. CASE cli_calls' = again /\ Len(cli_calls) < CliMaxNest
      BY <1>8, <2>1, CliAssumption
    <2>2. CASE cli_calls' = cli_calls /\ cli_phase' # "prompt"
      <3>1. CliReason' = CliReason
        BY <2>2 DEF CliReason
      <3>2. QED
        BY <1>1, <2>2, <3>1 DEF CliShape
    <2>3. QED
      BY <1>3, <2>1, <2>2 DEF again
  <1>14. CliShape'
    <2>1. cli_cursor' \in CtParam /\ cli_at' \in CtParam
      BY <1>2, <1>6, <1>7
    <2>2. cli_buf' \in Seq(CliTlv) /\ cli_mark' \in 0 .. Len(cli_buf')
      BY <1>2, <1>5
    <2>3. cli_phase' \in {"prompt", "parse", "ret", "dead"}
      BY <1>3
    <2>4. CliHeldType(cli_held')
      BY <1>6
    <2>5. QED
      BY <1>11, <1>12, <1>13, <2>1, <2>2, <2>3, <2>4 DEF CliShape
  <1>15. ASSUME ~odd PROVE cli_buf = CliTlvs(cli_at, cli_held)
    <2>1. CliPlain
      <3>1. ~cli_stray /\ \A call \in Range(cli_calls) : call.why = "do"
        BY <1>15 DEF odd
      <3>2. QED
        BY <3>1 DEF CliPlain
    <2>2. QED
      BY <1>1, <2>1 DEF CliShape, CliBufInv
  <1> DEFINE s == CliTlvs(cli_at, cli_held)
             t == Append(s, CliCode)
             path == CliPath(cli_at)
  <1>16. /\ CliGivenIn(s) = path /\ CliGivenIn(t) = Append(path, "CMDCODE")
         /\ CliIds(t) = CliLeafWords(cli_at) /\ CliIds(s) \subseteq CliLeafWords(cli_at)
    BY <1>6, CliGiven
  <1>17. ASSUME ~odd
         PROVE  /\ CliGivenIn(buf) = path \/ CliGivenIn(buf) = Append(path, "CMDCODE")
                /\ ids \subseteq CliLeafWords(cli_at)
                /\ ids = CliLeafWords(cli_at) \/ CliBranch(cli_at) = <<"repeat">> \/ cli_at = CliConfig
    <2>1. buf = t \/ (buf = s /\ (CliBranch(cli_at) = <<"repeat">> \/ cli_at = CliConfig))
      BY <1>15, <1>17
    <2>2. ids = CliIds(buf)
      BY DEF ids, CliIds
    <2> HIDE DEF s, t, path
    <2>3. QED
      BY <1>16, <2>1, <2>2
  <1>18. CliServed'
    <2>1. SUFFICES ASSUME ~odd PROVE CliServed'
      <3>1. cli_call'.odd = odd
        BY <1>2
      <3>2. QED
        BY <3>1 DEF CliServed
    <2>2. cli_call'.param = cli_at /\ cli_call'.tlvs = buf
      BY <1>2
    <2>3. cli_fate' = "unknown leaf" => cli_at = CtUnknowing
      <3>1. cli_fate' = "unknown leaf" => ~(ids \subseteq CtReads[handler].knows)
        BY <1>1, <1>3
      <3>2. cli_at # CtUnknowing => CliLeafWords(cli_at) \subseteq CtReads[handler].knows
        BY <1>6, CtKnowsLeaves DEF handler
      <3>3. QED
        BY <1>17, <2>1, <3>1, <3>2
    <2>4. cli_fate' = "no node" => cli_at = <<"run", "spf", "all">>
      <3>1. SUFFICES ASSUME cli_fate' = "no node", cli_at # <<"run", "spf", "all">> PROVE FALSE
        OBVIOUS
      <3>2. CtReads[handler].node /\ "<node-name>" \notin ids
        BY <1>1, <1>3, <3>1
      <3>3. CtOfNode(cli_at)
        BY <1>6, <3>1, <3>2, CtFindsNode DEF handler
      <3>4. QED
        BY <1>17, <2>1, <3>2, <3>3, CtOfNodeIs
    <2>5. QED
      BY <1>17, <2>1, <2>2, <2>3, <2>4 DEF CliServed, CtUnknowing, CliGivenIn, CliPath
  <1>19. CliAnswered'
    <2>1. /\ cli_call'.param = cli_at /\ cli_call'.off = off /\ cli_call'.odd = odd
          /\ odd \in BOOLEAN
      BY <1>2 DEF odd
    <2>2. cli_fate' \in CliFates /\ (cli_fate' # "" => cli_phase' = "dead")
      BY <1>1, <1>3 DEF CliFates
    <2>3. cli_off' \in BOOLEAN /\ cli_hurt' \in BOOLEAN
      BY <1>1 DEF CliAnswered
    <2>4. QED
      BY <1>6, <1>18, <2>1, <2>2, <2>3 DEF CliAnswered
  <1>20. QED
    BY <1>14, <1>19 DEF CliInv

LEMMA CliEntersConfig ==
    ASSUME NEW p \in CtParam, CtCallback[p] = "config_mode_enter_handler"
    PROVE  p = CliConfig
  BY CtReadsIs, CtHandlerIs DEF CliConfig

LEMMA CliEnterKeeps == CliInv /\ CliEnter => CliInv'
  <1> SUFFICES ASSUME CliInv, CliEnter PROVE CliInv'
    OBVIOUS
  <1> DEFINE coded == CliBranch(cli_at) # <<"repeat">> /\ cli_at # CliConfig
             buf   == IF coded THEN Append(cli_buf, CliCode) ELSE cli_buf
             off   == CliDisable(cli_at)
  <1>1. /\ CliShape /\ CliAnswered /\ cli_phase = "parse" /\ cli_at # CtRoot
        /\ CliHandle(cli_at, cli_cursor, buf, cli_mark, off)
        /\ UNCHANGED << cli_held, cli_at, cli_off, cli_hurt, cli_stray >>
    BY DEF CliInv, CliEnter
  <1>2. off \in BOOLEAN
    BY DEF CliDisable
  <1>3. \/ buf = Append(cli_buf, CliCode)
        \/ buf = cli_buf /\ (CliBranch(cli_at) = <<"repeat">> \/ cli_at = CliConfig)
    OBVIOUS
  <1>4. /\ cli_buf \in Seq(CliTlv) /\ cli_mark \in 0 .. Len(cli_buf) /\ cli_at \in CtParam
        /\ cli_stray \in BOOLEAN /\ CliCode \in CliTlv
    BY <1>1 DEF CliShape, CliTlv, CliCode
  <1>5. ASSUME CliPlain
        PROVE  IF CtCallback[cli_at] = "config_mode_enter_handler"
               THEN buf = CliTlvs(cli_at, cli_held)
               ELSE SubSeq(buf, 1, cli_mark) = CliTlvs(cli_cursor, cli_held)
    <2>1. cli_buf = CliTlvs(cli_at, cli_held) /\ SubSeq(cli_buf, 1, cli_mark) = CliTlvs(cli_cursor, cli_held)
      BY <1>1, <1>5 DEF CliShape, CliBufInv
    <2>2. CtCallback[cli_at] = "config_mode_enter_handler" => buf = cli_buf
      BY <1>4, CliEntersConfig
    <2>3. SubSeq(buf, 1, cli_mark) = SubSeq(cli_buf, 1, cli_mark)
      BY <1>3, <1>4, CliPrefix
    <2> HIDE DEF buf
    <2>4. QED
      BY <2>1, <2>2, <2>3
  <1> HIDE DEF buf, off
  <1>6. QED
    BY <1>1, <1>2, <1>3, <1>4, <1>5, CliHandleKeeps

LEMMA CliModeKeeps == CliInv /\ CliMode => CliInv'
  <1> SUFFICES ASSUME CliInv, CliMode PROVE CliInv'
    OBVIOUS
  <1> DEFINE buf == Append(cli_buf, CliCode)
             off == CliDisable(cli_at)
             n   == Len(cli_buf)
  <1>1. /\ CliShape /\ CliAnswered /\ cli_phase = "parse"
    BY DEF CliInv, CliMode
  <1>2. /\ cli_buf \in Seq(CliTlv) /\ n \in 0 .. n /\ n \in Nat /\ cli_at \in CtParam
        /\ cli_stray \in BOOLEAN /\ CliCode \in CliTlv
    BY <1>1, LenProperties DEF CliShape, CliTlv, CliCode
  <1>3. SubSeq(buf, 1, n) = cli_buf /\ buf \in Seq(CliTlv) /\ Len(buf) = n + 1
    BY <1>2, CliPrefix, AppendProperties
  <1>4. CliPlain => cli_buf = CliTlvs(cli_at, cli_held)
    BY <1>1 DEF CliShape, CliBufInv
  <1>5. CASE cli_at = CtRoot
    BY <1>5, CliDies DEF CliMode
  <1>6. CASE cli_at # CtRoot
    <2>1. /\ cli_stray' = (cli_stray \/ cli_at = CliConfig)
          /\ UNCHANGED << cli_held, cli_at, cli_off, cli_hurt >>
      BY <1>6 DEF CliMode
    <2>2. cli_stray' \in BOOLEAN /\ (cli_stray => cli_stray')
      BY <1>2, <2>1
    <2>3. CASE CtCallback[cli_at] # ""
      <3>1. CliHandle(cli_at, cli_at, buf, n, off)
        BY <1>6, <2>3 DEF CliMode
      <3>2. off \in BOOLEAN
        BY DEF CliDisable
      <3>3. CliPlain /\ ~cli_stray' =>
               IF CtCallback[cli_at] = "config_mode_enter_handler"
               THEN buf = CliTlvs(cli_at, cli_held)
               ELSE SubSeq(buf, 1, n) = CliTlvs(cli_at, cli_held)
        <4> HIDE DEF buf, n
        <4>1. QED
          BY <1>2, <1>3, <1>4, <2>1, CliEntersConfig
      <3>4. buf = Append(cli_buf, CliCode)
        OBVIOUS
      <3>5. n \in 0 .. Len(cli_buf)
        BY <1>2
      <3> HIDE DEF buf, n, off
      <3>6. QED
        BY <1>1, <1>6, <2>1, <2>2, <3>1, <3>2, <3>3, <3>4, <3>5, CliHandleKeeps
    <2>4. CASE CtCallback[cli_at] = ""
      <3>1. /\ cli_cursor' = cli_at /\ cli_buf' = buf /\ cli_mark' = n /\ cli_phase' = "ret"
            /\ UNCHANGED << cli_calls, cli_call, cli_fate >>
        BY <1>6, <2>4 DEF CliMode
      <3> HIDE DEF buf
      <3>2. CliHolds' /\ CliReason' = CliReason
        BY <1>1, <2>1, <3>1 DEF CliShape, CliHolds, CliReason
      <3>3. CliPlain' => CliPlain
        BY <2>1, <3>1 DEF CliPlain
      <3>4. CliBufInv'
        BY <1>3, <1>4, <2>1, <3>1, <3>3 DEF CliBufInv
      <3>5. cli_mark' \in 0 .. Len(cli_buf')
        BY <1>2, <1>3, <3>1
      <3>6. CliShape'
        BY <1>1, <1>3, <2>1, <2>2, <3>1, <3>2, <3>4, <3>5 DEF CliShape
      <3>7. CliAnswered'
        BY <1>1, <2>1, <3>1, CliSameAnswer DEF CliAnswered
      <3>8. QED
        BY <3>6, <3>7 DEF CliInv
    <2>5. QED
      BY <2>3, <2>4
  <1>7. QED
    BY <1>5, <1>6

-----------------------------------------------------------------------------
(* The theorems.                                                           *)

LEMMA CliStutters ==
    ASSUME CliInv, UNCHANGED cliVars
    PROVE  CliInv'
  BY DEF CliInv, CliShape, CliAnswered, CliServed, CliHolds, CliBufInv, CliPlain, CliReason, cliVars

LEMMA CliSteps == CliInv /\ [CliNext]_cliVars => CliInv'
  BY CliStutters, CliLineKeeps, CliDoKeeps, CliTopKeeps, CliUpKeeps, CliLoadKeeps, CliFileEndKeeps,
     CliTokenKeeps, CliRefuseKeeps, CliEnterKeeps, CliModeKeeps, CliSuboptionsKeeps,
     CliReturnKeeps, CliCrashKeeps DEF CliNext

LEMMA CliInvIs == CliInv => CliTypeOK /\ CliContext /\ CliServed
  <1> SUFFICES ASSUME CliInv PROVE CliTypeOK /\ CliContext /\ CliServed
    OBVIOUS
  <1>1. CliTypeOK
    BY DEF CliInv, CliShape, CliAnswered, CliTypeOK, CliTlv, CliHeldType, CtLeafParam, CliFates
  <1>2. CliContext
    <2>1. cli_calls = <<>> /\ ~cli_stray => CliPlain
      BY CtTupleWords DEF CliPlain
    <2>2. QED
      BY <2>1, CliPromptBuf DEF CliInv, CliContext, CliAtPrompt
  <1>3. QED
    BY <1>1, <1>2 DEF CliInv, CliAnswered

\* The buffer describes the cursor, the handler is handed its path, and every leaf the
\* program can still read has the value the user gave it.
THEOREM CliInvariant == CliSpec => []CliInv
  BY CliInitInv, CliSteps, PTL DEF CliSpec

\* The parser's state is of its types: the checkpoint (tlv_buff->checkpoint) is within the
\* buffer, only leaves hold values, and calls nest no deeper than the bound.
THEOREM CliTypes == CliSpec => []CliTypeOK
  BY CliInvariant, CliInvIs, PTL

\* At the prompt of a mode the buffer holds the leaves that lead to the mode.
THEOREM CliContextAlways == CliSpec => []CliContext
  BY CliInvariant, CliInvIs, PTL

\* A command given at the keyboard is handed the leaves of its own path, and its handler
\* knows them, but for two.
THEOREM CliServedAlways == CliSpec => []CliServed
  BY CliInvariant, CliInvIs, PTL

-----------------------------------------------------------------------------
(* The switch.                                                             *)

\* The array of one interface, as SwVlansPacked has it.
SwPacked(h) ==
    \A j, k \in SwPlace :
        /\ j < k /\ h[k] # 0 => h[j] # 0
        /\ j # k /\ h[k] # 0 => h[j] # h[k]

\* VLANs are put on trunks only, and they outlive the trunk only by way of an
\* IP address.
SwOnTrunks ==
    \A i \in SwIntf : AccessVlan(i) # 0 => i \in sw_detour \/ (sw_mode[i] = "TRUNK" /\ ~sw_l3[i])

SwInv == SwTypeOK /\ SwVlansPacked /\ SwOnTrunks /\ SwNothingSwitched

LEMMA SwPlaceIsInt == SwPlace \subseteq Int /\ 0 \in SwPlace
  BY SwAssumption DEF SwPlace

LEMMA SwPackedIs == SwVlansPacked <=> \A i \in SwIntf : SwPacked(sw_vlans[i])
  BY DEF SwVlansPacked, SwPacked

-----------------------------------------------------------------------------
(* The arrays.                                                             *)

LEMMA SwClearedPacked ==
    ASSUME NEW h \in [SwPlace -> SwVlan \cup {0}], SwPacked(h), NEW from \in Nat
    PROVE  SwPacked([k \in SwPlace |-> IF k >= from THEN 0 ELSE h[k]])
  BY SwPlaceIsInt DEF SwPacked

\* The first place that is free or has the VLAN gets it: nothing before it
\* has, and if it is free all that follow are free.
LEMMA SwTrunkPacked ==
    ASSUME NEW h \in [SwPlace -> SwVlan \cup {0}], SwPacked(h), NEW v \in SwVlan
    PROVE  SwPacked([k \in SwPlace |->
                       IF /\ k \in {x \in SwPlace : h[x] \in {0, v}}
                          /\ \A j \in {x \in SwPlace : h[x] \in {0, v}} : k <= j
                       THEN v ELSE h[k]])
  <1> DEFINE First(k) == h[k] \in {0, v} /\ \A j \in SwPlace : h[j] \in {0, v} => k <= j
             g == [k \in SwPlace |-> IF First(k) THEN v ELSE h[k]]
  <1>1. v # 0
    BY SwAssumption
  <1>2. SUFFICES SwPacked(g)
    OBVIOUS
  <1>3. ASSUME NEW j \in SwPlace, NEW k \in SwPlace, j < k, g[k] # 0
        PROVE  g[j] # 0
    <2>1. CASE First(j)
      BY <1>1, <2>1
    <2>2. CASE ~First(j) /\ First(k)
      BY <1>3, <2>2, SwPlaceIsInt
    <2>3. CASE ~First(j) /\ ~First(k)
      BY <1>3, <2>3 DEF SwPacked
    <2>4. QED
      BY <2>1, <2>2, <2>3
  <1>4. ASSUME NEW j \in SwPlace, NEW k \in SwPlace, j # k, g[k] # 0, g[j] = g[k]
        PROVE  FALSE
    <2>1. ~(First(j) /\ First(k))
      BY <1>4, SwPlaceIsInt
    <2>2. CASE ~First(j) /\ ~First(k)
      BY <1>4, <2>2 DEF SwPacked
    \* Two places have v, and one of them, x, is the first.
    <2>3. ASSUME NEW x \in SwPlace, NEW y \in SwPlace, x # y, First(x), ~First(y), h[y] = v
          PROVE  FALSE
      <3>1. x < y
        BY <2>3, SwPlaceIsInt
      <3>2. h[x] # 0
        BY <1>1, <2>3, <3>1 DEF SwPacked
      <3>3. h[x] = v
        BY <2>3, <3>2
      <3>4. QED
        BY <1>1, <2>3, <3>3 DEF SwPacked
    <2>4. CASE First(j) /\ ~First(k)
      BY <1>4, <2>3, <2>4
    <2>5. CASE ~First(j) /\ First(k)
      BY <1>4, <2>3, <2>5
    <2>6. QED
      BY <2>1, <2>2, <2>4, <2>5
  <1>5. QED
    BY <1>3, <1>4 DEF SwPacked

-----------------------------------------------------------------------------
LEMMA SwInitInv == SwInit => SwInv
  BY SwPlaceIsInt DEF SwInit, SwInv, SwTypeOK, SwVlansPacked, SwOnTrunks, SwNothingSwitched, AccessVlan

\* The steps of the configuration, whose frames and tables stay as they are.
LEMMA SwConfigStep ==
    ASSUME SwInv, UNCHANGED <<sw_mac_table, sw_out, sw_dead>>, SwTypeOK',
           SwVlansPacked', SwOnTrunks', sw_detour \subseteq sw_detour'
    PROVE  SwInv'
  BY DEF SwInv, SwNothingSwitched, SwOnTrunks, AccessVlan

LEMMA SwSetIpAddressStep ==
    ASSUME SwInv, NEW i \in SwIntf, SwSetIpAddress(i)
    PROVE  SwInv'
  <1>1. SwTypeOK'
    BY DEF SwInv, SwTypeOK, SwSetIpAddress
  <1>2. SwVlansPacked'
    BY DEF SwInv, SwVlansPacked, SwSetIpAddress
  <1>3. SwOnTrunks'
    BY DEF SwInv, SwTypeOK, SwOnTrunks, SwSetIpAddress, AccessVlan
  <1>4. QED
    BY <1>1, <1>2, <1>3, SwConfigStep DEF SwSetIpAddress

LEMMA InterfaceSetL2ModeStep ==
    ASSUME SwInv, NEW i \in SwIntf, NEW mode \in {"ACCESS", "TRUNK"}, InterfaceSetL2Mode(i, mode)
    PROVE  SwInv'
  <1> DEFINE none == [k \in SwPlace |-> IF k >= 0 THEN 0 ELSE sw_vlans[i][k]]
             clears == ~sw_l3[i] /\ sw_mode[i] = "TRUNK" /\ mode = "ACCESS"
  <1>1. sw_vlans' = IF clears THEN [sw_vlans EXCEPT ![i] = none] ELSE sw_vlans
    BY DEF InterfaceSetL2Mode, SwClearVlans
  <1>2. none \in [SwPlace -> SwVlan \cup {0}] /\ SwPacked(none) /\ none[0] = 0
    <2>1. sw_vlans[i] \in [SwPlace -> SwVlan \cup {0}] /\ SwPacked(sw_vlans[i])
      BY SwPackedIs DEF SwInv, SwTypeOK
    <2>2. none \in [SwPlace -> SwVlan \cup {0}] /\ none[0] = 0
      BY <2>1, SwPlaceIsInt
    <2>3. SwPacked(none)
      BY <2>1, SwClearedPacked
    <2>4. QED
      BY <2>2, <2>3
  <1> HIDE DEF none
  <1>3. SwTypeOK'
    BY <1>1, <1>2 DEF SwInv, SwTypeOK, InterfaceSetL2Mode
  <1>4. SwVlansPacked'
    <2>1. \A x \in SwIntf : SwPacked(sw_vlans[x])
      BY SwPackedIs DEF SwInv
    <2>2. \A x \in SwIntf : SwPacked(sw_vlans'[x])
      BY <1>1, <1>2, <2>1 DEF SwInv, SwTypeOK
    <2>3. QED
      BY <2>2 DEF SwVlansPacked, SwPacked
  <1>5. SwOnTrunks'
    BY <1>1, <1>2 DEF SwInv, SwTypeOK, SwOnTrunks, InterfaceSetL2Mode, AccessVlan
  <1>6. QED
    BY <1>3, <1>4, <1>5, SwConfigStep DEF InterfaceSetL2Mode

LEMMA InterfaceSetVlanStep ==
    ASSUME SwInv, NEW i \in SwIntf, NEW v \in SwVlan, InterfaceSetVlan(i, v)
    PROVE  SwInv'
  <1>0. /\ sw_vlans[i] \in [SwPlace -> SwVlan \cup {0}]
        /\ \A x \in SwIntf : SwPacked(sw_vlans[x])
        /\ ~sw_l3[i]
        /\ UNCHANGED <<sw_building, sw_mode, sw_detour, sw_mac_table, sw_out, sw_dead>>
    BY SwPackedIs DEF SwInv, SwTypeOK, InterfaceSetVlan
  <1>1. ASSUME NEW h, h \in [SwPlace -> SwVlan \cup {0}], SwPacked(h),
               sw_vlans' = [sw_vlans EXCEPT ![i] = h], sw_l3' \in [SwIntf -> BOOLEAN]
        PROVE  SwTypeOK' /\ SwVlansPacked'
    <2>1. \A x \in SwIntf : SwPacked(sw_vlans'[x])
      BY <1>0, <1>1 DEF SwInv, SwTypeOK
    <2>2. SwVlansPacked'
      BY <2>1 DEF SwVlansPacked, SwPacked
    <2>3. QED
      BY <1>0, <1>1, <2>2 DEF SwInv, SwTypeOK
  <1>2. CASE SetAccessVlan(i, v)
    <2> DEFINE h == [k \in SwPlace |-> IF k >= 1 THEN 0 ELSE sw_vlans[i][k]]
    <2>1. /\ sw_vlans' = [sw_vlans EXCEPT ![i] = h] /\ sw_mode[i] = "ACCESS"
          /\ sw_l3' = [sw_l3 EXCEPT ![i] = (v \div 256) % 256 # 0]
      BY <1>2 DEF SetAccessVlan, SwClearVlans
    <2>2. sw_l3' \in [SwIntf -> BOOLEAN]
      <3>1. ((v \div 256) % 256 # 0) \in BOOLEAN
        OBVIOUS
      <3>2. QED
        BY <2>1, <3>1 DEF SwInv, SwTypeOK
    <2>3. h \in [SwPlace -> SwVlan \cup {0}] /\ SwPacked(h) /\ h[0] = sw_vlans[i][0]
      <3> DEFINE g == sw_vlans[i]
      <3>1. g \in [SwPlace -> SwVlan \cup {0}] /\ SwPacked(g)
        BY <1>0
      <3>2. h = [k \in SwPlace |-> IF k >= 1 THEN 0 ELSE g[k]]
        OBVIOUS
      <3> HIDE DEF g, h
      <3>3. SwPacked([k \in SwPlace |-> IF k >= 1 THEN 0 ELSE g[k]])
        BY <3>1, SwClearedPacked
      <3>4. h[0] = g[0] /\ h \in [SwPlace -> SwVlan \cup {0}]
        BY <3>1, <3>2, SwPlaceIsInt
      <3>5. QED
        BY <3>2, <3>3, <3>4 DEF g
    <2> HIDE DEF h
    <2>4. SwTypeOK' /\ SwVlansPacked'
      BY <1>1, <2>1, <2>2, <2>3
    <2>5. SwOnTrunks'
      <3>1. \A x \in SwIntf : AccessVlan(x)' = AccessVlan(x)
        BY <2>1, <2>3 DEF SwInv, SwTypeOK, AccessVlan
      <3>2. \A x \in SwIntf \ {i} : sw_l3'[x] = sw_l3[x]
        BY <2>1 DEF SwInv, SwTypeOK
      <3>3. QED
        BY <1>0, <2>1, <3>1, <3>2 DEF SwInv, SwOnTrunks
    <2>6. QED
      BY <1>0, <2>4, <2>5, SwConfigStep
  <1>3. CASE SetTrunkVlan(i, v)
    <2> DEFINE h == [k \in SwPlace |->
                       IF /\ k \in {x \in SwPlace : sw_vlans[i][x] \in {0, v}}
                          /\ \A j \in {x \in SwPlace : sw_vlans[i][x] \in {0, v}} : k <= j
                       THEN v ELSE sw_vlans[i][k]]
    <2>1. sw_vlans' = [sw_vlans EXCEPT ![i] = h] /\ sw_mode[i] = "TRUNK" /\ sw_l3' = sw_l3
      BY <1>3 DEF SetTrunkVlan
    <2>2. h \in [SwPlace -> SwVlan \cup {0}] /\ SwPacked(h)
      BY <1>0, SwTrunkPacked
    <2> HIDE DEF h
    <2>3. SwTypeOK' /\ SwVlansPacked'
      BY <1>1, <2>1, <2>2 DEF SwInv, SwTypeOK
    <2>4. SwOnTrunks'
      BY <1>0, <2>1 DEF SwInv, SwTypeOK, SwOnTrunks, AccessVlan
    <2>5. QED
      BY <1>0, <2>3, <2>4, SwConfigStep
  <1>4. QED
    BY <1>2, <1>3 DEF InterfaceSetVlan

\* With an empty table a frame that is let in kills the process.
LEMMA FrameRecvStep ==
    ASSUME SwInv, NEW i \in SwIntf, NEW src, NEW dst, FrameRecv(i, src, dst)
    PROVE  SwInv'
  <1>1. i \in sw_detour
    BY DEF FrameRecv, Qualify, SwInv, SwNothingSwitched
  <1>2. ~MacTableKnows(src)
    BY DEF MacTableKnows, SwInv, SwNothingSwitched
  <1>3. sw_dead' = "learn" /\ UNCHANGED <<sw_mac_table, sw_out, sw_building, swConfigVars>>
    BY <1>2 DEF FrameRecv, SwitchFrame
  <1>4. QED
    BY <1>1, <1>3 DEF SwInv, SwTypeOK, SwVlansPacked, SwOnTrunks, SwNothingSwitched, swConfigVars,
                      AccessVlan

LEMMA SwInductive == SwInv /\ [SwNext]_swVars => SwInv'
  <1> SUFFICES ASSUME SwInv, [SwNext]_swVars
               PROVE  SwInv'
    OBVIOUS
  <1>1. ASSUME NEW i \in SwIntf, SwSetIpAddress(i)
        PROVE  SwInv'
    BY <1>1, SwSetIpAddressStep
  <1>2. ASSUME NEW i \in SwIntf, NEW mode \in {"ACCESS", "TRUNK"}, InterfaceSetL2Mode(i, mode)
        PROVE  SwInv'
    BY <1>2, InterfaceSetL2ModeStep
  <1>3. ASSUME NEW i \in SwIntf, NEW v \in SwVlan, InterfaceSetVlan(i, v)
        PROVE  SwInv'
    BY <1>3, InterfaceSetVlanStep
  <1>4. CASE SwStart
    BY <1>4 DEF SwStart, swConfigVars, SwInv, SwTypeOK, SwVlansPacked, SwOnTrunks,
                SwNothingSwitched, AccessVlan
  <1>5. ASSUME NEW i \in SwIntf, NEW src, NEW dst, FrameRecv(i, src, dst)
        PROVE  SwInv'
    BY <1>5, FrameRecvStep
  <1>6. ASSUME NEW i \in SwIntf, FrameRecvTagged(i)
        PROVE  SwInv'
    BY <1>6 DEF FrameRecvTagged, swConfigVars, SwInv, SwTypeOK, SwVlansPacked, SwOnTrunks,
                SwNothingSwitched, AccessVlan
  <1>7. CASE UNCHANGED swVars
    BY <1>7 DEF swVars, swConfigVars, SwInv, SwTypeOK, SwVlansPacked, SwOnTrunks,
                SwNothingSwitched, AccessVlan
  <1>8. QED
    BY <1>1, <1>2, <1>3, <1>4, <1>5, <1>6, <1>7 DEF SwNext

THEOREM SwInvariant == SwSpec => []SwInv
  BY SwInitInv, SwInductive, PTL DEF SwSpec

\* interface_set_vlan keeps the array of every interface packed and without
\* duplicates, however modes, VLANs and IP addresses follow each other.
THEOREM SwVlansPackedAlways == SwSpec => []SwVlansPacked
  BY SwInvariant, PTL DEF SwInv

\* What comes of an access port that never gets its VLAN (interface_set_vlan) and
\* of the comparison through NULL (mac_table_entry_add), against layer2.h and the
\* README: for any interfaces, VLANs and frames, the switch never learns an
\* address nor sends a frame.
THEOREM SwNothingSwitchedAlways == SwSpec => []SwNothingSwitched
  BY SwInvariant, PTL DEF SwInv

-----------------------------------------------------------------------------
(* The shared buffer.                                                      *)

\* A sending that nothing has overlapped is the only one, and the buffer holds
\* what it has put there.
TrLone ==
    \A z \in tr_sends : z.alone =>
        /\ tr_sends = {z}
        /\ z.next \in {"payload", "sendto"} => tr_name = TrOther[z.intf][2]
        /\ z.next = "sendto" => tr_payload = z.frame

\* A datagram of such a sending is whole, and is addressed to the neighbour.
TrWhole(n, d) ==
    d.alone => TrOther[d.from] = <<n, d.name>> /\ d.payload = d.length

TrQueued == \A n \in TrNode : \A k \in DOMAIN tr_socket[n] : TrWhole(n, tr_socket[n][k])

TrInv == TrTypeOK /\ TrLone /\ TrQueued /\ TrIntact

LEMMA TrInitInv == TrInit => TrInv
  <1> SUFFICES ASSUME TrInit PROVE TrInv
    OBVIOUS
  <1>1. TrTypeOK
    BY DEF TrInit, TrTypeOK
  <1>2. TrLone /\ TrQueued /\ TrIntact
    BY DEF TrInit, TrLone, TrQueued, TrIntact
  <1>3. QED
    BY <1>1, <1>2 DEF TrInv

\* One datagram more in a socket keeps what the sockets hold.
LEMMA TrAppend ==
    ASSUME NEW n \in TrNode, NEW d \in TrDatagram, TrWhole(n, d),
           tr_socket \in [TrNode -> Seq(TrDatagram)], TrQueued,
           tr_socket' = [tr_socket EXCEPT ![n] = Append(@, d)]
    PROVE  tr_socket' \in [TrNode -> Seq(TrDatagram)] /\ TrQueued'
  <1>1. tr_socket' \in [TrNode -> Seq(TrDatagram)]
    OBVIOUS
  <1>2. ASSUME NEW m \in TrNode, NEW k \in DOMAIN tr_socket'[m]
        PROVE  TrWhole(m, tr_socket'[m][k])
    <2>1. CASE m # n
      BY <1>2, <2>1 DEF TrQueued
    <2>2. CASE m = n
      <3>1. tr_socket'[m] = Append(tr_socket[n], d) /\ tr_socket[n] \in Seq(TrDatagram)
        BY <2>2
      <3>2. CASE k \in DOMAIN tr_socket[n]
        BY <2>2, <3>1, <3>2 DEF TrQueued
      <3>3. CASE k \notin DOMAIN tr_socket[n]
        BY <1>2, <2>2, <3>1, <3>3
      <3>4. QED
        BY <3>2, <3>3
    <2>3. QED
      BY <2>1, <2>2
  <1>3. QED
    BY <1>1, <1>2 DEF TrQueued, TrWhole

\* Nothing is taken up in the steps of a sending.
LEMMA TrNotTaken == tr_taken' = {} => TrIntact' /\ tr_taken' \subseteq [at : TrIntf, datagram : TrDatagram]
  BY DEF TrIntact

LEMMA TrSteps ==
    ASSUME TrInv, [TrNext]_trVars
    PROVE  TrInv'
  <1>0. /\ tr_up \in [TrIntf -> BOOLEAN] /\ tr_bound \subseteq TrNode
        /\ tr_sends \subseteq TrSend /\ \A z, u \in tr_sends : z.thread = u.thread => z = u
        /\ tr_name \in TrNames \cup {TrZero} /\ tr_payload \in TrFrame \cup {TrZero}
        /\ tr_socket \in [TrNode -> Seq(TrDatagram)]
        /\ TrLone /\ TrQueued
    BY DEF TrInv, TrTypeOK
  <1>1. ASSUME NEW t \in TrThread, NEW i \in TrIntf, NEW f \in TrFrame, TrBegin(t, i, f)
        PROVE  TrInv'
    <2> DEFINE new == [thread |-> t, intf |-> i, frame |-> f, next |-> "name",
                       alone |-> tr_sends = {}]
    <2>1. /\ tr_sends' = TrAlone(tr_sends, FALSE) \cup {new}
          /\ \A z \in tr_sends : z.thread # t
          /\ tr_name' = TrZero /\ tr_payload' = TrZero /\ tr_taken' = {}
          /\ UNCHANGED <<tr_up, tr_bound, tr_socket>>
      BY <1>1 DEF TrBegin
    <2>2. new \in TrSend /\ new.thread = t /\ new.next = "name"
      BY DEF TrSend
    <2>3. new.alone => tr_sends = {}
      OBVIOUS
    <2> HIDE DEF new
    <2>4. \A z \in TrAlone(tr_sends, FALSE) :
            z \in TrSend /\ ~z.alone /\ \E u \in tr_sends : z = [u EXCEPT !.alone = FALSE]
      BY <1>0 DEF TrAlone, TrSend
    <2>5. \A z, u \in tr_sends' : z.thread = u.thread => z = u
      <3>1. \A z \in TrAlone(tr_sends, FALSE) : z.thread # t
        BY <1>0, <2>1 DEF TrAlone, TrSend
      <3>2. \A z, u \in TrAlone(tr_sends, FALSE) : z.thread = u.thread => z = u
        <4>1. \A z \in tr_sends : [z EXCEPT !.alone = FALSE].thread = z.thread
          BY <1>0 DEF TrSend
        <4>2. ASSUME NEW z \in tr_sends, NEW u \in tr_sends,
                     [z EXCEPT !.alone = FALSE].thread = [u EXCEPT !.alone = FALSE].thread
              PROVE  [z EXCEPT !.alone = FALSE] = [u EXCEPT !.alone = FALSE]
          BY <1>0, <4>1, <4>2
        <4>3. QED
          BY <4>2 DEF TrAlone
      <3>3. QED
        BY <2>1, <2>2, <3>1, <3>2
    <2>6. TrTypeOK'
      BY <1>0, <2>1, <2>2, <2>4, <2>5 DEF TrTypeOK
    <2>7. TrLone'
      BY <2>1, <2>2, <2>3, <2>4 DEF TrLone, TrAlone
    <2>8. TrQueued'
      BY <1>0, <2>1 DEF TrQueued, TrWhole
    <2>9. QED
      BY <2>1, <2>6, <2>7, <2>8, TrNotTaken DEF TrInv
  <1>2. ASSUME NEW z \in tr_sends, TrFillName(z)
        PROVE  TrInv'
    <2> DEFINE new == [z EXCEPT !.next = "payload"]
    <2>1. /\ tr_sends' = (tr_sends \ {z}) \cup {new} /\ tr_name' = TrOther[z.intf][2]
          /\ tr_taken' = {} /\ UNCHANGED <<tr_up, tr_bound, tr_payload, tr_socket>>
      BY <1>2 DEF TrFillName, TrAddressee
    <2>2. /\ new \in TrSend /\ new.thread = z.thread /\ new.intf = z.intf
          /\ new.next = "payload" /\ new.alone = z.alone /\ z \in TrSend
      BY <1>0 DEF TrSend
    <2> HIDE DEF new
    <2>3. tr_name' \in TrNames
      BY <2>1, <2>2, TrAssumption DEF TrSend, TrNames
    <2>4. TrTypeOK'
      BY <1>0, <2>1, <2>2, <2>3 DEF TrTypeOK
    <2>5. TrLone'
      BY <1>0, <2>1, <2>2 DEF TrLone
    <2>6. TrQueued'
      BY <1>0, <2>1 DEF TrQueued, TrWhole
    <2>7. QED
      BY <2>1, <2>4, <2>5, <2>6, TrNotTaken DEF TrInv
  <1>3. ASSUME NEW z \in tr_sends, TrFillPayload(z)
        PROVE  TrInv'
    <2> DEFINE new == [z EXCEPT !.next = "sendto"]
    <2>1. /\ tr_sends' = (tr_sends \ {z}) \cup {new} /\ tr_payload' = z.frame
          /\ tr_taken' = {} /\ UNCHANGED <<tr_up, tr_bound, tr_name, tr_socket>>
          /\ z.next = "payload"
      BY <1>3 DEF TrFillPayload
    <2>2. /\ new \in TrSend /\ new.thread = z.thread /\ new.intf = z.intf /\ new.frame = z.frame
          /\ new.next = "sendto" /\ new.alone = z.alone /\ z \in TrSend
      BY <1>0 DEF TrSend
    <2> HIDE DEF new
    <2>3. tr_payload' \in TrFrame
      BY <2>1, <2>2 DEF TrSend
    <2>4. TrTypeOK'
      BY <1>0, <2>1, <2>2, <2>3 DEF TrTypeOK
    <2>5. TrLone'
      BY <1>0, <2>1, <2>2 DEF TrLone
    <2>6. TrQueued'
      BY <1>0, <2>1 DEF TrQueued, TrWhole
    <2>7. QED
      BY <2>1, <2>4, <2>5, <2>6, TrNotTaken DEF TrInv
  <1>4. ASSUME NEW z \in tr_sends, TrSendTo(z)
        PROVE  TrInv'
    <2> DEFINE n == TrOther[z.intf][1]
               d == [name |-> tr_name, payload |-> tr_payload, length |-> z.frame,
                     from |-> z.intf, alone |-> z.alone]
    <2>1. /\ \/ tr_socket' = [tr_socket EXCEPT ![n] = Append(@, d)]
             \/ tr_socket' = tr_socket
          /\ tr_sends' = tr_sends \ {z} /\ tr_taken' = {}
          /\ UNCHANGED <<tr_up, tr_bound, tr_name, tr_payload>> /\ z.next = "sendto"
      BY <1>4 DEF TrSendTo
    <2>2. z \in TrSend /\ d \in TrDatagram /\ n \in TrNode
      BY <1>0, TrAssumption DEF TrSend, TrDatagram
    <2>3. TrOther[z.intf] = <<TrOther[z.intf][1], TrOther[z.intf][2]>>
      BY <2>2, TrAssumption DEF TrSend
    <2>4. TrWhole(n, d)
      BY <1>0, <2>1, <2>3 DEF TrLone, TrWhole
    <2> HIDE DEF n, d
    <2>5. tr_socket' \in [TrNode -> Seq(TrDatagram)] /\ TrQueued'
      <3>1. CASE tr_socket' = [tr_socket EXCEPT ![n] = Append(@, d)]
        BY <1>0, <2>2, <2>4, <3>1, TrAppend
      <3>2. CASE tr_socket' = tr_socket
        BY <1>0, <3>2 DEF TrQueued, TrWhole
      <3>3. QED
        BY <2>1, <3>1, <3>2
    <2>6. TrTypeOK'
      BY <1>0, <2>1, <2>5 DEF TrTypeOK
    <2>7. TrLone'
      BY <1>0, <2>1 DEF TrLone
    <2>8. QED
      BY <2>1, <2>5, <2>6, <2>7, TrNotTaken DEF TrInv
  <1>5. ASSUME NEW n \in TrNode, TrReceive(n)
        PROVE  TrInv'
    <2> DEFINE q == tr_socket[n]
    <2>1. /\ q # <<>> /\ tr_socket' = [tr_socket EXCEPT ![n] = Tail(q)]
          /\ tr_taken' = {[at |-> i, datagram |-> Head(q)] :
                            i \in {j \in TrIntf : j = <<n, Head(q).name>> /\ tr_up[j]}}
          /\ UNCHANGED <<tr_up, tr_bound, tr_sends, tr_name, tr_payload>>
      BY <1>5 DEF TrReceive, PktReceive
    <2>2. q \in Seq(TrDatagram)
      BY <1>0
    <2>3. \A k \in DOMAIN q : TrWhole(n, q[k])
      BY <1>0 DEF TrQueued
    <2> HIDE DEF q
    <2>4. /\ Head(q) \in TrDatagram /\ TrWhole(n, Head(q))
          /\ Tail(q) \in Seq(TrDatagram)
      BY <2>1, <2>2, <2>3
    <2>5. \A k \in DOMAIN Tail(q) : TrWhole(n, Tail(q)[k])
      BY <2>1, <2>2, <2>3
    <2>6. TrTypeOK'
      BY <1>0, <2>1, <2>4 DEF TrTypeOK
    <2>7. TrLone'
      BY <1>0, <2>1 DEF TrLone
    <2>8. TrQueued'
      <3>1. \A m \in TrNode : m # n => tr_socket'[m] = tr_socket[m]
        BY <1>0, <2>1
      <3>2. tr_socket'[n] = Tail(q)
        BY <1>0, <2>1
      <3>3. ASSUME NEW m \in TrNode, NEW k \in DOMAIN tr_socket'[m]
            PROVE  TrWhole(m, tr_socket'[m][k])
        <4>1. CASE m = n
          BY <2>5, <3>2, <3>3, <4>1
        <4>2. CASE m # n
          BY <1>0, <3>1, <3>3, <4>2 DEF TrQueued
        <4>3. QED
          BY <4>1, <4>2
      <3>4. QED
        BY <3>3 DEF TrQueued, TrWhole
    <2>9. TrIntact'
      BY <2>1, <2>4 DEF TrIntact, TrWhole
    <2>10. QED
      BY <2>6, <2>7, <2>8, <2>9 DEF TrInv
  <1>6. ASSUME NEW i \in TrIntf, TrConfig(i)
        PROVE  TrInv'
    <2>1. /\ tr_up' \in [TrIntf -> BOOLEAN] /\ tr_taken' = {}
          /\ UNCHANGED <<tr_bound, tr_sends, tr_name, tr_payload, tr_socket>>
      BY <1>0, <1>6 DEF TrConfig
    <2>2. TrTypeOK' /\ TrLone'
      BY <1>0, <2>1 DEF TrTypeOK, TrLone
    <2>3. TrQueued'
      BY <1>0, <2>1 DEF TrQueued, TrWhole
    <2>4. QED
      BY <2>1, <2>2, <2>3, TrNotTaken DEF TrInv
  <1>7. ASSUME TrGenerate
        PROVE  TrInv'
    <2> DEFINE n == TrGenerator[1]
               f == CHOOSE g \in TrFrame : TRUE
               i == CHOOSE j \in TrIntf : j[1] = n
               d == [name |-> TrGenerator[2], payload |-> f, length |-> f, from |-> i,
                     alone |-> FALSE]
    <2>1. /\ tr_socket' = [tr_socket EXCEPT ![n] = Append(@, d)] /\ tr_taken' = {}
          /\ UNCHANGED <<tr_up, tr_bound, tr_sends, tr_name, tr_payload>>
      BY <1>7 DEF TrGenerate
    <2>2. f \in TrFrame /\ i \in TrIntf /\ n \in TrNode
      BY TrAssumption
    <2> HIDE DEF n, f, i
    <2>3. d \in TrDatagram /\ TrWhole(n, d)
      BY <2>2 DEF TrDatagram, TrNames, TrWhole
    <2> HIDE DEF d
    <2>4. tr_socket' \in [TrNode -> Seq(TrDatagram)] /\ TrQueued'
      BY <1>0, <2>1, <2>2, <2>3, TrAppend
    <2>5. TrTypeOK' /\ TrLone'
      BY <1>0, <2>1, <2>4 DEF TrTypeOK, TrLone
    <2>6. QED
      BY <2>1, <2>4, <2>5, TrNotTaken DEF TrInv
  <1>8. CASE UNCHANGED trVars
    BY <1>8 DEF trVars, TrInv, TrTypeOK, TrLone, TrQueued, TrWhole, TrIntact
  <1>9. QED
    <2>1. ASSUME NEW o \in TrOffers, TrBegin(o[1], o[2], o[3])
          PROVE  TrInv'
      BY <1>1, <2>1, TrAssumption
    <2>2. QED
      BY <1>2, <1>3, <1>4, <1>5, <1>6, <1>7, <1>8, <2>1, TrAssumption DEF TrNext

\* The types, the lone sending's hold on the buffer, and the datagrams in the
\* sockets (send_pkt_out, _pkt_receive).
THEOREM TrInvariant == TrSpec => []TrInv
  <1>1. TrInv /\ [TrNext]_trVars => TrInv'
    BY TrSteps
  <1>2. QED
    BY <1>1, TrInitInv, PTL DEF TrSpec

\* A frame whose sending no other overlapped comes whole to the other end of
\* its link, though all the threads share send_buffer (send_pkt_out).
THEOREM TrIntactAlways == TrSpec => []TrIntact
  <1>1. TrInv => TrIntact
    BY DEF TrInv
  <1>2. QED
    BY <1>1, TrInvariant, PTL

-----------------------------------------------------------------------------
(* The log.                                                                *)

\* A silenced router has no flag on but stdout, nor has an interface of it.
LgQuiet(n) == \A x \in {n} \cup LgIntfOf(n) : lg_log[x] \subseteq {"stdout"}

LgInv ==
    /\ LgTypeOK
    /\ \A n \in lg_silenced : LgQuiet(n)
    /\ LgSilenced

LEMMA LgNodeOfIntf == ASSUME NEW i \in LgIntf PROVE i[1] \in LgNode /\ i \in LgIntfOf(i[1])
  BY LgAssumption DEF LgIntfOf

\* A log function that writes to no file and not to standard output for a
\* silenced router.
LEMMA LgWriteSilenced ==
    ASSUME LgInv, NEW n \in LgNode, NEW to \in SUBSET (LgTarget \cup {LgConsole}),
           n \in lg_silenced => to = {},
           LgWrite(n, to), UNCHANGED <<lg_log, lg_stdout, lg_silenced>>
    PROVE  LgInv'
  <1>1. lg_written' = [of : {n}, to : to]
    BY DEF LgWrite
  <1>2. LgTypeOK'
    BY <1>1 DEF LgInv, LgTypeOK
  <1>3. LgSilenced'
    <2> SUFFICES ASSUME NEW w \in lg_written' PROVE w.of \notin lg_silenced
      BY DEF LgSilenced
    <2>1. w.of = n /\ w.to \in to
      BY <1>1
    <2>2. QED
      BY <2>1
  <1>4. QED
    BY <1>2, <1>3 DEF LgInv, LgQuiet

\* Where an entry may go.
LEMMA LgPlaces ==
    ASSUME NEW xs \in SUBSET LgTarget, NEW flags
    PROVE  LgFiles(xs, flags) \cup LgSockets(xs) \in SUBSET (LgTarget \cup {LgConsole})
  BY DEF LgFiles, LgSockets

\* A command that changes the flags.  What becomes silent has lost its flags,
\* and whose flags are set is not silent any more.
LEMMA LgConfigInv ==
    ASSUME LgInv, lg_log' \in [LgTarget -> SUBSET LgFlag],
           lg_silenced' \subseteq LgNode, lg_written' = {}, lg_stdout' \in BOOLEAN,
           \A n \in lg_silenced' : LgQuiet(n)'
    PROVE  LgInv'
  BY DEF LgInv, LgTypeOK, LgSilenced

LEMMA LgInitInv == LgInit => LgInv
  BY DEF LgInit, LgInv, LgTypeOK, LgQuiet, LgSilenced, LgTarget, LgIntfOf

LEMMA LgSteps == LgInv /\ [LgNext]_lgVars => LgInv'
  <1> SUFFICES ASSUME LgInv, [LgNext]_lgVars PROVE LgInv'
    OBVIOUS
  <1>1. ASSUME NEW i \in LgIntf, LgRecv(i) PROVE LgInv'
    <2> DEFINE to == IF LgAny(i[1], {"all", "recv"}) \/ LgOn(i, "recv")
                       THEN LgFiles({i[1], i}, {"all", "recv"}) \cup LgSockets({i[1], i})
                       ELSE {}
    <2>1. i[1] \in LgNode /\ to \in SUBSET (LgTarget \cup {LgConsole})
      BY LgNodeOfIntf, LgPlaces DEF LgTarget
    <2>2. i[1] \in lg_silenced => to = {}
      BY LgNodeOfIntf DEF LgInv, LgQuiet, LgAny, LgOn
    <2>3. LgWrite(i[1], to) /\ UNCHANGED <<lg_log, lg_stdout, lg_silenced>>
      BY <1>1 DEF LgRecv
    <2> HIDE DEF to
    <2>4. QED
      BY <2>1, <2>2, <2>3, LgWriteSilenced
  <1>2. ASSUME NEW i \in LgIntf, LgSend(i) PROVE LgInv'
    <2> DEFINE to == IF LgAny(i[1], {"all", "send"})
                       THEN LgFiles({i[1], i}, {"all", "send"}) \cup LgSockets({i[1], i})
                       ELSE {}
    <2>1. i[1] \in LgNode /\ to \in SUBSET (LgTarget \cup {LgConsole})
      BY LgNodeOfIntf, LgPlaces DEF LgTarget
    <2>2. i[1] \in lg_silenced => to = {}
      BY LgNodeOfIntf DEF LgInv, LgQuiet, LgAny
    <2>3. LgWrite(i[1], to) /\ UNCHANGED <<lg_log, lg_stdout, lg_silenced>>
      BY <1>2 DEF LgSend
    <2> HIDE DEF to
    <2>4. QED
      BY <2>1, <2>2, <2>3, LgWriteSilenced
  <1>3. ASSUME NEW n \in LgNode, LgForward(n) PROVE LgInv'
    <2> DEFINE to == IF LgOn(n, "l3-fwd")
                       THEN LgFiles({n}, {"all", "l3-fwd"}) \cup LgSockets({n})
                       ELSE {}
    <2>1. to \in SUBSET (LgTarget \cup {LgConsole})
      BY LgPlaces DEF LgTarget
    <2>2. n \in lg_silenced => to = {}
      BY DEF LgInv, LgQuiet, LgOn
    <2>3. LgWrite(n, to) /\ UNCHANGED <<lg_log, lg_stdout, lg_silenced>>
      BY <1>3 DEF LgForward
    <2> HIDE DEF to
    <2>4. QED
      BY <2>1, <2>2, <2>3, LgWriteSilenced
  <1>4. ASSUME NEW o \in LgOffers, NEW on \in BOOLEAN, LgConfigAll(o[1], on)
        PROVE  LgInv'
    <2>1. PICK x \in LgTarget : x = o[1]
      BY LgAssumption DEF LgTarget
    <2>2. \A y \in LgTarget : LgSetAll(lg_log[y], on) \subseteq LgFlag
      BY DEF LgInv, LgTypeOK, LgSetAll, LgFlag
    <2>3. lg_log' = [y \in LgTarget |->
                       IF on THEN IF y = x THEN LgSetAll(lg_log[y], TRUE) ELSE lg_log[y]
                       ELSE IF y \in LgAllOf(x) THEN LgSetAll(lg_log[y], FALSE) ELSE lg_log[y]]
      BY <1>4, <2>1 DEF LgConfigAll
    <2>4. lg_log' \in [LgTarget -> SUBSET LgFlag]
      BY <2>2, <2>3 DEF LgInv, LgTypeOK
    <2>5. ASSUME NEW n \in lg_silenced' PROVE LgQuiet(n)'
      <3> SUFFICES ASSUME NEW y \in {n} \cup LgIntfOf(n) PROVE lg_log'[y] \subseteq {"stdout"}
        BY DEF LgQuiet, LgIntfOf
      <3>1. y \in LgTarget /\ n \in LgNode
        BY <1>4, <2>1 DEF LgConfigAll, LgInv, LgTypeOK, LgTarget, LgIntfOf
      <3>2. CASE on
        <4>1. n \in lg_silenced /\ n # x /\ x \notin LgIntfOf(n)
          BY <1>4, <2>1, <3>2 DEF LgConfigAll
        <4>2. QED
          BY <2>3, <3>1, <3>2, <4>1 DEF LgInv, LgQuiet
      <3>3. CASE ~on
        <4>1. n \in lg_silenced \/ n = x
          BY <1>4, <2>1, <3>3 DEF LgConfigAll
        <4>2. CASE y \in LgAllOf(x)
          BY <2>3, <3>1, <3>3, <4>2 DEF LgSetAll
        <4>3. CASE y \notin LgAllOf(x)
          <5>1. n \in lg_silenced
            BY <3>1, <4>1, <4>3 DEF LgAllOf
          <5>2. QED
            BY <2>3, <3>1, <3>3, <4>3, <5>1 DEF LgInv, LgQuiet
        <4>4. QED
          BY <4>2, <4>3
      <3>4. QED
        BY <3>2, <3>3
    <2>6. lg_silenced' \subseteq LgNode /\ lg_written' = {} /\ lg_stdout' \in BOOLEAN
      BY <1>4 DEF LgConfigAll, LgInv, LgTypeOK
    <2>7. QED
      BY <2>4, <2>5, <2>6, LgConfigInv
  <1>5. ASSUME NEW o \in LgOffers, NEW on \in BOOLEAN, LgConfig(o[1], o[2], on)
        PROVE  LgInv'
    <2>1. PICK x \in LgTarget, flag \in LgFlag : x = o[1] /\ flag = o[2]
      BY LgAssumption DEF LgTarget
    <2>2. lg_log' = [lg_log EXCEPT ![x] = IF on THEN lg_log[x] \cup {flag}
                                                ELSE lg_log[x] \ {flag}]
      BY <1>5, <2>1 DEF LgConfig
    <2>3. lg_log' \in [LgTarget -> SUBSET LgFlag]
      BY <2>1, <2>2 DEF LgInv, LgTypeOK
    <2>4. ASSUME NEW n \in lg_silenced' PROVE LgQuiet(n)'
      <3> SUFFICES ASSUME NEW y \in {n} \cup LgIntfOf(n) PROVE lg_log'[y] \subseteq {"stdout"}
        BY DEF LgQuiet, LgIntfOf
      <3>1. n \in lg_silenced /\ (on /\ flag # "stdout" => n # x /\ x \notin LgIntfOf(n))
        BY <1>5, <2>1, <2>4 DEF LgConfig
      <3>2. y \in LgTarget /\ lg_log[y] \subseteq {"stdout"}
        BY <3>1 DEF LgInv, LgTypeOK, LgQuiet, LgTarget, LgIntfOf
      <3>3. CASE y = x
        <4>1. on => flag = "stdout"
          BY <3>1, <3>3
        <4>2. QED
          BY <2>2, <3>2, <3>3, <4>1 DEF LgInv, LgTypeOK
      <3>4. CASE y # x
        BY <2>2, <3>2, <3>4 DEF LgInv, LgTypeOK
      <3>5. QED
        BY <3>3, <3>4
    <2>5. lg_silenced' \subseteq LgNode /\ lg_written' = {} /\ lg_stdout' \in BOOLEAN
      BY <1>5 DEF LgConfig, LgInv, LgTypeOK
    <2>6. QED
      BY <2>3, <2>4, <2>5, LgConfigInv
  <1>6. ASSUME NEW on \in BOOLEAN, LgConfigStdout(on) PROVE LgInv'
    BY <1>6 DEF LgConfigStdout, LgInv, LgTypeOK, LgQuiet, LgSilenced
  <1>7. CASE UNCHANGED lgVars
    BY <1>7 DEF lgVars, LgInv, LgTypeOK, LgQuiet, LgSilenced
  <1>8. QED
    BY <1>1, <1>2, <1>3, <1>4, <1>5, <1>6, <1>7 DEF LgNext

\* A router that was asked for no-all logs nothing until a flag is set again,
\* for any network, any interfaces and any sequence of the commands.
THEOREM LgAlwaysSilenced == LgSpec => []LgSilenced
  <1>1. LgInv => LgSilenced
    BY DEF LgInv
  <1>2. QED
    BY <1>1, LgInitInv, LgSteps, PTL DEF LgSpec

-----------------------------------------------------------------------------
(* The ARP table.                                                          *)

\* Who holds a pointer to an entry that is not freed holds it to an entry the
\* table has: without this a forwarded packet could arm a timer for nothing.  A
\* thread does one thing at a time, and only the receiver takes in replies, so
\* the list of what waits at an entry is sent by one thread, up to the end of
\* is_sane.
ArpHolds ==
    /\ \A h \in arp_held : h.entry = "present" => arp_state[h.ip] # "none"
    /\ \A h \in arp_held : h.entry = "present" /\ h.at \in {"send", "clear"} =>
                               arp_state[h.ip] = "sane"
    /\ \A h \in arp_held : h.at \in {"send", "clear"} => h.thread = ArpReceiver
    /\ \A g, h \in arp_held : g.thread = h.thread => g = h
    /\ \A h \in arp_held : h.at = "missed" => h.entry = "absent"
    /\ \A h \in arp_held : h.at = "send" => h.mac \in ArpMac

ArpInv == ArpTypeOK /\ ArpWaits /\ ArpTimed /\ ArpHolds

LEMMA ArpZeroType == <<ArpZero, "whole">> \in ArpAddress
  BY DEF ArpAddress

LEMMA ArpTypeInit == ArpInit => ArpTypeOK
  <1> SUFFICES ASSUME ArpInit PROVE ArpTypeOK
    OBVIOUS
  <1>1. ArpOff \in ArpOff .. ArpExpTime /\ 0 \in 0 .. ArpMaxReplies
    BY ArpAssumption DEF ArpOff
  <1>2. arp_mac \in [ArpIp -> ArpAddress]
    BY ArpZeroType DEF ArpInit
  <1>3. /\ arp_state \in [ArpIp -> {"none", "sane", "full"}]
        /\ arp_pending \in [ArpIp -> Nat]
        /\ arp_timer \in [ArpIp -> ArpOff .. ArpExpTime]
        /\ arp_replies \in [ArpIp -> 0 .. ArpMaxReplies]
    BY <1>1 DEF ArpInit
  <1>4. QED
    BY <1>2, <1>3 DEF ArpInit, ArpTypeOK

\* What becomes of an entry that is given a state, a MAC and a queue.
LEMMA ArpEntryType ==
    ASSUME ArpTypeOK, NEW ip \in ArpIp, NEW st \in {"none", "sane", "full"},
           NEW mac \in ArpAddress, NEW n \in Nat, ArpSetEntry(ip, st, mac, n)
    PROVE  /\ arp_state' \in [ArpIp -> {"none", "sane", "full"}]
           /\ arp_mac' \in [ArpIp -> ArpAddress]
           /\ arp_pending' \in [ArpIp -> Nat]
           /\ arp_state'[ip] = st /\ arp_pending'[ip] = n
           /\ \A x \in ArpIp \ {ip} : /\ arp_state'[x] = arp_state[x]
                                      /\ arp_pending'[x] = arp_pending[x]
  BY DEF ArpTypeOK, ArpSetEntry

LEMMA ArpArmType ==
    ASSUME ArpTypeOK, NEW ip \in ArpIp,
           arp_timer' = [arp_timer EXCEPT ![ip] = ArpExpTime]
    PROVE  /\ arp_timer' \in [ArpIp -> ArpOff .. ArpExpTime]
           /\ arp_timer'[ip] # ArpOff /\ arp_timer'[ip] # 0
           /\ \A x \in ArpIp \ {ip} : arp_timer'[x] = arp_timer[x]
  <1>1. ArpExpTime \in ArpOff .. ArpExpTime /\ ArpExpTime # ArpOff /\ ArpExpTime # 0
    BY ArpAssumption DEF ArpOff
  <1>2. QED
    BY <1>1 DEF ArpTypeOK

LEMMA ArpAskType ==
    ASSUME ArpTypeOK, NEW ip \in ArpIp, ArpAsk(ip)
    PROVE  arp_replies' \in [ArpIp -> 0 .. ArpMaxReplies]
  BY ArpAssumption DEF ArpTypeOK, ArpAsk

LEMMA ArpTakeType ==
    ASSUME ArpTypeOK, NEW ip \in ArpIp, arp_replies[ip] > 0,
           arp_replies' = [arp_replies EXCEPT ![ip] = @ - 1]
    PROVE  arp_replies' \in [ArpIp -> 0 .. ArpMaxReplies]
  BY ArpAssumption DEF ArpTypeOK

LEMMA ArpFreedType ==
    ASSUME ArpTypeOK, NEW ip \in ArpIp
    PROVE  /\ ArpFreed(ip) \subseteq ArpHolding
           /\ \A h \in ArpFreed(ip) : h.entry = "present" => h \in arp_held /\ h.ip # ip
  <1> SUFFICES ASSUME NEW g \in arp_held,
                      NEW h, h = IF g.ip = ip /\ g.entry = "present"
                                   THEN [g EXCEPT !.entry = "freed"] ELSE g
               PROVE  /\ h \in ArpHolding
                      /\ h.entry = "present" => h \in arp_held /\ h.ip # ip
    BY DEF ArpFreed
  <1>1. g \in ArpHolding
    BY DEF ArpTypeOK
  <1>2. CASE g.ip = ip /\ g.entry = "present"
    <2>1. h \in ArpHolding /\ h.entry = "freed"
      BY <1>1, <1>2 DEF ArpHolding
    <2>2. QED
      BY <2>1
  <1>3. CASE ~(g.ip = ip /\ g.entry = "present")
    BY <1>1, <1>3
  <1>4. QED
    BY <1>2, <1>3

\* The MACs that the table and the frames have.
LEMMA ArpMacType ==
    ASSUME NEW m \in ArpMac
    PROVE  <<m, "whole">> \in ArpAddress /\ ArpCopied(m) \in ArpAddress
  BY DEF ArpAddress, ArpCopied

\* A held entry is freed or stays as it was, and so do its thread and place.
LEMMA ArpFreedKeeps ==
    ASSUME ArpTypeOK, NEW ip \in ArpIp, NEW h \in ArpFreed(ip)
    PROVE  \E g \in arp_held :
              /\ h.thread = g.thread /\ h.at = g.at /\ h.ip = g.ip /\ h.mac = g.mac
              /\ h = IF g.ip = ip /\ g.entry = "present"
                       THEN [g EXCEPT !.entry = "freed"] ELSE g
  <1>1. PICK g \in arp_held : h = IF g.ip = ip /\ g.entry = "present"
                                    THEN [g EXCEPT !.entry = "freed"] ELSE g
    BY DEF ArpFreed
  <1>2. g \in ArpHolding
    BY DEF ArpTypeOK
  <1>3. h.thread = g.thread /\ h.at = g.at /\ h.ip = g.ip /\ h.mac = g.mac
    BY <1>1, <1>2 DEF ArpHolding
  <1>4. QED
    BY <1>1, <1>3

\* The receiver goes on with a reply as before if no such step is made.
LEMMA ArpDrainedSame ==
    ASSUME \A g \in arp_held : g.at = "clear" => g \in arp_held',
           \A g \in arp_held' : g.at = "clear" => g \in arp_held
    PROVE  \A x \in ArpIp : ArpDrained(x)' <=> ArpDrained(x)
  BY DEF ArpDrained

\* Once the entry of ip is freed no list of it is being sent.
LEMMA ArpDrainedFreed ==
    ASSUME ArpTypeOK, NEW ip \in ArpIp, NEW gone, \A h \in gone : h.entry = "absent",
           arp_held' = ArpFreed(ip) \ gone
    PROVE  /\ ~ArpDrained(ip)'
           /\ \A x \in ArpIp \ {ip} : ArpDrained(x)' <=> ArpDrained(x)
  <1>1. ~ArpDrained(ip)'
    BY ArpFreedType DEF ArpDrained
  <1>2. ASSUME NEW x \in ArpIp \ {ip}, ArpDrained(x)'
        PROVE  ArpDrained(x)
    BY <1>2, ArpFreedType DEF ArpDrained
  <1>3. ASSUME NEW x \in ArpIp \ {ip}, ArpDrained(x)
        PROVE  ArpDrained(x)'
    <2>1. PICK h \in arp_held : h.ip = x /\ h.at = "clear" /\ h.entry = "present"
      BY <1>3 DEF ArpDrained
    <2>2. h \in ArpFreed(ip)
      BY <2>1 DEF ArpFreed
    <2>3. h \in arp_held'
      BY <2>1, <2>2
    <2>4. QED
      BY <2>1, <2>3 DEF ArpDrained
  <1>4. QED
    BY <1>1, <1>2, <1>3

\* Who holds what after the entry of ip was freed.
LEMMA ArpHoldsFreed ==
    ASSUME ArpInv, NEW ip \in ArpIp, NEW gone, arp_held' = ArpFreed(ip) \ gone,
           \A x \in ArpIp \ {ip} : arp_state'[x] = arp_state[x]
    PROVE  ArpHolds' /\ arp_held' \subseteq ArpHolding
  <1>1. arp_held' \subseteq ArpHolding
    BY ArpFreedType DEF ArpInv
  <1>2. ASSUME NEW h \in arp_held', h.entry = "present"
        PROVE  h \in arp_held /\ h.ip \in ArpIp \ {ip}
    BY <1>2, ArpFreedType DEF ArpInv, ArpTypeOK, ArpHolding
  <1>3. /\ \A h \in arp_held' : h.entry = "present" => arp_state'[h.ip] # "none"
        /\ \A h \in arp_held' : h.entry = "present" /\ h.at \in {"send", "clear"} =>
                                    arp_state'[h.ip] = "sane"
    BY <1>2 DEF ArpInv, ArpHolds
  <1>4. \A h \in arp_held' : h.at \in {"send", "clear"} => h.thread = ArpReceiver
    BY ArpFreedKeeps DEF ArpInv, ArpHolds
  <1>5. ASSUME NEW g \in arp_held', NEW h \in arp_held', g.thread = h.thread
        PROVE  g = h
    <2>1. PICK a \in arp_held : /\ g.thread = a.thread
                                /\ g = IF a.ip = ip /\ a.entry = "present"
                                         THEN [a EXCEPT !.entry = "freed"] ELSE a
      BY ArpFreedKeeps DEF ArpInv
    <2>2. PICK b \in arp_held : /\ h.thread = b.thread
                                /\ h = IF b.ip = ip /\ b.entry = "present"
                                         THEN [b EXCEPT !.entry = "freed"] ELSE b
      BY ArpFreedKeeps DEF ArpInv
    <2>3. a.thread = b.thread
      BY <1>5, <2>1, <2>2
    <2>4. a = b
      BY <2>3 DEF ArpInv, ArpHolds
    <2>5. QED
      BY <2>1, <2>2, <2>4
  <1>6. ASSUME NEW h \in arp_held'
        PROVE  /\ h.at = "missed" => h.entry = "absent"
               /\ h.at = "send" => h.mac \in ArpMac
    <2>1. PICK a \in arp_held : /\ h.at = a.at /\ h.mac = a.mac
                                /\ h = IF a.ip = ip /\ a.entry = "present"
                                         THEN [a EXCEPT !.entry = "freed"] ELSE a
      BY ArpFreedKeeps DEF ArpInv
    <2>2. a.at = "missed" => h = a
      BY <2>1 DEF ArpInv, ArpHolds
    <2>3. QED
      BY <2>1, <2>2 DEF ArpInv, ArpHolds
  <1>7. QED
    BY <1>1, <1>3, <1>4, <1>5, <1>6 DEF ArpHolds

\* A thread goes on to a place that is not one of a reply, or is done.
LEMMA ArpHoldsGoesOn ==
    ASSUME ArpInv, NEW h \in arp_held, h.at \notin {"send", "clear"},
           NEW where \in {"missed", "append", "wait"}, NEW found \in {"absent", "present"},
           found = "present" => arp_state[h.ip] # "none",
           where = "missed" => found = "absent",
           ArpGoesOn(h, where, found), UNCHANGED arp_state
    PROVE  /\ ArpHolds' /\ arp_held' \subseteq ArpHolding
           /\ \A x \in ArpIp : ArpDrained(x)' <=> ArpDrained(x)
  <1> DEFINE g == [h EXCEPT !.at = where, !.entry = found]
  <1>1. h \in ArpHolding
    BY DEF ArpInv, ArpTypeOK
  <1>2. /\ g \in ArpHolding /\ g.thread = h.thread /\ g.ip = h.ip
        /\ g.at = where /\ g.entry = found
    BY <1>1 DEF ArpHolding
  <1>3. arp_held' = (arp_held \ {h}) \cup {g}
    BY DEF ArpGoesOn
  <1> HIDE DEF g
  <1>4. ArpHolds'
    BY <1>2, <1>3 DEF ArpInv, ArpHolds
  <1>5. \A x \in ArpIp : ArpDrained(x)' <=> ArpDrained(x)
    BY <1>2, <1>3, ArpDrainedSame
  <1>6. QED
    BY <1>2, <1>3, <1>4, <1>5 DEF ArpInv, ArpTypeOK

LEMMA ArpHoldsDone ==
    ASSUME ArpInv, NEW h \in arp_held, h.at \notin {"send", "clear"},
           arp_held' = arp_held \ {h}, UNCHANGED arp_state
    PROVE  /\ ArpHolds' /\ arp_held' \subseteq ArpHolding
           /\ \A x \in ArpIp : ArpDrained(x)' <=> ArpDrained(x)
  <1>1. \A x \in ArpIp : ArpDrained(x)' <=> ArpDrained(x)
    BY ArpDrainedSame
  <1>2. QED
    BY <1>1 DEF ArpInv, ArpHolds, ArpTypeOK

\* A thread that was idle begins.
LEMMA ArpHoldsBegins ==
    ASSUME ArpInv, NEW g \in ArpHolding, ArpIdle(g.thread), arp_held' = arp_held \cup {g},
           UNCHANGED arp_state, g.at \notin {"clear", "missed"},
           g.entry = "present" => arp_state[g.ip] # "none",
           g.at = "send" => /\ g.thread = ArpReceiver /\ arp_state[g.ip] = "sane"
                            /\ g.mac \in ArpMac
    PROVE  /\ ArpHolds' /\ arp_held' \subseteq ArpHolding
           /\ \A x \in ArpIp : ArpDrained(x)' <=> ArpDrained(x)
  <1>1. \A x \in ArpIp : ArpDrained(x)' <=> ArpDrained(x)
    BY ArpDrainedSame
  <1>2. QED
    BY <1>1 DEF ArpInv, ArpHolds, ArpTypeOK, ArpIdle

-----------------------------------------------------------------------------
(* The operators that several steps share.                                 *)

\* A new entry waits for an answer with its packet, or is complete without any.
LEMMA ArpTableEntryAddStep ==
    ASSUME ArpInv, NEW ip \in ArpIp, NEW st \in {"sane", "full"}, NEW mac \in ArpAddress,
           NEW n \in Nat, n > 0 <=> st = "sane", ArpTableEntryAdd(ip, st, mac, n),
           NEW gone, \A h \in gone : h.entry = "absent", arp_held' = ArpFreed(ip) \ gone,
           arp_replies' \in [ArpIp -> 0 .. ArpMaxReplies],
           arp_sent' = {}, UNCHANGED <<arp_quiet, arp_dead>>
    PROVE  ArpInv'
  <1>1. /\ ArpSetEntry(ip, st, mac, n)
        /\ arp_timer' = [arp_timer EXCEPT ![ip] = ArpExpTime]
        /\ arp_orphan' = arp_orphan \cup (arp_due \cap {ip})
        /\ arp_late' = arp_late \ {ip}
        /\ UNCHANGED arp_due
    BY DEF ArpTableEntryAdd
  <1>2. /\ arp_state' \in [ArpIp -> {"none", "sane", "full"}]
        /\ arp_mac' \in [ArpIp -> ArpAddress]
        /\ arp_pending' \in [ArpIp -> Nat]
        /\ arp_state'[ip] = st /\ arp_pending'[ip] = n
        /\ \A x \in ArpIp \ {ip} : /\ arp_state'[x] = arp_state[x]
                                   /\ arp_pending'[x] = arp_pending[x]
    BY <1>1, ArpEntryType DEF ArpInv
  <1>3. /\ arp_timer' \in [ArpIp -> ArpOff .. ArpExpTime]
        /\ arp_timer'[ip] # ArpOff /\ arp_timer'[ip] # 0
        /\ \A x \in ArpIp \ {ip} : arp_timer'[x] = arp_timer[x]
    BY <1>1, ArpArmType DEF ArpInv
  <1>4. ArpHolds' /\ arp_held' \subseteq ArpHolding
    BY <1>2, ArpHoldsFreed
  <1>5. /\ ~ArpDrained(ip)'
        /\ \A x \in ArpIp \ {ip} : ArpDrained(x)' <=> ArpDrained(x)
    BY ArpDrainedFreed DEF ArpInv
  <1>6. ArpTypeOK'
    BY <1>1, <1>2, <1>3, <1>4 DEF ArpInv, ArpTypeOK
  <1>7. ArpWaits'
    BY <1>1, <1>2, <1>5 DEF ArpInv, ArpWaits
  <1>8. ArpTimed'
    BY <1>1, <1>2, <1>3 DEF ArpInv, ArpTimed
  <1>9. QED
    BY <1>4, <1>6, <1>7, <1>8 DEF ArpInv

\* A packet more waits at an entry that was incomplete when it was tested: in
\* time, or too late.
LEMMA AddArpPendingEntryStep ==
    ASSUME ArpInv, NEW h \in arp_held, h.entry = "present", h.at \in {"append", "wait"},
           AddArpPendingEntry(h.ip), arp_held' = arp_held \ {h}
    PROVE  /\ arp_pending' \in [ArpIp -> Nat] /\ arp_late' \subseteq ArpIp
           /\ UNCHANGED <<arp_state, arp_mac>>
           /\ ArpWaits' /\ ArpHolds' /\ arp_held' \subseteq ArpHolding
  <1>1. h.ip \in ArpIp /\ arp_state[h.ip] \in {"sane", "full"}
    BY DEF ArpInv, ArpTypeOK, ArpHolding, ArpHolds
  <1>2. /\ arp_pending' = [arp_pending EXCEPT ![h.ip] = @ + 1]
        /\ arp_late' = IF arp_state[h.ip] = "full" \/ ArpDrained(h.ip)
                         THEN arp_late \cup {h.ip} ELSE arp_late
        /\ UNCHANGED <<arp_state, arp_mac>>
    BY DEF AddArpPendingEntry
  <1>3. /\ arp_pending' \in [ArpIp -> Nat] /\ arp_pending'[h.ip] > 0
        /\ \A x \in ArpIp \ {h.ip} : arp_pending'[x] = arp_pending[x]
    BY <1>1, <1>2 DEF ArpInv, ArpTypeOK
  <1>4. /\ ArpHolds' /\ arp_held' \subseteq ArpHolding
        /\ \A x \in ArpIp : ArpDrained(x)' <=> ArpDrained(x)
    BY <1>2, ArpHoldsDone
  <1>5. arp_late' \subseteq ArpIp
    BY <1>1, <1>2 DEF ArpInv, ArpTypeOK
  <1>6. ASSUME NEW x \in ArpIp
        PROVE  /\ (arp_pending'[x] > 0) <=> \/ arp_state'[x] = "sane" /\ ~ArpDrained(x)'
                                            \/ x \in arp_late'
               /\ x \in arp_late' => arp_state'[x] = "full" \/ ArpDrained(x)'
    <2>1. CASE x = h.ip
      BY <1>1, <1>2, <1>3, <1>4, <2>1 DEF ArpInv, ArpWaits
    <2>2. CASE x # h.ip
      <3>1. arp_pending'[x] = arp_pending[x] /\ (x \in arp_late' <=> x \in arp_late)
        BY <1>2, <1>3, <2>2
      <3>2. QED
        BY <1>2, <1>4, <3>1 DEF ArpInv, ArpWaits
    <2>3. QED
      BY <2>1, <2>2
  <1>7. ArpWaits'
    BY <1>6 DEF ArpWaits
  <1>8. QED
    BY <1>2, <1>3, <1>4, <1>5, <1>7

-----------------------------------------------------------------------------
(* Each step, the death of the process apart, which changes nothing else.  *)

LEMMA ArpCrashStep ==
    ASSUME ArpInv, NEW why \in {"freed", "complete", "refused", "null", "callback"},
           ArpCrash(why)
    PROVE  ArpInv'
  BY DEF ArpInv, ArpTypeOK, ArpWaits, ArpTimed, ArpHolds, ArpDrained, ArpCrash, arpEntryVars,
         arpTimerVars

\* A step that moves a thread, and no entry and no timer.
LEMMA ArpMoveStep ==
    ASSUME ArpInv, ArpHolds', arp_held' \subseteq ArpHolding,
           \A x \in ArpIp : ArpDrained(x)' <=> ArpDrained(x),
           arp_sent' = {},
           UNCHANGED <<arpEntryVars, arpTimerVars, arp_late, arp_replies, arp_quiet, arp_dead>>
    PROVE  ArpInv'
  <1>1. ArpTypeOK' /\ ArpTimed'
    BY DEF ArpInv, ArpTypeOK, ArpTimed, arpEntryVars, arpTimerVars
  <1>2. ArpWaits'
    BY DEF ArpInv, ArpWaits, arpEntryVars
  <1>3. QED
    BY <1>1, <1>2 DEF ArpInv

LEMMA ArpLookupStep ==
    ASSUME ArpInv, NEW t \in ArpThread, NEW ip \in ArpIp, NEW oif \in BOOLEAN,
           ArpLookup(t, ip, oif)
    PROVE  ArpInv'
  <1> DEFINE h == [thread |-> t, ip |-> ip, oif |-> oif, mac |-> ArpZero,
                   entry |-> IF arp_state[ip] = "none" THEN "absent" ELSE "present",
                   at |-> "looked"]
  <1>1. /\ h \in ArpHolding /\ h.at = "looked" /\ h.thread = t
        /\ h.entry = "present" => arp_state[h.ip] # "none"
    BY DEF ArpHolding
  <1>2. arp_held' = arp_held \cup {h} /\ ArpIdle(t) /\ UNCHANGED arp_state
    BY DEF ArpLookup, arpEntryVars
  <1> HIDE DEF h
  <1>3. /\ ArpHolds' /\ arp_held' \subseteq ArpHolding
        /\ \A x \in ArpIp : ArpDrained(x)' <=> ArpDrained(x)
    BY <1>1, <1>2, ArpHoldsBegins
  <1>4. QED
    BY <1>3, ArpMoveStep DEF ArpLookup

LEMMA ArpForwardAbsentStep ==
    ASSUME ArpInv, NEW h \in arp_held, ArpForwardAbsent(h)
    PROVE  ArpInv'
  <1>1. CASE arp_state[h.ip] = "full"
    BY <1>1, ArpCrashStep DEF ArpForwardAbsent
  <1>2. CASE arp_state[h.ip] # "full"
    <2>1. h.at = "looked" /\ UNCHANGED arp_state
      BY <1>2 DEF ArpForwardAbsent, arpEntryVars
    <2>2. /\ ArpHolds' /\ arp_held' \subseteq ArpHolding
          /\ \A x \in ArpIp : ArpDrained(x)' <=> ArpDrained(x)
      <3>1. CASE arp_state[h.ip] = "none"
        <4>1. ArpGoesOn(h, "missed", "absent")
          BY <1>2, <3>1 DEF ArpForwardAbsent
        <4>2. QED
          BY <2>1, <4>1, ArpHoldsGoesOn
      <3>2. CASE arp_state[h.ip] # "none"
        <4>1. ArpGoesOn(h, "append", "present")
          BY <1>2, <3>2 DEF ArpForwardAbsent
        <4>2. QED
          BY <2>1, <3>2, <4>1, ArpHoldsGoesOn
      <3>3. QED
        BY <3>1, <3>2
    <2>3. QED
      BY <1>2, <2>2, ArpMoveStep DEF ArpForwardAbsent
  <1>3. QED
    BY <1>1, <1>2

LEMMA ArpForwardMissedStep ==
    ASSUME ArpInv, NEW h \in arp_held, ArpForwardMissed(h)
    PROVE  ArpInv'
  <1>1. CASE arp_state[h.ip] = "sane"
    BY <1>1, ArpCrashStep DEF ArpForwardMissed
  <1>2. CASE arp_state[h.ip] # "sane" /\ ~h.oif
    BY <1>2, ArpCrashStep DEF ArpForwardMissed
  <1>3. CASE arp_state[h.ip] # "sane" /\ h.oif
    <2>1. h.ip \in ArpIp
      BY DEF ArpInv, ArpTypeOK, ArpHolding
    <2>2. /\ ArpTableEntryAdd(h.ip, "sane", <<ArpZero, "whole">>, 1)
          /\ ArpAsk(h.ip) /\ arp_sent' = {}
          /\ arp_held' = ArpFreed(h.ip) \ {h}
          /\ UNCHANGED <<arp_quiet, arp_dead>>
      BY <1>3 DEF ArpForwardMissed, CreateArpSaneEntry
    <2>3. h.entry = "absent"
      BY DEF ArpInv, ArpHolds, ArpForwardMissed
    <2>4. arp_replies' \in [ArpIp -> 0 .. ArpMaxReplies]
      BY <2>1, <2>2, ArpAskType DEF ArpInv
    <2>5. 1 \in Nat /\ (1 > 0 <=> "sane" = "sane") /\ \A x \in {h} : x.entry = "absent"
      BY <2>3
    <2>6. QED
      BY <2>1, <2>2, <2>4, <2>5, ArpZeroType, ArpTableEntryAddStep
  <1>4. QED
    BY <1>1, <1>2, <1>3

LEMMA ArpForwardAppendStep ==
    ASSUME ArpInv, NEW h \in arp_held, ArpForwardAppend(h)
    PROVE  ArpInv'
  <1>1. CASE ~h.oif
    BY <1>1, ArpCrashStep DEF ArpForwardAppend
  <1>2. CASE h.oif
    <2>1. /\ h.ip \in ArpIp /\ h.at = "append" /\ h.entry = "present"
          /\ arp_state[h.ip] # "none"
          /\ AddArpPendingEntry(h.ip) /\ ArpAsk(h.ip)
          /\ arp_timer' = [arp_timer EXCEPT ![h.ip] = ArpExpTime]
          /\ arp_held' = arp_held \ {h} /\ arp_sent' = {}
          /\ UNCHANGED <<arp_due, arp_orphan, arp_quiet, arp_dead>>
      BY <1>2 DEF ArpForwardAppend, ArpArm, ArpInv, ArpTypeOK, ArpHolding, ArpHolds
    <2>2. /\ arp_pending' \in [ArpIp -> Nat] /\ arp_late' \subseteq ArpIp
          /\ UNCHANGED <<arp_state, arp_mac>>
          /\ ArpWaits' /\ ArpHolds' /\ arp_held' \subseteq ArpHolding
      BY <2>1, AddArpPendingEntryStep
    <2>3. /\ arp_timer' \in [ArpIp -> ArpOff .. ArpExpTime]
          /\ arp_timer'[h.ip] # ArpOff /\ arp_timer'[h.ip] # 0
          /\ \A x \in ArpIp \ {h.ip} : arp_timer'[x] = arp_timer[x]
      BY <2>1, ArpArmType DEF ArpInv
    <2>4. ArpTypeOK'
      BY <2>1, <2>2, <2>3, ArpAskType DEF ArpInv, ArpTypeOK
    <2>5. ArpTimed'
      BY <2>1, <2>2, <2>3 DEF ArpInv, ArpTimed
    <2>6. QED
      BY <2>2, <2>4, <2>5 DEF ArpInv
  <1>3. QED
    BY <1>1, <1>2

LEMMA ArpForwardPresentStep ==
    ASSUME ArpInv, NEW h \in arp_held, ArpForwardPresent(h)
    PROVE  ArpInv'
  <1>1. /\ h.ip \in ArpIp /\ h.entry = "present" /\ h.at = "looked" /\ arp_state[h.ip] # "none"
        /\ arp_timer' = [arp_timer EXCEPT ![h.ip] = ArpExpTime]
        /\ UNCHANGED <<arp_state, arp_mac, arp_pending, arp_late, arp_due, arp_orphan,
                       arp_replies, arp_quiet, arp_dead>>
        /\ arp_held' = arp_held \ {h}
        /\ arp_sent' = {<<h.ip, arp_mac[h.ip], 1>>}
    BY DEF ArpInv, ArpTypeOK, ArpHolding, ArpHolds, ArpForwardPresent, ArpArm, arpEntryVars
  <1>2. /\ arp_timer' \in [ArpIp -> ArpOff .. ArpExpTime]
        /\ arp_timer'[h.ip] # ArpOff /\ arp_timer'[h.ip] # 0
        /\ \A x \in ArpIp \ {h.ip} : arp_timer'[x] = arp_timer[x]
    BY <1>1, ArpArmType DEF ArpInv
  <1>3. arp_sent' \subseteq ArpIp \X ArpAddress \X Nat
    BY <1>1 DEF ArpInv, ArpTypeOK
  <1>4. /\ ArpHolds' /\ arp_held' \subseteq ArpHolding
        /\ \A x \in ArpIp : ArpDrained(x)' <=> ArpDrained(x)
    BY <1>1, ArpHoldsDone
  <1>5. ArpTypeOK'
    BY <1>1, <1>2, <1>3, <1>4 DEF ArpInv, ArpTypeOK
  <1>6. ArpWaits'
    BY <1>1, <1>4 DEF ArpInv, ArpWaits
  <1>7. ArpTimed'
    BY <1>1, <1>2 DEF ArpInv, ArpTimed
  <1>8. QED
    BY <1>4, <1>5, <1>6, <1>7 DEF ArpInv

LEMMA ArpForwardTestStep ==
    ASSUME ArpInv, NEW h \in arp_held, ArpForwardTest(h)
    PROVE  ArpInv'
  <1>1. /\ h.at = "looked" /\ arp_state[h.ip] # "none" /\ UNCHANGED arp_state
        /\ ArpGoesOn(h, "wait", "present")
    BY DEF ArpForwardTest, arpEntryVars
  <1>2. /\ ArpHolds' /\ arp_held' \subseteq ArpHolding
        /\ \A x \in ArpIp : ArpDrained(x)' <=> ArpDrained(x)
    BY <1>1, ArpHoldsGoesOn
  <1>3. QED
    BY <1>2, ArpMoveStep DEF ArpForwardTest

LEMMA ArpForwardWaitStep ==
    ASSUME ArpInv, NEW h \in arp_held, ArpForwardWait(h)
    PROVE  ArpInv'
  <1>1. /\ h.ip \in ArpIp /\ h.at = "wait" /\ h.entry = "present"
        /\ AddArpPendingEntry(h.ip) /\ ArpAsk(h.ip)
        /\ arp_held' = arp_held \ {h} /\ arp_sent' = {}
        /\ UNCHANGED <<arp_timer, arp_due, arp_orphan, arp_quiet, arp_dead>>
    BY DEF ArpForwardWait, ArpInv, ArpTypeOK, ArpHolding, arpTimerVars
  <1>2. /\ arp_pending' \in [ArpIp -> Nat] /\ arp_late' \subseteq ArpIp
        /\ UNCHANGED <<arp_state, arp_mac>>
        /\ ArpWaits' /\ ArpHolds' /\ arp_held' \subseteq ArpHolding
    BY <1>1, AddArpPendingEntryStep
  <1>3. ArpTypeOK'
    BY <1>1, <1>2, ArpAskType DEF ArpInv, ArpTypeOK
  <1>4. ArpTimed'
    BY <1>1, <1>2 DEF ArpInv, ArpTimed
  <1>5. QED
    BY <1>2, <1>3, <1>4 DEF ArpInv

LEMMA ArpReplyStep ==
    ASSUME ArpInv, NEW ip \in ArpIp, NEW m \in ArpMac, ArpReply(ip, m)
    PROVE  ArpInv'
  <1>1. /\ arp_replies[ip] > 0 /\ arp_replies' = [arp_replies EXCEPT ![ip] = @ - 1]
        /\ ArpIdle(ArpReceiver) /\ arp_sent' = {}
        /\ UNCHANGED <<arp_quiet, arp_dead>>
        /\ ArpReplyAdd(ip, m) \/ ArpReplyCopy(ip, m)
    BY DEF ArpReply
  <1>2. arp_replies' \in [ArpIp -> 0 .. ArpMaxReplies]
    BY <1>1, ArpTakeType DEF ArpInv
  <1>3. CASE ArpReplyAdd(ip, m)
    <2>1. PICK gone : (\A h \in gone : h.entry = "absent") /\ arp_held' = ArpFreed(ip) \ gone
      <3>1. arp_held' = ArpFreed(ip) \ {}
        BY <1>3 DEF ArpReplyAdd
      <3>2. QED
        BY <3>1
    <2>2. PICK mac \in ArpAddress : ArpTableEntryAdd(ip, "full", mac, 0)
      BY <1>3, ArpMacType DEF ArpReplyAdd
    <2>3. 0 \in Nat /\ (0 > 0 <=> "full" = "sane")
      OBVIOUS
    <2>4. QED
      BY <1>1, <1>2, <2>1, <2>2, <2>3, ArpTableEntryAddStep
  <1>4. CASE ArpReplyCopy(ip, m)
    <2> DEFINE g == [thread |-> ArpReceiver, ip |-> ip, oif |-> FALSE, mac |-> m,
                     entry |-> "present", at |-> "send"]
    <2>1. /\ g \in ArpHolding /\ g.thread = ArpReceiver /\ g.at = "send" /\ g.ip = ip
          /\ g.mac \in ArpMac
      BY ArpAssumption DEF ArpHolding
    <2>2. /\ arp_state[ip] = "sane"
          /\ ArpSetEntry(ip, "sane", ArpCopied(m), arp_pending[ip])
          /\ arp_timer' = [arp_timer EXCEPT ![ip] = ArpExpTime]
          /\ arp_held' = arp_held \cup {g}
          /\ UNCHANGED <<arp_due, arp_orphan, arp_late>>
      BY <1>4 DEF ArpReplyCopy, ArpArm
    <2> HIDE DEF g
    <2>3. UNCHANGED <<arp_state, arp_pending>> /\ arp_mac' \in [ArpIp -> ArpAddress]
      BY <2>2, ArpMacType DEF ArpSetEntry, ArpInv, ArpTypeOK
    <2>4. /\ ArpHolds' /\ arp_held' \subseteq ArpHolding
          /\ \A x \in ArpIp : ArpDrained(x)' <=> ArpDrained(x)
      BY <1>1, <2>1, <2>2, <2>3, ArpHoldsBegins
    <2>5. /\ arp_timer' \in [ArpIp -> ArpOff .. ArpExpTime]
          /\ arp_timer'[ip] # ArpOff /\ arp_timer'[ip] # 0
          /\ \A x \in ArpIp \ {ip} : arp_timer'[x] = arp_timer[x]
      BY <2>2, ArpArmType DEF ArpInv
    <2>6. ArpTypeOK'
      BY <1>1, <1>2, <2>2, <2>3, <2>4, <2>5 DEF ArpInv, ArpTypeOK
    <2>7. ArpWaits'
      BY <2>2, <2>3, <2>4 DEF ArpInv, ArpWaits
    <2>8. ArpTimed'
      BY <2>2, <2>3, <2>5 DEF ArpInv, ArpTimed
    <2>9. QED
      BY <2>4, <2>6, <2>7, <2>8 DEF ArpInv
  <1>5. QED
    BY <1>1, <1>3, <1>4

\* All that waits is sent; what comes to the list from now on comes too late.
LEMMA ArpReplySendStep ==
    ASSUME ArpInv, NEW h \in arp_held, ArpReplySend(h)
    PROVE  ArpInv'
  <1> DEFINE g == [h EXCEPT !.at = "clear", !.entry = "present"]
  <1>1. /\ h \in ArpHolding /\ h.at = "send" /\ h.entry = "present" /\ h.ip \in ArpIp
        /\ arp_state[h.ip] = "sane" /\ h.thread = ArpReceiver /\ h.mac \in ArpMac
    BY DEF ArpReplySend, ArpInv, ArpTypeOK, ArpHolds, ArpHolding
  <1>2. /\ g \in ArpHolding /\ g.thread = h.thread /\ g.ip = h.ip
        /\ g.at = "clear" /\ g.entry = "present"
    BY <1>1 DEF ArpHolding
  <1>3. /\ arp_held' = (arp_held \ {h}) \cup {g}
        /\ arp_pending' = [arp_pending EXCEPT ![h.ip] = 0]
        /\ arp_sent' = {<<h.ip, <<h.mac, "whole">>, arp_pending[h.ip]>>}
        /\ UNCHANGED <<arp_state, arp_mac, arp_timer, arp_due, arp_orphan, arp_late, arp_replies,
                       arp_quiet, arp_dead>>
    BY DEF ArpReplySend, ArpGoesOn, arpTimerVars
  <1> HIDE DEF g
  <1>4. ArpHolds' /\ arp_held' \subseteq ArpHolding
    BY <1>1, <1>2, <1>3 DEF ArpInv, ArpHolds, ArpTypeOK
  <1>5. ~ArpDrained(h.ip) /\ ArpDrained(h.ip)'
    BY <1>1, <1>2, <1>3 DEF ArpInv, ArpHolds, ArpDrained
  <1>6. \A x \in ArpIp \ {h.ip} : ArpDrained(x)' <=> ArpDrained(x)
    BY <1>1, <1>2, <1>3 DEF ArpDrained
  <1>7. ArpTypeOK'
    <2>1. arp_sent' \subseteq ArpIp \X ArpAddress \X Nat
      BY <1>1, <1>3, ArpMacType DEF ArpInv, ArpTypeOK
    <2>2. arp_pending' \in [ArpIp -> Nat]
      BY <1>1, <1>3 DEF ArpInv, ArpTypeOK
    <2>3. QED
      BY <1>3, <1>4, <2>1, <2>2 DEF ArpInv, ArpTypeOK
  <1>8. ArpWaits'
    BY <1>1, <1>3, <1>5, <1>6 DEF ArpInv, ArpWaits, ArpTypeOK
  <1>9. ArpTimed'
    BY <1>3 DEF ArpInv, ArpTimed
  <1>10. QED
    BY <1>4, <1>7, <1>8, <1>9 DEF ArpInv

LEMMA ArpReplyCompleteStep ==
    ASSUME ArpInv, NEW h \in arp_held, ArpReplyComplete(h)
    PROVE  ArpInv'
  <1>1. /\ h \in ArpHolding /\ h.at = "clear" /\ h.entry = "present" /\ h.ip \in ArpIp
        /\ arp_state[h.ip] = "sane" /\ h.thread = ArpReceiver
    BY DEF ArpReplyComplete, ArpInv, ArpTypeOK, ArpHolds, ArpHolding
  <1>2. /\ arp_state' = [arp_state EXCEPT ![h.ip] = "full"]
        /\ arp_held' = arp_held \ {h} /\ arp_sent' = {}
        /\ UNCHANGED <<arp_mac, arp_pending, arp_timer, arp_due, arp_orphan, arp_late,
                       arp_replies, arp_quiet, arp_dead>>
    BY DEF ArpReplyComplete, arpTimerVars
  <1>3. ArpDrained(h.ip)
    BY <1>1 DEF ArpDrained
  <1>4. \A g \in arp_held' : g.at \notin {"send", "clear"}
    BY <1>1, <1>2 DEF ArpInv, ArpHolds
  <1>5. ASSUME NEW x \in ArpIp
        PROVE  ~ArpDrained(x)' /\ (x # h.ip => ~ArpDrained(x))
    BY <1>1, <1>4 DEF ArpDrained, ArpInv, ArpHolds
  <1>6. /\ arp_state'[h.ip] = "full"
        /\ \A x \in ArpIp \ {h.ip} : arp_state'[x] = arp_state[x]
        /\ arp_state' \in [ArpIp -> {"none", "sane", "full"}]
    BY <1>1, <1>2 DEF ArpInv, ArpTypeOK
  <1>7. ArpTypeOK'
    BY <1>2, <1>6 DEF ArpInv, ArpTypeOK
  <1>8. ArpWaits'
    BY <1>1, <1>2, <1>3, <1>5, <1>6 DEF ArpInv, ArpWaits
  <1>9. ArpTimed'
    BY <1>1, <1>2, <1>6 DEF ArpInv, ArpTimed
  <1>10. ArpHolds'
    BY <1>2, <1>4, <1>6 DEF ArpInv, ArpHolds, ArpTypeOK, ArpHolding
  <1>11. QED
    BY <1>7, <1>8, <1>9, <1>10 DEF ArpInv

LEMMA ArpExpireStep ==
    ASSUME ArpInv, NEW ip \in ArpIp, ArpExpire(ip)
    PROVE  ArpInv'
  <1>1. CASE ip \in arp_orphan
    BY <1>1, ArpCrashStep DEF ArpExpire
  <1>2. CASE ip \notin arp_orphan
    <2>1. /\ ArpSetEntry(ip, "none", <<ArpZero, "whole">>, 0)
          /\ arp_timer' = [arp_timer EXCEPT ![ip] = ArpOff]
          /\ arp_due' = arp_due \ {ip}
          /\ arp_held' = ArpFreed(ip) \ {} /\ arp_sent' = {}
          /\ arp_late' = arp_late \ {ip}
          /\ UNCHANGED <<arp_orphan, arp_replies, arp_quiet, arp_dead>>
      BY <1>2 DEF ArpExpire
    <2>2. /\ arp_state' \in [ArpIp -> {"none", "sane", "full"}]
          /\ arp_mac' \in [ArpIp -> ArpAddress]
          /\ arp_pending' \in [ArpIp -> Nat]
          /\ arp_state'[ip] = "none" /\ arp_pending'[ip] = 0
          /\ \A x \in ArpIp \ {ip} : /\ arp_state'[x] = arp_state[x]
                                     /\ arp_pending'[x] = arp_pending[x]
      BY <2>1, ArpEntryType, ArpZeroType DEF ArpInv
    <2>3. /\ arp_timer' \in [ArpIp -> ArpOff .. ArpExpTime]
          /\ arp_timer'[ip] = ArpOff
          /\ \A x \in ArpIp \ {ip} : arp_timer'[x] = arp_timer[x]
      <3>1. ArpOff \in ArpOff .. ArpExpTime
        BY ArpAssumption DEF ArpOff
      <3>2. QED
        BY <2>1, <3>1 DEF ArpInv, ArpTypeOK
    <2>4. ArpHolds' /\ arp_held' \subseteq ArpHolding
      BY <2>1, <2>2, ArpHoldsFreed
    <2>5. /\ ~ArpDrained(ip)'
          /\ \A x \in ArpIp \ {ip} : ArpDrained(x)' <=> ArpDrained(x)
      BY <2>1, ArpDrainedFreed DEF ArpInv
    <2>6. ArpTypeOK'
      BY <1>2, <2>1, <2>2, <2>3, <2>4 DEF ArpInv, ArpTypeOK
    <2>7. ArpWaits'
      BY <2>1, <2>2, <2>5 DEF ArpInv, ArpWaits
    <2>8. ArpTimed'
      BY <2>1, <2>2, <2>3 DEF ArpInv, ArpTimed, ArpOff
    <2>9. QED
      BY <2>4, <2>6, <2>7, <2>8 DEF ArpInv
  <1>3. QED
    BY <1>1, <1>2

\* An armed timer is at 0 only if it is due, and the clock waits for those.
LEMMA ArpTickStep ==
    ASSUME ArpInv, ArpTick
    PROVE  ArpInv'
  <1>1. /\ arp_due = {}
        /\ arp_timer' = [ip \in ArpIp |-> IF arp_timer[ip] = ArpOff THEN ArpOff
                                                                   ELSE arp_timer[ip] - 1]
        /\ arp_due' = {ip \in ArpIp : arp_timer'[ip] = 0}
        /\ arp_sent' = {}
        /\ UNCHANGED <<arp_state, arp_mac, arp_pending, arp_orphan, arp_held, arp_late,
                       arp_replies, arp_quiet, arp_dead>>
    BY DEF ArpTick, arpEntryVars
  <1>2. ASSUME NEW ip \in ArpIp
        PROVE  /\ arp_timer'[ip] \in ArpOff .. ArpExpTime
               /\ (arp_timer'[ip] = ArpOff) <=> (arp_timer[ip] = ArpOff)
    <2>1. arp_timer[ip] \in ArpOff .. ArpExpTime /\ arp_timer[ip] # 0
      BY <1>1 DEF ArpInv, ArpTypeOK, ArpTimed
    <2>2. QED
      BY <1>1, <2>1, ArpAssumption DEF ArpOff
  <1>3. arp_timer' \in [ArpIp -> ArpOff .. ArpExpTime]
    BY <1>1, <1>2
  <1>4. arp_orphan' \subseteq arp_due'
    BY <1>1 DEF ArpInv, ArpTypeOK
  <1>5. ArpTypeOK'
    BY <1>1, <1>3, <1>4 DEF ArpInv, ArpTypeOK
  <1>6. ArpWaits' /\ ArpHolds'
    BY <1>1 DEF ArpInv, ArpWaits, ArpDrained, ArpHolds
  <1>7. ArpTimed'
    BY <1>1, <1>2 DEF ArpInv, ArpTimed
  <1>8. QED
    BY <1>5, <1>6, <1>7 DEF ArpInv

\* The environment's steps leave the entries and their timers alone.
LEMMA ArpEnvironmentStep ==
    ASSUME ArpInv, UNCHANGED <<arpEntryVars, arpTimerVars, arp_held, arp_late, arp_dead>>,
           arp_replies' \in [ArpIp -> 0 .. ArpMaxReplies],
           arp_sent' \subseteq ArpIp \X ArpAddress \X Nat, arp_quiet' \in BOOLEAN
    PROVE  ArpInv'
  BY DEF ArpInv, ArpTypeOK, ArpWaits, ArpDrained, ArpTimed, ArpHolds, arpEntryVars, arpTimerVars

-----------------------------------------------------------------------------
LEMMA ArpInductive == ArpInv /\ [ArpNext]_arpVars => ArpInv'
  <1> SUFFICES ASSUME ArpInv, [ArpNext]_arpVars
               PROVE  ArpInv'
    OBVIOUS
  <1>1. ASSUME NEW t \in ArpThread, NEW ip \in ArpIp, NEW oif \in BOOLEAN, ArpLookup(t, ip, oif)
        PROVE  ArpInv'
    BY <1>1, ArpLookupStep
  <1>2. ASSUME NEW h \in arp_held, ArpForwardAbsent(h)
        PROVE  ArpInv'
    BY <1>2, ArpForwardAbsentStep
  <1>3. ASSUME NEW h \in arp_held, ArpForwardPresent(h)
        PROVE  ArpInv'
    BY <1>3, ArpForwardPresentStep
  <1>4. ASSUME NEW h \in arp_held, ArpForwardWait(h)
        PROVE  ArpInv'
    BY <1>4, ArpForwardWaitStep
  <1>5. ASSUME NEW h \in arp_held, ArpUseFreed(h)
        PROVE  ArpInv'
    BY <1>5, ArpCrashStep DEF ArpUseFreed
  <1>6. ASSUME NEW ip \in ArpIp, ArpResolve(ip)
        PROVE  ArpInv'
    <2>1. arp_replies' \in [ArpIp -> 0 .. ArpMaxReplies]
      BY <1>6, ArpAskType DEF ArpResolve, ArpInv
    <2>2. QED
      BY <1>6, <2>1, ArpEnvironmentStep DEF ArpResolve, ArpInv, ArpTypeOK
  <1>7. ASSUME NEW ip \in ArpIp, NEW m \in ArpMac, ArpReply(ip, m)
        PROVE  ArpInv'
    BY <1>7, ArpReplyStep
  <1>8. ASSUME NEW ip \in ArpIp, ArpLose(ip)
        PROVE  ArpInv'
    <2>1. arp_replies' \in [ArpIp -> 0 .. ArpMaxReplies]
      BY <1>8, ArpTakeType DEF ArpLose, ArpInv
    <2>2. QED
      BY <1>8, <2>1, ArpEnvironmentStep DEF ArpLose, ArpInv, ArpTypeOK
  <1>9. ASSUME NEW ip \in ArpIp, ArpExpire(ip)
        PROVE  ArpInv'
    BY <1>9, ArpExpireStep
  <1>10. CASE ArpTick
    BY <1>10, ArpTickStep
  <1>11. CASE ArpSilence
    BY <1>11, ArpEnvironmentStep DEF ArpSilence, ArpInv, ArpTypeOK
  <1>12. CASE UNCHANGED arpVars
    BY <1>12, ArpEnvironmentStep DEF arpVars, ArpInv, ArpTypeOK
  <1>13. ASSUME NEW h \in arp_held, ArpForwardMissed(h) \/ ArpForwardAppend(h) \/ ArpForwardTest(h)
        PROVE  ArpInv'
    BY <1>13, ArpForwardMissedStep, ArpForwardAppendStep, ArpForwardTestStep
  <1>14. ASSUME NEW h \in arp_held, ArpReplySend(h) \/ ArpReplyComplete(h)
        PROVE  ArpInv'
    BY <1>14, ArpReplySendStep, ArpReplyCompleteStep
  <1>15. QED
    BY <1>1, <1>2, <1>3, <1>4, <1>5, <1>6, <1>7, <1>8, <1>9, <1>10, <1>11, <1>12, <1>13, <1>14
       DEF ArpNext

LEMMA ArpInitInv == ArpInit => ArpInv
  <1>1. ArpInit => ArpWaits /\ ArpTimed /\ ArpHolds
    BY DEF ArpInit, ArpWaits, ArpDrained, ArpTimed, ArpHolds, ArpOff
  <1>2. QED
    BY <1>1, ArpTypeInit DEF ArpInv

\* The inductive invariant of the table holds, with fairness or without.
THEOREM ArpInvariant == ArpSafety => []ArpInv
  BY ArpInitInv, ArpInductive, PTL DEF ArpSafety

\* Packets wait at the incomplete entries whose packets have not been sent, and
\* at no others but those whose test of is_sane was overtaken by a reply
\* (create_arp_sane_entry, arp_table_entry_add, delete_arp_entry), however the
\* threads interleave.
THEOREM ArpWaitsAlways == ArpSafety => []ArpWaits
  BY ArpInvariant, PTL DEF ArpInv

\* Every entry has an expiry timer, and no timer outlives its entry
\* (arp_entry_create_expiration_timer, delete_arp_entry).
THEOREM ArpTimedAlways == ArpSafety => []ArpTimed
  BY ArpInvariant, PTL DEF ArpInv

-----------------------------------------------------------------------------
LEMMA ArpAnsweredStep == ArpInv /\ [ArpNext]_arpVars =>
    \A ip \in ArpIp : arp_pending'[ip] < arp_pending[ip] =>
        \/ /\ arp_pending'[ip] = 0 /\ ip \notin arp_late
           /\ \E m \in ArpMac : <<ip, <<m, "whole">>, arp_pending[ip]>> \in arp_sent'
        \/ arp_state'[ip] = "none" /\ ip \in arp_due
        \/ arp_state[ip] = "full" /\ ip \in arp_late \ arp_late'
  <1> DEFINE Right(ip) ==
        \/ /\ arp_pending'[ip] = 0 /\ ip \notin arp_late
           /\ \E m \in ArpMac : <<ip, <<m, "whole">>, arp_pending[ip]>> \in arp_sent'
        \/ arp_state'[ip] = "none" /\ ip \in arp_due
        \/ arp_state[ip] = "full" /\ ip \in arp_late \ arp_late'
  <1> SUFFICES ASSUME ArpInv, [ArpNext]_arpVars, NEW ip \in ArpIp,
                      arp_pending'[ip] < arp_pending[ip]
               PROVE  Right(ip)
    OBVIOUS
  <1>0. /\ arp_pending[ip] \in Nat /\ arp_pending'[ip] \in Nat /\ arp_pending[ip] > 0
        /\ (arp_state[ip] = "sane" /\ ~ArpDrained(ip)) \/ ip \in arp_late
    <2>1. arp_pending[ip] \in Nat /\ arp_pending'[ip] \in Nat
      BY ArpInductive DEF ArpInv, ArpTypeOK
    <2>2. QED
      BY <2>1 DEF ArpInv, ArpWaits
  <1>1. arp_pending' # arp_pending
    BY <1>0
  \* A packet more waits, for this address or another.
  <1>2. ASSUME NEW h \in arp_held, ArpForwardAppend(h) \/ ArpForwardWait(h)
        PROVE  FALSE
    <2>1. h.ip \in ArpIp
      BY DEF ArpInv, ArpTypeOK, ArpHolding
    <2>2. AddArpPendingEntry(h.ip)
      BY <1>1, <1>2 DEF ArpForwardAppend, ArpForwardWait, ArpCrash, arpEntryVars
    <2>3. arp_pending'[ip] >= arp_pending[ip]
      BY <1>0, <2>1, <2>2 DEF AddArpPendingEntry, ArpInv, ArpTypeOK
    <2>4. QED
      BY <1>0, <2>3
  \* The entry is replaced.
  <1>3. ASSUME NEW y \in ArpIp, NEW st, NEW mac, NEW n, ArpTableEntryAdd(y, st, mac, n)
        PROVE  Right(ip)
    <2>1. y = ip
      BY <1>0, <1>3 DEF ArpTableEntryAdd, ArpSetEntry, ArpInv, ArpTypeOK
    <2>2. arp_state[ip] # "sane" /\ ip \in arp_late /\ ip \notin arp_late'
      BY <1>0, <1>3, <2>1 DEF ArpTableEntryAdd
    <2>3. arp_state[ip] = "full"
      BY <2>2 DEF ArpInv, ArpWaits, ArpDrained, ArpHolds
    <2>4. QED
      BY <2>2, <2>3
  <1>4. ASSUME NEW h \in arp_held, ArpForwardMissed(h)
        PROVE  Right(ip)
    <2>1. h.ip \in ArpIp
      BY DEF ArpInv, ArpTypeOK, ArpHolding
    <2>2. ArpTableEntryAdd(h.ip, "sane", <<ArpZero, "whole">>, 1)
      BY <1>1, <1>4 DEF ArpForwardMissed, CreateArpSaneEntry, ArpCrash, arpEntryVars
    <2>3. QED
      BY <1>3, <2>1, <2>2
  <1>5. ASSUME NEW y \in ArpIp, NEW m \in ArpMac, ArpReply(y, m)
        PROVE  Right(ip)
    <2>1. CASE ArpReplyAdd(y, m)
      BY <1>3, <2>1 DEF ArpReplyAdd
    <2>2. CASE ArpReplyCopy(y, m)
      BY <1>1, <2>2 DEF ArpReplyCopy, ArpSetEntry, ArpInv, ArpTypeOK
    <2>3. QED
      BY <1>5, <2>1, <2>2 DEF ArpReply
  \* What waits is handed out.
  <1>6. ASSUME NEW h \in arp_held, ArpReplySend(h)
        PROVE  Right(ip)
    <2>1. /\ h.ip \in ArpIp /\ h.at = "send" /\ h.entry = "present" /\ h.mac \in ArpMac
          /\ arp_state[h.ip] = "sane"
          /\ arp_pending' = [arp_pending EXCEPT ![h.ip] = 0]
          /\ arp_sent' = {<<h.ip, <<h.mac, "whole">>, arp_pending[h.ip]>>}
      BY <1>6 DEF ArpReplySend, ArpInv, ArpTypeOK, ArpHolding, ArpHolds
    <2>2. h.ip = ip
      BY <1>0, <2>1 DEF ArpInv, ArpTypeOK
    <2>3. ~ArpDrained(ip)
      BY <2>1 DEF ArpInv, ArpHolds, ArpDrained
    <2>4. ip \notin arp_late
      BY <2>1, <2>2, <2>3 DEF ArpInv, ArpWaits
    <2>5. arp_pending'[ip] = 0
      BY <2>1, <2>2 DEF ArpInv, ArpTypeOK
    <2>6. QED
      BY <2>1, <2>2, <2>4, <2>5
  <1>7. ASSUME NEW y \in ArpIp, ArpExpire(y)
        PROVE  Right(ip)
    <2>1. ArpSetEntry(y, "none", <<ArpZero, "whole">>, 0) /\ y \in arp_due
      BY <1>1, <1>7 DEF ArpExpire, ArpCrash, arpEntryVars
    <2>2. y = ip
      BY <1>0, <2>1 DEF ArpSetEntry, ArpInv, ArpTypeOK
    <2>3. arp_state'[ip] = "none"
      BY <2>1, <2>2 DEF ArpSetEntry, ArpInv, ArpTypeOK
    <2>4. QED
      BY <2>1, <2>2, <2>3
  <1> HIDE DEF Right
  <1>8. QED
    BY <1>1, <1>2, <1>4, <1>5, <1>6, <1>7
       DEF ArpNext, arpVars, ArpLookup, ArpForwardAbsent, ArpForwardPresent, ArpForwardTest,
           ArpUseFreed, ArpCrash, ArpReplyComplete, ArpResolve, ArpLose, ArpTick, ArpSilence,
           arpEntryVars

\* What waits at an entry leaves all at once, with the address of the reply, or
\* is dropped as the entry expires, or came too late and is dropped as the
\* entry is replaced (process_arp_pending_entry, delete_arp_entry).
THEOREM ArpAnsweredAlways == ArpSafety => ArpAnswered
  BY ArpInvariant, ArpAnsweredStep, PTL DEF ArpSafety, ArpAnswered

-----------------------------------------------------------------------------
(* The use of the wheel.                                                   *)

\* What a step does to the timers: nothing; one is armed with the expiry time;
\* one that is due runs and is off; a tick.
LEMMA ArpTimerEffects ==
    ASSUME ArpInv, [ArpNext]_arpVars
    PROVE  \/ UNCHANGED <<arp_timer, arp_due>>
           \/ \E ip \in ArpIp : /\ arp_timer' = [arp_timer EXCEPT ![ip] = ArpExpTime]
                                /\ arp_due' = arp_due
           \/ \E ip \in arp_due : /\ arp_timer' = [arp_timer EXCEPT ![ip] = ArpOff]
                                  /\ arp_due' = arp_due \ {ip}
           \/ ArpTick
  <1>1. \A h \in arp_held : h.ip \in ArpIp
    BY DEF ArpInv, ArpTypeOK, ArpHolding
  <1>2. QED
    BY <1>1 DEF ArpNext, arpVars, ArpLookup, ArpForwardAbsent, ArpForwardMissed, ArpForwardAppend,
                ArpForwardPresent, ArpForwardTest, ArpForwardWait, ArpUseFreed, ArpReplySend,
                ArpReplyComplete, CreateArpSaneEntry, ArpTableEntryAdd, ArpCrash, ArpResolve,
                ArpReply, ArpReplyAdd, ArpReplyCopy, ArpLose, ArpExpire, ArpSilence, ArpArm,
                arpEntryVars, arpTimerVars

\* A timer that is due is armed.
ArpDueArmed == \A ip \in arp_due : arp_timer[ip] # ArpOff

LEMMA ArpDueArmedStep == ArpInv /\ ArpDueArmed /\ [ArpNext]_arpVars => ArpDueArmed'
  <1> SUFFICES ASSUME ArpInv, ArpDueArmed, [ArpNext]_arpVars
               PROVE  ArpDueArmed'
    OBVIOUS
  <1>1. CASE UNCHANGED <<arp_timer, arp_due>>
    BY <1>1 DEF ArpDueArmed
  <1>2. ASSUME NEW ip \in ArpIp, arp_timer' = [arp_timer EXCEPT ![ip] = ArpExpTime], arp_due' = arp_due
        PROVE  ArpDueArmed'
    BY <1>2, ArpAssumption DEF ArpDueArmed, ArpInv, ArpTypeOK, ArpOff
  <1>3. ASSUME NEW ip \in arp_due, arp_timer' = [arp_timer EXCEPT ![ip] = ArpOff],
               arp_due' = arp_due \ {ip}
        PROVE  ArpDueArmed'
    BY <1>3 DEF ArpDueArmed, ArpInv, ArpTypeOK
  <1>4. CASE ArpTick
    BY <1>4 DEF ArpTick, ArpDueArmed, ArpOff
  <1>5. QED
    BY <1>1, <1>2, <1>3, <1>4, ArpTimerEffects

LEMMA ArpTimersStep ==
    ASSUME ArpInv, ArpDueArmed, [ArpNext]_arpVars
    PROVE  [ArpTimers!Next]_(ArpTimers!vars)
  <1>1. ArpTypeOK'
    BY ArpInductive DEF ArpInv
  <1>2. CASE UNCHANGED <<arp_timer, arp_due>>
    BY <1>2 DEF ArpTimers!vars
  <1>3. ASSUME NEW ip \in ArpIp, arp_timer' = [arp_timer EXCEPT ![ip] = ArpExpTime], arp_due' = arp_due
        PROVE  ArpTimers!Next
    <2>1. ArpTimers!Program
      BY <1>1, <1>3, ArpAssumption DEF ArpTimers!Program, ArpTimers!Off, ArpOff, ArpInv, ArpTypeOK
    <2>2. \A x \in arp_due : arp_timer'[x] # ArpOff
      BY <1>3, ArpDueArmedStep DEF ArpDueArmed
    <2>3. ArpTimers!Post
      BY <1>3, <2>1, <2>2 DEF ArpTimers!Post, ArpTimers!Off, ArpOff
    <2>4. QED
      BY <2>3 DEF ArpTimers!Next
  <1>4. ASSUME NEW ip \in arp_due, arp_timer' = [arp_timer EXCEPT ![ip] = ArpOff],
               arp_due' = arp_due \ {ip}
        PROVE  ArpTimers!Next
    <2>1. ip \in ArpIp /\ arp_timer'[ip] = ArpOff
      BY <1>4 DEF ArpInv, ArpTypeOK
    <2>2. ArpTimers!Program
      BY <1>1, <1>4, <2>1 DEF ArpTimers!Program, ArpTimers!Off, ArpOff, ArpInv, ArpTypeOK
    <2>3. \A x \in arp_due \ {ip} : arp_timer'[x] # ArpOff
      BY <1>4 DEF ArpDueArmed, ArpInv, ArpTypeOK
    <2>4. ArpTimers!Fire(ip)
      BY <1>4, <2>1, <2>2, <2>3 DEF ArpTimers!Fire, ArpTimers!Off, ArpOff
    <2>5. QED
      BY <2>1, <2>4 DEF ArpTimers!Next
  <1>5. CASE ArpTick
    BY <1>5 DEF ArpTick, ArpTimers!Next, ArpTimers!Tick, ArpTimers!Off, ArpOff
  <1>6. QED
    BY <1>2, <1>3, <1>4, <1>5, ArpTimerEffects

\* The table arms, rearms and lets run its expiry timers as a client of the
\* wheel may (TimerService).
THEOREM ArpUsesTimersAlways == ArpSafety => ArpUsesTimers
  <1>1. ArpInit => ArpDueArmed /\ ArpTimers!Init
    BY DEF ArpInit, ArpDueArmed, ArpTimers!Init, ArpTimers!Off, ArpOff
  <1>2. ArpInv /\ ArpDueArmed /\ [ArpNext]_arpVars => [ArpTimers!Next]_(ArpTimers!vars)
    BY ArpTimersStep
  <1>3. QED
    BY <1>1, <1>2, ArpInvariant, ArpDueArmedStep, PTL DEF ArpSafety, ArpUsesTimers, ArpTimers!Safety

-----------------------------------------------------------------------------
(* The parts together.  They share no variable: a step of one leaves the   *)
(* others as they are.                                                     *)

InputOutputInv == TrInv /\ ArpInv /\ SwInv /\ CliInv /\ LgInv

InputOutputSteps ==
    [TrNext]_trVars /\ [ArpNext]_arpVars /\ [SwNext]_swVars /\ [CliNext]_cliVars /\ [LgNext]_lgVars

LEMMA InputOutputApart == [Next]_ioVars => InputOutputSteps
  <1> SUFFICES ASSUME [Next]_ioVars PROVE InputOutputSteps
    OBVIOUS
  <1>1. CASE TrNext /\ UNCHANGED <<focus, arpVars, swVars, cliVars, lgVars>>
    BY <1>1 DEF InputOutputSteps
  <1>2. CASE ArpNext /\ UNCHANGED <<focus, trVars, swVars, cliVars, lgVars>>
    BY <1>2 DEF InputOutputSteps
  <1>3. CASE SwNext /\ UNCHANGED <<focus, trVars, arpVars, cliVars, lgVars>>
    BY <1>3 DEF InputOutputSteps
  <1>4. CASE CliNext /\ UNCHANGED <<focus, trVars, arpVars, swVars, lgVars>>
    BY <1>4 DEF InputOutputSteps
  <1>5. CASE LgNext /\ UNCHANGED <<focus, trVars, arpVars, swVars, cliVars>>
    BY <1>5 DEF InputOutputSteps
  <1>6. CASE UNCHANGED ioVars
    BY <1>6 DEF ioVars, InputOutputSteps
  <1>7. QED
    BY <1>1, <1>2, <1>3, <1>4, <1>5, <1>6 DEF Next

\* All the parts keep their invariants whichever of them moves.
THEOREM InputOutputInvariant == Spec => []InputOutputInv
  <1>1. Init => InputOutputInv
    BY TrInitInv, ArpInitInv, SwInitInv, CliInitInv, LgInitInv DEF Init, InputOutputInv
  <1>2. InputOutputInv /\ [Next]_ioVars => InputOutputInv'
    <2> SUFFICES ASSUME InputOutputInv, [Next]_ioVars PROVE InputOutputInv'
      OBVIOUS
    <2>1. InputOutputSteps
      BY InputOutputApart
    <2>2. TrInv'
      BY <2>1, TrSteps DEF InputOutputInv, InputOutputSteps
    <2>3. ArpInv' /\ SwInv'
      BY <2>1, ArpInductive, SwInductive DEF InputOutputInv, InputOutputSteps
    <2>4. CliInv' /\ LgInv'
      BY <2>1, CliSteps, LgSteps DEF InputOutputInv, InputOutputSteps
    <2>5. QED
      BY <2>2, <2>3, <2>4 DEF InputOutputInv
  <1>3. QED
    BY <1>1, <1>2, PTL DEF Spec, Safety

\* The state of each part is of its types: the buffer, sockets and sendings of
\* comm.c, the entries and timers of arp_table.c, the arrays of
\* interface_set_vlan, the tree, buffer and calls of the command parser, and
\* the flags of tcp_ip_trace.c.
THEOREM InputOutputTypes == Spec => []InputOutputTypeOK
  <1>1. InputOutputInv => InputOutputTypeOK
    BY CliInvIs DEF InputOutputInv, InputOutputTypeOK, TrInv, ArpInv, SwInv, LgInv
  <1>2. QED
    BY <1>1, InputOutputInvariant, PTL

=============================================================================
