--------------------------- MODULE Providers_proofs ---------------------------
(***************************************************************************)
(* The loop on either provider client is a run of Orchestrator: what is    *)
(* proved of a language model that may answer anything (module             *)
(* Orchestrator_proofs) holds of every reply of either API.  The forms     *)
(* both clients give its conversation are ones the APIs accept: an         *)
(* induction over the rounds of the conversation, on lemmas about the      *)
(* loops of the translation (Of, FlattenSeq).                              *)
(***************************************************************************)
EXTENDS Providers, Orchestrator_proofs, SequenceTheorems

\* Every reply becomes an answer that the loop knows what to do with.
LEMMA AskIsStep == ASSUME NEW r \in ApiReply, Ask(r) PROVE Next
<1> DEFINE resp == Complete(r)
<1>1. resp.stop = "tool_use" => resp.turn \in Turn \union {<<>>}
  BY ProvidersAssumption
     DEF Complete, Error, OpenAIResponse, AnthropicResponse, recoverToolCalls
<1>2. CASE ProviderFails
  BY <1>2 DEF Next
<1>3. CASE EndTurn \/ StopShort \/ UseNoTool
  BY <1>3 DEF Next
<1>4. CASE resp.stop = "tool_use" /\ UseTools(resp.turn)
  <2>1. resp.turn \in Turn
    BY <1>1, <1>4 DEF UseTools
  <2> QED BY <1>4, <2>1 DEF Next
<1> QED BY <1>2, <1>3, <1>4 DEF Ask

\* A run on a provider client (orchestrator.go:395-446 over openai/client.go:146-222 or
\* anthropic/client.go:154-194) is a run with a model that may answer anything.
THEOREM ProvidersRefineOrchestrator == PSpec => Spec
<1>1. PInit => Init
  BY DEF PInit
<1>2. [PNext]_pvars => [Next]_ovars
  <2>1. CASE PNext
    BY <2>1, AskIsStep DEF PNext, Same, Next
  <2>2. CASE UNCHANGED pvars
    BY <2>2 DEF pvars
  <2> QED BY <2>1, <2>2
<1> QED BY <1>1, <1>2, PTL DEF PSpec, Spec

-----------------------------------------------------------------------------
(* The loops of the translation.                                           *)

\* Induction over an interval: a set that has its first number and every successor.
LEMMA Upwards ==
  ASSUME NEW m \in Nat, NEW n \in Nat, NEW P, m \in P,
         \A i \in m..n : i \in P /\ i < n => i + 1 \in P
  PROVE  \A i \in m..n : i \in P
<1> DEFINE S == {i \in Nat : i \in m..n => i \in P}
<1>1. 0 \in S
  <2>1. 0 \in m..n => m = 0
    OBVIOUS
  <2> QED BY <2>1
<1>2. ASSUME NEW i \in S PROVE i + 1 \in S
  <2>1. i \in Nat /\ i + 1 \in Nat
    OBVIOUS
  <2>2. CASE i \in m..n /\ i < n
    BY <2>1, <2>2
  <2>3. CASE i + 1 = m
    BY <2>1, <2>3
  <2>4. CASE i + 1 \notin m..n
    BY <2>1, <2>4
  <2> QED BY <2>1, <2>2, <2>3, <2>4
<1>3. S \in SUBSET Nat
  OBVIOUS
<1> HIDE DEF S
<1>4. S = Nat
  BY <1>1, <1>2, <1>3, SetInduction
<1>5. \A i \in m..n : i \in S
  BY <1>4
<1> QED BY <1>5 DEF S

\* Of, by any function that goes on as its loop does.
LEMMA OfIs ==
  ASSUME NEW c, NEW t, Len(c) \in Nat, NEW g, g[0] = <<>>,
         \A n \in 1..Len(c) :
           g[n] = IF c[n].type = t THEN Append(g[n - 1], c[n]) ELSE g[n - 1]
  PROVE  Of(c, t) = g[Len(c)]
<1> DEFINE Loop(f) == [n \in 0..Len(c) |-> IF n = 0 THEN <<>>
                                           ELSE IF c[n].type = t THEN Append(f[n - 1], c[n])
                                           ELSE f[n - 1]]
           e == [n \in 0..Len(c) |-> g[n]]
           h == CHOOSE f : f = Loop(f)
<1>1. e = Loop(e)
  <2>1. ASSUME NEW n \in 0..Len(c) PROVE e[n] = Loop(e)[n]
    <3>1. n # 0 => n \in 1..Len(c) /\ n - 1 \in 0..Len(c)
      OBVIOUS
    <3> QED BY <3>1
  <2> QED BY <2>1
<1>2. h = Loop(h)
  BY <1>1
<1>3. Of(c, t) = h[Len(c)]
  BY DEF Of
<1> HIDE DEF h
<1>4. h[0] = g[0]
  BY <1>2
<1>5. ASSUME NEW i \in 1..Len(c), h[i - 1] = g[i - 1] PROVE h[i] = g[i]
  <2>1. i \in 0..Len(c) /\ i # 0
    BY <1>5
  <2>2. h[i] = IF c[i].type = t THEN Append(h[i - 1], c[i]) ELSE h[i - 1]
    BY <1>2, <2>1
  <2> QED BY <1>5, <2>2
<1> HIDE DEF Loop, e
<1> DEFINE P == {i \in 0..Len(c) : h[i] = g[i]}
<1>6. 0 \in P
  BY <1>4
<1>7. ASSUME NEW i \in 0..Len(c), i \in P /\ i < Len(c) PROVE i + 1 \in P
  <2>1. i + 1 \in 1..Len(c) /\ i + 1 \in 0..Len(c) /\ (i + 1) - 1 = i
    BY <1>7
  <2> QED BY <1>5, <1>7, <2>1
<1> HIDE DEF P
<1>8. \A i \in 0..Len(c) : i \in P
  BY <1>6, <1>7, Upwards
<1>9. h[Len(c)] = g[Len(c)]
  BY <1>8 DEF P
<1> QED BY <1>3, <1>9

\* Of, of a content whose blocks of a type are next to each other.
LEMMA OfWindow ==
  ASSUME NEW D, NEW c \in Seq(D), NEW t, NEW k \in 0..Len(c), NEW l \in k..Len(c),
         \A i \in 1..Len(c) : c[i].type = t <=> (k < i /\ i <= l)
  PROVE  /\ DOMAIN Of(c, t) = 1..(l - k)
         /\ \A i \in 1..(l - k) : Of(c, t)[i] = c[i + k]
         /\ l = k => Of(c, t) = <<>>
<1> DEFINE size(n) == IF n <= k THEN 0 ELSE IF n <= l THEN n - k ELSE l - k
           g == [n \in 0..Len(c) |-> [i \in 1..size(n) |-> c[i + k]]]
<1>1. Len(c) \in Nat /\ \A i \in 1..Len(c) : c[i] \in D
  BY LenProperties, ElementOfSeq
<1>2. g[0] = <<>>
  BY <1>1
<1>3. ASSUME NEW n \in 1..Len(c)
      PROVE  g[n] = IF c[n].type = t THEN Append(g[n - 1], c[n]) ELSE g[n - 1]
  <2>1. n \in 0..Len(c) /\ n - 1 \in 0..Len(c)
    BY <1>1
  <2>2. CASE k < n /\ n <= l
    <3>1. size(n) = n - k /\ size(n - 1) = (n - k) - 1 /\ n - k \in Nat /\ (n - k) - 1 \in Nat
      BY <1>1, <2>2
    <3>2. g[n] = [i \in 1..(n - k) |-> c[i + k]] /\ g[n - 1] = [i \in 1..((n - k) - 1) |-> c[i + k]]
      BY <2>1, <3>1
    <3>3. \A i \in 1..(n - k) : c[i + k] \in D
      BY <1>1, <2>2
    <3>4. g[n] \in Seq(D) /\ g[n - 1] \in Seq(D) /\ Len(g[n]) = n - k /\ Len(g[n - 1]) = (n - k) - 1
      <4> HIDE DEF g, size
      <4>1. g[n] \in Seq(D) /\ Len(g[n]) = n - k
        BY <3>1, <3>2, <3>3
      <4>2. \A i \in 1..((n - k) - 1) : c[i + k] \in D
        BY <3>1, <3>3
      <4>3. g[n - 1] \in Seq(D) /\ Len(g[n - 1]) = (n - k) - 1
        BY <3>1, <3>2, <4>2
      <4> QED BY <4>1, <4>3
    <3> HIDE DEF g
    <3>5. /\ Append(g[n - 1], c[n]) \in Seq(D) /\ Len(Append(g[n - 1], c[n])) = n - k
          /\ \A i \in 1..(n - k) :
               Append(g[n - 1], c[n])[i] = IF i = n - k THEN c[n] ELSE g[n - 1][i]
      <4> DEFINE m == (n - k) - 1
      <4>1. c[n] \in D /\ Len(g[n - 1]) = m /\ g[n - 1] \in Seq(D) /\ m \in Nat /\ m + 1 = n - k
        BY <1>1, <3>1, <3>4
      <4> HIDE DEF m
      <4>2. /\ Append(g[n - 1], c[n]) \in Seq(D) /\ Len(Append(g[n - 1], c[n])) = m + 1
            /\ \A i \in 1..m : Append(g[n - 1], c[n])[i] = g[n - 1][i]
            /\ Append(g[n - 1], c[n])[m + 1] = c[n]
        BY ONLY <4>1, AppendProperties
      <4>3. \A i \in 1..(m + 1) : i \in 1..m \/ i = m + 1
        BY ONLY <4>1
      <4>4. \A i \in 1..(m + 1) :
              Append(g[n - 1], c[n])[i] = IF i = m + 1 THEN c[n] ELSE g[n - 1][i]
        BY ONLY <4>2, <4>3
      <4> QED BY ONLY <4>1, <4>2, <4>4
    <3>6. ASSUME NEW i \in 1..(n - k) PROVE g[n][i] = Append(g[n - 1], c[n])[i]
      <4>1. i + k = n <=> i = n - k
        BY <1>1, <2>2, <3>1
      <4>2. i # n - k => i \in 1..((n - k) - 1)
        BY <3>1
      <4> QED BY <3>2, <3>5, <4>1, <4>2
    <3>7. g[n] = Append(g[n - 1], c[n])
      BY <3>4, <3>5, <3>6, SeqEqual
    <3> QED BY <2>2, <3>7
  <2>3. CASE ~(k < n /\ n <= l)
    <3>1. size(n) = size(n - 1)
      BY <1>1, <2>3
    <3> QED BY <2>1, <2>3, <3>1
  <2> QED BY <2>2, <2>3
<1>5. g[Len(c)] = [i \in 1..(l - k) |-> c[i + k]]
  <2>1. size(Len(c)) = l - k
    BY <1>1
  <2> QED BY <1>1, <2>1
<1> HIDE DEF g
<1>6. Of(c, t) = g[Len(c)]
  BY <1>1, <1>2, <1>3, OfIs
<1>7. Of(c, t) = [i \in 1..(l - k) |-> c[i + k]]
  BY <1>5, <1>6
<1> QED BY <1>7

\* FlattenSeq, by any function that goes on as its loop does.
LEMMA FlattenIs ==
  ASSUME NEW s, Len(s) \in Nat \ {0}, NEW g, g[1] = s[1],
         \A i \in 2..Len(s) : g[i] = g[i - 1] \o s[i]
  PROVE  FlattenSeq(s) = g[Len(s)]
<1> DEFINE Loop(f) == [i \in 1..Len(s) |-> IF i = 1 THEN s[i] ELSE f[i - 1] \o s[i]]
           e == [i \in 1..Len(s) |-> g[i]]
           h == CHOOSE f : f = Loop(f)
<1>1. e = Loop(e)
  <2>1. ASSUME NEW i \in 1..Len(s) PROVE e[i] = Loop(e)[i]
    <3>1. i # 1 => i \in 2..Len(s) /\ i - 1 \in 1..Len(s)
      OBVIOUS
    <3> QED BY <3>1
  <2> QED BY <2>1
<1>2. h = Loop(h)
  BY <1>1
<1>3. FlattenSeq(s) = h[Len(s)]
  BY DEF FlattenSeq
<1> HIDE DEF h
<1>4. h[1] = g[1]
  BY <1>2
<1>5. ASSUME NEW i \in 2..Len(s), h[i - 1] = g[i - 1] PROVE h[i] = g[i]
  <2>1. i \in 1..Len(s) /\ i # 1
    BY <1>5
  <2>2. h[i] = h[i - 1] \o s[i]
    BY <1>2, <2>1
  <2> QED BY <1>5, <2>2
<1> HIDE DEF Loop, e
<1> DEFINE P == {i \in 1..Len(s) : h[i] = g[i]}
<1>6. 1 \in P
  BY <1>4
<1>7. ASSUME NEW i \in 1..Len(s), i \in P /\ i < Len(s) PROVE i + 1 \in P
  <2>1. i + 1 \in 2..Len(s) /\ i + 1 \in 1..Len(s) /\ (i + 1) - 1 = i
    BY <1>7
  <2> QED BY <1>5, <1>7, <2>1
<1> HIDE DEF P
<1>8. \A i \in 1..Len(s) : i \in P
  BY <1>6, <1>7, Upwards
<1>9. h[Len(s)] = g[Len(s)]
  BY <1>8 DEF P
<1> QED BY <1>3, <1>9

\* There is such a function.
LEMMA FlattenRuns ==
  ASSUME NEW s, Len(s) \in Nat \ {0}
  PROVE  \E g : /\ g[1] = s[1]
                /\ \A i \in 2..Len(s) : g[i] = g[i - 1] \o s[i]
                /\ FlattenSeq(s) = g[Len(s)]
<1> DEFINE Runs(g, n) == g[1] = s[1] /\ \A i \in 2..n : g[i] = g[i - 1] \o s[i]
           S == {n \in Nat : \E g : Runs(g, n)}
<1>1. 0 \in S
  <2>1. Runs([i \in {1} |-> s[1]], 0)
    OBVIOUS
  <2> QED BY <2>1
<1>2. ASSUME NEW n \in S PROVE n + 1 \in S
  <2>1. PICK g : Runs(g, n)
    OBVIOUS
  <2> DEFINE f == [i \in 1..(n + 1) |-> IF i = 1 THEN s[1]
                                        ELSE IF i <= n THEN g[i] ELSE g[n] \o s[n + 1]]
  <2>2. /\ n \in Nat /\ f[1] = s[1]
        /\ \A i \in 2..n : f[i] = g[i]
        /\ n + 1 >= 2 => f[n + 1] = g[n] \o s[n + 1]
    <3>1. n \in Nat /\ 1 \in 1..(n + 1) /\ n + 1 \in 1..(n + 1) /\ ~(n + 1 <= n)
      OBVIOUS
    <3>2. f[1] = s[1]
      BY <3>1
    <3>3. \A i \in 2..n : f[i] = g[i]
      BY <3>1
    <3>4. ASSUME n + 1 >= 2 PROVE f[n + 1] = g[n] \o s[n + 1]
      <4>1. n + 1 # 1
        BY <3>4
      <4> QED BY <3>1, <4>1
    <3> QED BY <3>1, <3>2, <3>3, <3>4
  <2> HIDE DEF f
  <2>3. ASSUME NEW i \in 2..(n + 1) PROVE f[i] = f[i - 1] \o s[i]
    <3>1. f[i - 1] = g[i - 1]
      <4>1. i - 1 = 1 \/ i - 1 \in 2..n
        BY <2>2
      <4> QED BY <2>1, <2>2, <4>1
    <3>2. CASE i <= n
      <4>1. i \in 2..n
        BY <2>2, <3>2
      <4> QED BY <2>1, <2>2, <3>1, <4>1
    <3>3. CASE i = n + 1
      <4>1. n = i - 1 /\ n + 1 >= 2
        BY <2>2, <3>3
      <4> QED BY <2>2, <3>1, <3>3, <4>1
    <3>4. i <= n \/ i = n + 1
      BY <2>2
    <3> QED BY <3>2, <3>3, <3>4
  <2>4. \A i \in 2..(n + 1) : f[i] = f[i - 1] \o s[i]
    BY <2>3
  <2>5. f[1] = s[1] /\ n + 1 \in Nat
    BY <2>2
  <2>6. Runs(f, n + 1)
    BY <2>4, <2>5
  <2> HIDE DEF Runs
  <2> QED BY <2>5, <2>6
<1>3. S \in SUBSET Nat
  OBVIOUS
<1> HIDE DEF S
<1>4. S = Nat
  BY <1>1, <1>2, <1>3, SetInduction
<1>5. PICK g : Runs(g, Len(s))
  BY <1>4 DEF S
<1>6. FlattenSeq(s) = g[Len(s)]
  BY <1>5, FlattenIs
<1> QED BY <1>5, <1>6

\* What is flattened up to each place is a sequence.
LEMMA FlattenTyped ==
  ASSUME NEW D, NEW s \in Seq(Seq(D)), NEW g, g[1] = s[1],
         \A i \in 2..Len(s) : g[i] = g[i - 1] \o s[i]
  PROVE  \A i \in 1..Len(s) : g[i] \in Seq(D)
<1>1. Len(s) \in Nat /\ \A i \in 1..Len(s) : s[i] \in Seq(D)
  BY LenProperties, ElementOfSeq
<1> SUFFICES ASSUME Len(s) # 0 PROVE \A i \in 1..Len(s) : g[i] \in Seq(D)
  BY <1>1
<1> DEFINE P == {i \in 1..Len(s) : g[i] \in Seq(D)}
<1>2. 1 \in P
  BY <1>1
<1>3. ASSUME NEW i \in 1..Len(s), i \in P /\ i < Len(s) PROVE i + 1 \in P
  <2>1. i + 1 \in 2..Len(s) /\ i + 1 \in 1..Len(s) /\ (i + 1) - 1 = i
    BY <1>1, <1>3
  <2>2. g[i] \in Seq(D) /\ s[i + 1] \in Seq(D) /\ g[i + 1] = g[i] \o s[i + 1]
    BY <1>1, <1>3, <2>1
  <2>3. g[i + 1] \in Seq(D)
    BY <2>2, ConcatProperties
  <2> QED BY <2>1, <2>3
<1> HIDE DEF P
<1>4. \A i \in 1..Len(s) : i \in P
  BY <1>1, <1>2, <1>3, Upwards
<1> QED BY <1>4 DEF P

\* FlattenSeq, of one more element.
LEMMA FlattenAppend ==
  ASSUME NEW D, NEW s \in Seq(Seq(D)), NEW x \in Seq(D)
  PROVE  FlattenSeq(s) \in Seq(D) /\ FlattenSeq(Append(s, x)) = FlattenSeq(s) \o x
<1> DEFINE t == Append(s, x)
<1>1. /\ Len(s) \in Nat /\ t \in Seq(Seq(D)) /\ Len(t) = Len(s) + 1 /\ t[Len(t)] = x
      /\ \A i \in 1..Len(s) : t[i] = s[i]
  BY LenProperties, AppendProperties
<1> HIDE DEF t
<1>2. CASE Len(s) = 0
  <2>1. s = <<>>
    BY <1>2, EmptySeq
  <2>2. FlattenSeq(s) = <<>>
    BY <2>1 DEF FlattenSeq
  <2>3. FlattenSeq(t) = x
    <3>1. Len(t) = 1 /\ t[1] = x
      BY <1>1, <1>2
    <3> DEFINE g == [i \in {1} |-> x]
    <3>2. g[1] = t[1] /\ g[Len(t)] = x
      BY <3>1
    <3>3. \A i \in 2..Len(t) : g[i] = g[i - 1] \o t[i]
      BY <3>1
    <3>4. Len(t) \in Nat \ {0}
      BY <3>1
    <3> HIDE DEF g
    <3>5. FlattenSeq(t) = g[Len(t)]
      BY ONLY <3>2, <3>3, <3>4, FlattenIs
    <3> QED BY <3>2, <3>5
  <2> QED BY <2>2, <2>3, ConcatEmptySeq, EmptySeq DEF t
<1>3. CASE Len(s) # 0
  <2>1. PICK g : /\ g[1] = s[1]
                 /\ \A i \in 2..Len(s) : g[i] = g[i - 1] \o s[i]
                 /\ FlattenSeq(s) = g[Len(s)]
    BY <1>1, <1>3, FlattenRuns
  <2>2. FlattenSeq(s) \in Seq(D)
    <3>1. \A i \in 1..Len(s) : g[i] \in Seq(D)
      BY ONLY s \in Seq(Seq(D)), <2>1, FlattenTyped
    <3>2. Len(s) \in 1..Len(s)
      BY <1>1, <1>3
    <3> QED BY <2>1, <3>1, <3>2
  <2> DEFINE f == [i \in 1..Len(t) |-> IF i <= Len(s) THEN g[i] ELSE g[Len(s)] \o x]
  <2>3. f[1] = t[1]
    BY <1>1, <1>3, <2>1
  <2>4. ASSUME NEW i \in 2..Len(t) PROVE f[i] = f[i - 1] \o t[i]
    <3>1. i \in 1..Len(t) /\ i - 1 \in 1..Len(t) /\ i - 1 <= Len(s)
      BY <1>1
    <3>2. f[i - 1] = g[i - 1]
      BY <3>1
    <3>3. CASE i <= Len(s)
      <4>1. i \in 2..Len(s) /\ i \in 1..Len(s)
        BY <1>1, <3>3
      <4>2. f[i] = g[i] /\ t[i] = s[i]
        BY <1>1, <3>1, <3>3, <4>1
      <4> QED BY <2>1, <3>2, <4>1, <4>2
    <3>4. CASE ~(i <= Len(s))
      <4>1. i = Len(t) /\ i - 1 = Len(s)
        BY <1>1, <3>4
      <4>2. f[i] = g[Len(s)] \o x /\ t[i] = x
        BY <1>1, <3>1, <3>4, <4>1
      <4> QED BY <3>2, <4>1, <4>2
    <3> QED BY <3>3, <3>4
  <2>5. f[Len(t)] = g[Len(s)] \o x
    BY <1>1
  <2>6. Len(t) \in Nat \ {0}
    BY <1>1
  <2> HIDE DEF f
  <2>7. FlattenSeq(t) = f[Len(t)]
    BY <2>3, <2>4, <2>6, FlattenIs
  <2> QED BY <2>1, <2>2, <2>5, <2>7 DEF t
<1> QED BY <1>1, <1>2, <1>3

\* FlattenSeq, one element at a time.
LEMMA FlattenNext ==
  ASSUME NEW D, NEW b \in Seq(Seq(D)), NEW n \in 0..(Len(b) - 1)
  PROVE  /\ FlattenSeq(SubSeq(b, 1, n)) \in Seq(D)
         /\ FlattenSeq(SubSeq(b, 1, n + 1)) = FlattenSeq(SubSeq(b, 1, n)) \o b[n + 1]
<1>1. Len(b) \in Nat /\ n + 1 \in 1..Len(b)
  BY LenProperties
<1>2. b[n + 1] \in Seq(D) /\ SubSeq(b, 1, n) \in Seq(Seq(D))
  BY <1>1, ElementOfSeq, SubSeqProperties
<1>3. SubSeq(b, 1, n + 1) = Append(SubSeq(b, 1, n), b[n + 1])
  BY <1>1, SubSeqRecursiveSecond
<1> QED BY <1>2, <1>3, FlattenAppend

\* What is empty adds nothing.
LEMMA FlattenBlanks ==
  ASSUME NEW D, NEW b \in Seq(Seq(D)), NEW n \in 0..Len(b),
         \A i \in (n + 1)..Len(b) : b[i] = <<>>
  PROVE  FlattenSeq(b) = FlattenSeq(SubSeq(b, 1, n))
<1>1. Len(b) \in Nat /\ n \in Nat
  BY LenProperties
<1> DEFINE P == {i \in n..Len(b) : FlattenSeq(SubSeq(b, 1, i)) = FlattenSeq(SubSeq(b, 1, n))}
<1>2. n \in P
  BY <1>1
<1>3. ASSUME NEW i \in n..Len(b), i \in P /\ i < Len(b) PROVE i + 1 \in P
  <2>1. i \in 0..(Len(b) - 1) /\ i + 1 \in (n + 1)..Len(b) /\ i + 1 \in n..Len(b)
    BY <1>1, <1>3
  <2>2. /\ FlattenSeq(SubSeq(b, 1, i)) \in Seq(D)
        /\ FlattenSeq(SubSeq(b, 1, i + 1)) = FlattenSeq(SubSeq(b, 1, i)) \o b[i + 1]
    BY <2>1, FlattenNext
  <2>3. FlattenSeq(SubSeq(b, 1, i)) \o b[i + 1] = FlattenSeq(SubSeq(b, 1, i))
    BY <2>1, <2>2, ConcatEmptySeq
  <2> QED BY <1>3, <2>1, <2>2, <2>3
<1> HIDE DEF P
<1>4. \A i \in n..Len(b) : i \in P
  BY <1>1, <1>2, <1>3, Upwards
<1>5. Len(b) \in n..Len(b) /\ SubSeq(b, 1, Len(b)) = b
  BY <1>1, SubSeqFull
<1>6. FlattenSeq(SubSeq(b, 1, Len(b))) = FlattenSeq(SubSeq(b, 1, n))
  BY <1>4, <1>5 DEF P
<1> QED BY <1>5, <1>6

-----------------------------------------------------------------------------
(* What OpenAI accepts.                                                    *)

\* The ids of calls: -1 for the round where the reply had none.
Id == Int \X Int

\* What the OpenAI client may send.
ApiMsg ==
  {ApiMessage(role, text, uses, id) : role \in {"system", "user", "assistant", "tool"},
     text \in BOOLEAN, uses \in Seq(Id), id \in Id \union {<<>>}}

\* Caller of OpenAIAccepts.
CallerIn(sent, j) == SelectLastInSubSeq(sent, 1, j, LAMBDA m : m.role # "tool")

\* The caller of a message is the last before it that is no tool message.
LEMMA CallerIs ==
  ASSUME NEW sent, NEW j \in Nat, NEW i \in 1..j, sent[i].role # "tool",
         \A h \in (i + 1)..j : sent[h].role = "tool"
  PROVE  CallerIn(sent, j) = i
<1> DEFINE I == {h \in 1..j : sent[h].role # "tool"}
<1>1. i \in I /\ \A y \in I : i >= y
  <2>1. ASSUME NEW y \in I, ~(i >= y) PROVE FALSE
    <3>1. y \in (i + 1)..j
      BY <2>1
    <3> QED BY <2>1, <3>1
  <2> QED BY <2>1
<1>2. CallerIn(sent, j) = Max(I)
  BY <1>1 DEF CallerIn, SelectLastInSubSeq
<1>3. \A x \in I : (\A y \in I : x >= y) => x = i
  BY <1>1
<1> HIDE DEF I
<1>4. Max(I) = i
  BY <1>1, <1>3 DEF Max
<1> QED BY <1>2, <1>4

\* The caller depends on what is sent before alone.
LEMMA CallerSame ==
  ASSUME NEW a, NEW b, NEW j \in Nat, \A h \in 1..j : a[h] = b[h]
  PROVE  CallerIn(a, j) = CallerIn(b, j)
<1>1. {h \in 1..j : a[h].role # "tool"} = {h \in 1..j : b[h].role # "tool"}
  OBVIOUS
<1> QED BY <1>1 DEF CallerIn, SelectLastInSubSeq

\* A conversation that begins with no tool message has a caller at every place.
LEMMA CallerBefore ==
  ASSUME NEW sent, NEW n \in Nat, sent[1].role # "tool"
  PROVE  \A j \in 1..n : CallerIn(sent, j) \in 1..j
<1> DEFINE P == {j \in 1..n : \E i \in 1..j : /\ sent[i].role # "tool"
                                             /\ \A h \in (i + 1)..j : sent[h].role = "tool"}
<1> SUFFICES ASSUME n # 0 PROVE \A j \in 1..n : CallerIn(sent, j) \in 1..j
  OBVIOUS
<1>1. 1 \in P
  OBVIOUS
<1>2. ASSUME NEW j \in 1..n, j \in P /\ j < n PROVE j + 1 \in P
  <2>1. j + 1 \in 1..n
    BY <1>2
  <2>2. CASE sent[j + 1].role # "tool"
    <3>1. j + 1 \in 1..(j + 1) /\ \A h \in ((j + 1) + 1)..(j + 1) : sent[h].role = "tool"
      OBVIOUS
    <3> QED BY <2>1, <2>2, <3>1
  <2>3. CASE sent[j + 1].role = "tool"
    <3>1. PICK i \in 1..j : sent[i].role # "tool" /\ \A h \in (i + 1)..j : sent[h].role = "tool"
      BY <1>2
    <3>2. i \in 1..(j + 1) /\ \A h \in (i + 1)..(j + 1) : h \in (i + 1)..j \/ h = j + 1
      OBVIOUS
    <3> QED BY <2>1, <2>3, <3>1, <3>2
  <2> QED BY <2>2, <2>3
<1>3. \A j \in 1..n : j \in P
  <2> HIDE DEF P
  <2> QED BY <1>1, <1>2, Upwards
<1> SUFFICES ASSUME NEW j \in 1..n PROVE CallerIn(sent, j) \in 1..j
  OBVIOUS
<1>4. PICK i \in 1..j : sent[i].role # "tool" /\ \A h \in (i + 1)..j : sent[h].role = "tool"
  BY <1>3
<1>5. CallerIn(sent, j) = i
  BY <1>4, CallerIs
<1> QED BY <1>5

\* An id is not the empty id of a message that answers nothing.
LEMMA PairsAreNotEmpty == <<>> \notin Id
<1> SUFFICES ASSUME NEW a \in Int, NEW b \in Int, <<a, b>> = <<>> PROVE FALSE
  BY DEF Id
<1>1. Len(<<a, b>>) = 2 /\ Len(<<>>) = 0
  OBVIOUS
<1> QED BY <1>1

\* Another round: a message that calls tools, and one for the result of each call.
RoundAdded(sent, ids, new) ==
  /\ new \in Seq(ApiMsg) /\ Len(new) = Len(sent) + 1 + Len(ids)
  /\ \A j \in 1..Len(sent) : new[j] = sent[j]
  /\ new[Len(sent) + 1].role = "assistant" /\ new[Len(sent) + 1].calls = ids
  /\ new[Len(sent) + 1].id = <<>>
  /\ \A k \in 1..Len(ids) : /\ new[Len(sent) + 1 + k].role = "tool"
                            /\ new[Len(sent) + 1 + k].calls = <<>>
                            /\ new[Len(sent) + 1 + k].id = ids[k]

\* The API accepts the conversation with that round, if it did without.
LEMMA TurnIsAccepted ==
  ASSUME NEW sent \in Seq(ApiMsg), sent # <<>>, sent[1].role # "tool", OpenAIAccepts(sent),
         NEW ids \in Seq(Id), ids # <<>>, IsInjective(ids),
         NEW new, RoundAdded(sent, ids, new)
  PROVE  OpenAIAccepts(new)
<1> DEFINE l == Len(sent)  c == l + 1
<1>1. /\ l \in Nat /\ l >= 1 /\ DOMAIN sent = 1..l
      /\ Len(ids) \in Nat /\ Len(ids) >= 1 /\ DOMAIN ids = 1..Len(ids)
      /\ \A k \in 1..Len(ids) : ids[k] \in Id
      /\ DOMAIN new = 1..(c + Len(ids))
  <2>1. l \in Nat /\ l >= 1 /\ DOMAIN sent = 1..l
    BY LenProperties, EmptySeq
  <2>2. Len(ids) \in Nat /\ Len(ids) >= 1 /\ DOMAIN ids = 1..Len(ids)
    BY LenProperties, EmptySeq
  <2>3. \A k \in 1..Len(ids) : ids[k] \in Id
    BY ElementOfSeq
  <2>4. DOMAIN new = 1..(c + Len(ids))
    BY LenProperties DEF RoundAdded
  <2> QED BY <2>1, <2>2, <2>3, <2>4
<1>2. \A j \in 1..l : new[j] = sent[j]
  BY DEF RoundAdded
<1>4. /\ new[c].role = "assistant" /\ new[c].calls = ids /\ new[c].id = <<>>
      /\ \A k \in 1..Len(ids) : /\ new[c + k].role = "tool" /\ new[c + k].calls = <<>>
                                /\ new[c + k].id = ids[k]
  BY DEF RoundAdded
<1> HIDE DEF l, c
<1>3. \A j \in DOMAIN new : j \in 1..l \/ j = c \/ \E k \in 1..Len(ids) : j = c + k
  <2> SUFFICES ASSUME NEW j \in DOMAIN new, j \notin 1..l, j # c PROVE \E k \in 1..Len(ids) : j = c + k
    OBVIOUS
  <2>1. j \in 1..(c + Len(ids)) /\ c = l + 1
    BY <1>1 DEF c
  <2>2. j - c \in 1..Len(ids) /\ j = c + (j - c)
    BY <1>1, <2>1
  <2> QED BY <2>2
<1>5. \A j \in 1..l : CallerIn(new, j) = CallerIn(sent, j) /\ CallerIn(new, j) \in 1..l
  <2> SUFFICES ASSUME NEW j \in 1..l
               PROVE  CallerIn(new, j) = CallerIn(sent, j) /\ CallerIn(new, j) \in 1..l
    OBVIOUS
  <2>1. j \in Nat /\ \A h \in 1..j : new[h] = sent[h]
    BY <1>1, <1>2
  <2>2. CallerIn(new, j) = CallerIn(sent, j)
    BY <2>1, CallerSame
  <2>3. CallerIn(sent, j) \in 1..j
    BY <1>1, CallerBefore
  <2> QED BY <1>1, <2>2, <2>3
<1>6. \A j \in c..(c + Len(ids)) : CallerIn(new, j) = c
  <2> SUFFICES ASSUME NEW j \in c..(c + Len(ids)) PROVE CallerIn(new, j) = c
    OBVIOUS
  <2>1. j \in Nat /\ c \in 1..j /\ new[c].role # "tool"
    BY <1>1, <1>4 DEF c
  <2>2. ASSUME NEW h \in (c + 1)..j PROVE new[h].role = "tool"
    <3>1. h - c \in 1..Len(ids) /\ h = c + (h - c)
      BY <1>1 DEF c
    <3> QED BY <1>4, <3>1
  <2>3. \A h \in (c + 1)..j : new[h].role = "tool"
    BY <2>2
  <2> HIDE DEF c
  <2> QED BY ONLY <2>1, <2>3, CallerIs
<1>7. ASSUME NEW i \in DOMAIN new
      PROVE  /\ new[i].role = "assistant" => new[i].text \/ new[i].calls # <<>>
             /\ IsInjective(new[i].calls)
  <2>1. CASE i \in 1..l
    BY <1>1, <1>2, <2>1 DEF OpenAIAccepts
  <2>2. CASE i = c
    BY <1>4, <2>2
  <2>3. CASE \E k \in 1..Len(ids) : i = c + k
    BY <1>4, <2>3 DEF IsInjective
  <2> QED BY <1>3, <2>1, <2>2, <2>3
<1>8. ASSUME NEW i \in DOMAIN new, NEW k \in DOMAIN new[i].calls
      PROVE  Cardinality({j \in DOMAIN new : CallerIn(new, j) = i /\ new[j].id = new[i].calls[k]}) = 1
  <2> DEFINE J == {j \in DOMAIN new : CallerIn(new, j) = i /\ new[j].id = new[i].calls[k]}
  <2>1. CASE i \in 1..l
    <3> DEFINE K == {j \in DOMAIN sent : CallerIn(sent, j) = i /\ sent[j].id = sent[i].calls[k]}
    <3>1. i # c /\ i \in DOMAIN sent /\ new[i] = sent[i]
      BY <1>1, <1>2, <2>1 DEF c
    <3>2. ASSUME NEW j \in DOMAIN new, CallerIn(new, j) = i PROVE j \in 1..l
      <4>1. j \in c..(c + Len(ids)) \/ j \in 1..l
        BY <1>1, <1>3 DEF c
      <4> QED BY <1>6, <3>1, <3>2, <4>1
    <3>3. J = K
      <4>1. DOMAIN sent \subseteq DOMAIN new
        BY <1>1 DEF c
      <4> QED BY <1>1, <1>2, <1>5, <3>1, <3>2, <4>1
    <3>4. Cardinality(K) = 1
      BY <1>8, <3>1 DEF OpenAIAccepts, CallerIn
    <3> QED BY <3>3, <3>4
  <2>2. CASE i = c
    <3>1. k \in 1..Len(ids) /\ new[i].calls[k] = ids[k]
      BY <1>1, <1>4, <1>8, <2>2
    <3>2. J = {c + k}
      <4>1. c + k \in J
        <5>1. c + k \in DOMAIN new /\ c + k \in c..(c + Len(ids))
          BY <1>1, <3>1 DEF c
        <5> QED BY <1>4, <1>6, <2>2, <3>1, <5>1
      <4>2. ASSUME NEW j \in J PROVE j = c + k
        <5>1. CASE j \in 1..l
          <6>1. CallerIn(new, j) # c
            BY <1>1, <1>5, <5>1 DEF c
          <6> QED BY <2>2, <4>2, <6>1
        <5>2. CASE j = c
          BY <1>1, <1>4, <3>1, <4>2, <5>2, PairsAreNotEmpty
        <5>3. CASE \E h \in 1..Len(ids) : j = c + h
          <6>1. PICK h \in 1..Len(ids) : j = c + h
            BY <5>3
          <6>2. ids[h] = ids[k]
            BY <1>4, <3>1, <4>2, <6>1
          <6>3. h = k
            BY <1>1, <3>1, <6>2 DEF IsInjective
          <6> QED BY <6>1, <6>3
        <5> QED BY <1>3, <4>2, <5>1, <5>2, <5>3
      <4> QED BY <4>1, <4>2
    <3> QED BY <3>2, FS_Singleton
  <2>3. CASE \E h \in 1..Len(ids) : i = c + h
    BY <1>4, <1>8, <2>3
  <2> QED BY <1>3, <2>1, <2>2, <2>3
<1>9. ASSUME NEW j \in DOMAIN new, new[j].role = "tool"
      PROVE  new[j].id \in ToSet(new[CallerIn(new, j)].calls)
  <2>1. CASE j \in 1..l
    <3>1. CallerIn(new, j) = CallerIn(sent, j) /\ new[CallerIn(new, j)] = sent[CallerIn(sent, j)]
      BY <1>2, <1>5, <2>1
    <3>2. sent[j].id \in ToSet(sent[CallerIn(sent, j)].calls)
      BY <1>1, <1>2, <1>9, <2>1 DEF OpenAIAccepts, CallerIn
    <3> QED BY <1>2, <2>1, <3>1, <3>2
  <2>2. CASE \E k \in 1..Len(ids) : j = c + k
    <3>1. PICK k \in 1..Len(ids) : j = c + k
      BY <2>2
    <3>2. j \in c..(c + Len(ids))
      BY <1>1, <3>1 DEF c
    <3>3. CallerIn(new, j) = c /\ new[j].id = ids[k]
      BY <1>4, <1>6, <3>1, <3>2
    <3> QED BY <1>1, <1>4, <3>3 DEF ToSet
  <2>3. j # c
    BY <1>4, <1>9
  <2> QED BY <1>3, <2>1, <2>2, <2>3
<1> QED BY <1>7, <1>8, <1>9 DEF OpenAIAccepts, CallerIn

-----------------------------------------------------------------------------
(* The conversation, as it is told.                                        *)

\* The calls of a turn are numbered.
Numbered ==
  \A m \in 1..Len(messages) : messages[m].role = "assistant" =>
    \A k \in 1..Len(messages[m].ids) : messages[m].ids[k][2] = k

\* The model's turn joins the conversation with its calls numbered.
LEMMA NumberedJoins ==
  ASSUME OrchestratorInv, Numbered, NEW turn \in Turn \union {<<>>}, Says(turn)
  PROVE  Numbered'
<1> DEFINE ids == [k \in 1..Len(turn) |-> <<iter, k>>]
           block == [role |-> "assistant", ids |-> ids]
<1>1. messages \in Seq(Message)
  BY DEF OrchestratorInv, OrchestratorTypeOK, Message
<1>2. messages' = Append(messages, block) /\ turn \in Seq(Submission \union {Other})
  BY SaysType DEF OrchestratorInv
<1>3. Len(ids) = Len(turn) /\ Len(messages) \in Nat
  BY <1>1, <1>2
<1>4. \A k \in 1..Len(ids) : ids[k][2] = k
  BY <1>3
<1>5. block.ids = ids
  OBVIOUS
<1> HIDE DEF block, ids
<1>6. /\ Len(messages') = Len(messages) + 1
      /\ messages'[Len(messages) + 1] = block
      /\ \A m \in 1..Len(messages) : messages'[m] = messages[m]
  BY <1>1, <1>2, MessageJoins
<1>7. ASSUME NEW m \in 1..Len(messages'), messages'[m].role = "assistant"
      PROVE  \A k \in 1..Len(messages'[m].ids) : messages'[m].ids[k][2] = k
  <2>1. m \in 1..Len(messages) \/ m = Len(messages) + 1
    BY <1>3, <1>6
  <2>2. CASE m \in 1..Len(messages)
    BY <1>6, <1>7, <2>2 DEF Numbered
  <2>3. CASE m = Len(messages) + 1
    BY <1>4, <1>5, <1>6, <2>3
  <2> QED BY <2>1, <2>2, <2>3
<1> QED BY <1>7 DEF Numbered

\* Nothing else writes a call.
LEMMA NumberedStep == OrchestratorInv /\ Numbered /\ [Next]_ovars => Numbered'
<1> SUFFICES ASSUME OrchestratorInv, Numbered, [Next]_ovars PROVE Numbered'
  OBVIOUS
<1>1. CASE messages' = messages
  BY <1>1 DEF Numbered
<1>2. CASE Start
  <2>1. messages' = <<[role |-> "user", ids |-> <<>>]>>
    BY <1>2 DEF Start
  <2>2. Len(messages') = 1 /\ messages'[1].role = "user"
    BY <2>1
  <2> QED BY <2>2 DEF Numbered
<1>3. CASE \E turn \in Turn \union {<<>>} : Says(turn)
  BY <1>3, NumberedJoins
<1>4. CASE Continue
  <2>1. messages \in Seq(Message) /\ messages' = Append(messages, [role |-> "user", ids |-> results])
    BY <1>4 DEF Continue, OrchestratorInv, OrchestratorTypeOK, Message
  <2>2. /\ Len(messages') = Len(messages) + 1 /\ Len(messages) \in Nat
        /\ messages'[Len(messages) + 1].role = "user"
        /\ \A m \in 1..Len(messages) : messages'[m] = messages[m]
    BY <2>1, MessageJoins
  <2>3. ASSUME NEW m \in 1..Len(messages'), messages'[m].role = "assistant"
        PROVE  \A k \in 1..Len(messages'[m].ids) : messages'[m].ids[k][2] = k
    <3>1. m \in 1..Len(messages)
      <4>1. m \in 1..Len(messages) \/ m = Len(messages) + 1
        BY <2>2
      <4> QED BY <2>2, <2>3, <4>1
    <3> QED BY <2>2, <2>3, <3>1 DEF Numbered
  <2> QED BY <2>3 DEF Numbered
<1>5. CASE \/ RejectRequest \/ ProviderFails \/ OtherTool \/ Exhaust \/ UNCHANGED ovars
  BY <1>1, <1>5 DEF RejectRequest, ProviderFails, OtherTool, AnswerCall, Exhaust, ovars
<1>6. CASE EndTurn \/ StopShort \/ UseNoTool
  BY <1>3, <1>6 DEF EndTurn, StopShort, UseNoTool
<1>7. ASSUME NEW turn \in Turn, UseTools(turn) PROVE Numbered'
  BY <1>3, <1>7 DEF UseTools
<1>8. ASSUME NEW in \in Submission, Submit(in) PROVE Numbered'
  BY <1>1, <1>8, SubmitCases DEF Reject, AnswerCall
<1> QED BY <1>2, <1>4, <1>5, <1>6, <1>7, <1>8 DEF Next

\* A block of text has no id.
BlockId == Id \union {<<>>}

\* What a content is made of.
ContentBlock == [type : {"text", "tool_use", "tool_result"}, id : BlockId]

\* The blocks of a content.
LEMMA BlocksTyped ==
  /\ TextBlock \in ContentBlock
  /\ \A id \in Id : ToolUse(id) \in ContentBlock /\ ToolResult(id) \in ContentBlock
<1>1. <<>> \in BlockId /\ \A id \in Id : id \in BlockId
  BY DEF BlockId
<1>2. TextBlock \in ContentBlock
  BY <1>1 DEF TextBlock, ContentBlock
<1>3. ASSUME NEW id \in Id PROVE ToolUse(id) \in ContentBlock /\ ToolResult(id) \in ContentBlock
  BY <1>1 DEF ToolUse, ToolResult, ContentBlock
<1> QED BY <1>2, <1>3

\* The ids of a type, where its blocks are next to each other.
LEMMA IdsWindow ==
  ASSUME NEW c \in Seq(ContentBlock), NEW t, NEW k \in 0..Len(c), NEW l \in k..Len(c),
         \A i \in 1..Len(c) : c[i].type = t <=> (k < i /\ i <= l),
         NEW ids \in Seq(Id), Len(ids) = l - k, \A i \in 1..Len(ids) : c[i + k].id = ids[i]
  PROVE  Ids(c, t) = ids
<1> DEFINE w == Of(c, t)
<1>1. DOMAIN w = 1..(l - k) /\ \A i \in 1..(l - k) : w[i] = c[i + k]
  BY ONLY c \in Seq(ContentBlock), k \in 0..Len(c), l \in k..Len(c),
          \A i \in 1..Len(c) : c[i].type = t <=> (k < i /\ i <= l), OfWindow DEF w
<1>2. Ids(c, t) = [i \in DOMAIN w |-> w[i].id]
  BY DEF Ids
<1> HIDE DEF w
<1>3. ids = [i \in 1..Len(ids) |-> ids[i]]
  OBVIOUS
<1> QED BY <1>1, <1>2, <1>3

\* No block of a type: the loops find nothing.
LEMMA NoneOf ==
  ASSUME NEW c \in Seq(ContentBlock), NEW t, \A i \in 1..Len(c) : c[i].type # t
  PROVE  Of(c, t) = <<>> /\ Ids(c, t) = <<>>
<1>1. Len(c) \in Nat
  BY LenProperties
<1>2. 0 \in 0..Len(c) /\ 0 \in 0..Len(c) /\ \A i \in 1..Len(c) : c[i].type = t <=> (0 < i /\ i <= 0)
  BY <1>1
<1>3. Of(c, t) = <<>>
  BY <1>2, OfWindow
<1>4. Ids(c, t) = <<>>
  BY <1>3 DEF Ids
<1> QED BY <1>3, <1>4

\* The text of a content that begins with it.
LEMMA TextFirst ==
  ASSUME NEW c \in Seq(ContentBlock), NEW l \in 0..Len(c),
         \A i \in 1..l : c[i].type = "text",
         \A i \in (l + 1)..Len(c) : c[i].type # "text"
  PROVE  Of(c, "text") = <<>> <=> l = 0
<1>1. Len(c) \in Nat
  BY LenProperties
<1>2. ASSUME NEW i \in 1..Len(c) PROVE c[i].type = "text" <=> (0 < i /\ i <= l)
  <2>1. CASE i <= l
    BY <1>1, <2>1
  <2>2. CASE ~(i <= l)
    <3>1. i \in (l + 1)..Len(c)
      BY <1>1, <2>2
    <3> QED BY <2>2, <3>1
  <2> QED BY <2>1, <2>2
<1>3. 0 \in 0..Len(c) /\ l \in 0..Len(c)
  BY <1>1
<1>4. DOMAIN Of(c, "text") = 1..(l - 0) /\ (l = 0 => Of(c, "text") = <<>>)
  BY <1>2, <1>3, OfWindow
<1>5. ASSUME l # 0 PROVE DOMAIN Of(c, "text") # {}
  <2>1. 1 \in 1..(l - 0)
    BY <1>1, <1>5
  <2> QED BY <1>4, <2>1
<1>6. DOMAIN <<>> = {}
  OBVIOUS
<1> QED BY <1>4, <1>5, <1>6

\* What the loops find in the request.
LEMMA RequestContent ==
  ASSUME NEW c, c = <<TextBlock, TextBlock>>
  PROVE  c # <<>> /\ Of(c, "text") # <<>> /\ Ids(c, "tool_use") = <<>> /\ Ids(c, "tool_result") = <<>>
<1>1. c \in Seq(ContentBlock) /\ Len(c) = 2 /\ c[1] = TextBlock /\ c[2] = TextBlock
  <2>1. TextBlock \in ContentBlock
    BY BlocksTyped
  <2> QED BY <2>1
<1>2. \A i \in 1..Len(c) : c[i].type = "text"
  BY <1>1 DEF TextBlock
<1>3. Ids(c, "tool_use") = <<>> /\ Ids(c, "tool_result") = <<>>
  BY <1>1, <1>2, NoneOf
<1>4. Of(c, "text") # <<>>
  <2> DEFINE l == Len(c)
  <2>1. l \in 0..Len(c) /\ l # 0
    BY <1>1
  <2>2. (\A i \in 1..l : c[i].type = "text") /\ \A i \in (l + 1)..Len(c) : c[i].type # "text"
    BY <1>1, <1>2
  <2> QED BY <1>1, <2>1, <2>2, TextFirst
<1> QED BY <1>1, <1>3, <1>4

\* What the loops find in a turn of the assistant, with or without text.
LEMMA ReplyContent ==
  ASSUME NEW ids \in Seq(Id), ids # <<>>, NEW sp \in BOOLEAN, NEW c,
         c = (IF sp THEN <<TextBlock>> ELSE <<>>) \o [k \in DOMAIN ids |-> ToolUse(ids[k])]
  PROVE  /\ c # <<>>
         /\ (Of(c, "text") # <<>>) <=> sp
         /\ Ids(c, "tool_use") = ids
         /\ Ids(c, "tool_result") = <<>>
<1> DEFINE n == Len(ids)
           k == IF sp THEN 1 ELSE 0
           p == IF sp THEN <<TextBlock>> ELSE <<>>
           u == [i \in DOMAIN ids |-> ToolUse(ids[i])]
<1>1. /\ n \in Nat /\ n >= 1 /\ DOMAIN ids = 1..n /\ \A i \in 1..n : ids[i] \in Id
      /\ ids = [i \in 1..n |-> ids[i]]
  <2>1. n \in Nat /\ n >= 1 /\ DOMAIN ids = 1..n
    BY LenProperties, EmptySeq
  <2>2. \A i \in 1..n : ids[i] \in Id
    BY ElementOfSeq
  <2> QED BY <2>1, <2>2
<1> HIDE DEF n
<1>2. /\ p \in Seq(ContentBlock) /\ Len(p) = k /\ k \in 0..1
      /\ \A i \in 1..k : p[i] = TextBlock
  <2>1. TextBlock \in ContentBlock
    BY BlocksTyped
  <2> QED BY <2>1
<1>3. /\ u \in Seq(ContentBlock) /\ Len(u) = n
      /\ \A i \in 1..n : u[i] = ToolUse(ids[i])
  <2>1. u = [i \in 1..n |-> ToolUse(ids[i])]
    BY <1>1
  <2>2. \A i \in 1..n : ToolUse(ids[i]) \in ContentBlock
    BY <1>1, BlocksTyped
  <2> HIDE DEF u
  <2> QED BY ONLY <1>1, <2>1, <2>2
<1> HIDE DEF p, u
<1>4. c = p \o u
  BY DEF p, u
<1>5. c \in Seq(ContentBlock) /\ Len(c) = k + n
  <2>1. p \in Seq(ContentBlock) /\ u \in Seq(ContentBlock)
    BY <1>2, <1>3
  <2>2. p \o u \in Seq(ContentBlock) /\ Len(p \o u) = Len(p) + Len(u)
    BY ONLY <2>1, ConcatProperties
  <2> QED BY <1>2, <1>3, <1>4, <2>2
<1>6. \A i \in 1..k : c[i].type = "text"
  BY <1>2, <1>3, <1>4, ConcatProperties DEF TextBlock
<1>7. \A i \in 1..n : c[i + k] = ToolUse(ids[i])
  <2> SUFFICES ASSUME NEW i \in 1..n PROVE c[i + k] = ToolUse(ids[i])
    OBVIOUS
  <2>1. i + k \in 1..(k + n) /\ ~(i + k <= k) /\ (i + k) - k = i
    BY <1>1, <1>2
  <2>2. c[i + k] = u[i]
    BY <1>2, <1>3, <1>4, <2>1, ConcatProperties
  <2> QED BY <1>3, <2>2
<1>8. \A i \in (k + 1)..Len(c) : c[i].type = "tool_use"
  <2> SUFFICES ASSUME NEW i \in (k + 1)..Len(c) PROVE c[i].type = "tool_use"
    OBVIOUS
  <2>1. i - k \in 1..n /\ (i - k) + k = i
    BY <1>1, <1>2, <1>5
  <2> QED BY <1>7, <2>1 DEF ToolUse
<1>9. \A i \in 1..Len(c) : i \in 1..k \/ i \in (k + 1)..Len(c)
  BY <1>1, <1>2, <1>5
<1> HIDE DEF k
<1>10. Ids(c, "tool_result") = <<>>
  <2>1. \A i \in 1..Len(c) : c[i].type # "tool_result"
    BY <1>6, <1>8, <1>9
  <2> QED BY <1>5, <2>1, NoneOf
<1>11. Ids(c, "tool_use") = ids
  <2>1. k \in 0..Len(c) /\ Len(c) \in k..Len(c) /\ Len(c) - k = n
    BY <1>1, <1>2, <1>5
  <2>2. ASSUME NEW i \in 1..Len(c) PROVE c[i].type = "tool_use" <=> (k < i /\ i <= Len(c))
    <3>1. CASE i \in 1..k
      <4>1. k \in Int /\ ~(k < i)
        BY <1>2, <2>1, <3>1
      <4>2. c[i].type # "tool_use"
        BY <1>6, <3>1
      <4> QED BY <4>1, <4>2
    <3>2. CASE i \in (k + 1)..Len(c)
      <4>1. k \in Int /\ k < i /\ i <= Len(c)
        BY <1>2, <2>1, <3>2
      <4>2. c[i].type = "tool_use"
        BY <1>8, <3>2
      <4> QED BY <4>1, <4>2
    <3> QED BY <1>9, <3>1, <3>2
  <2>3. Len(ids) = Len(c) - k /\ \A i \in 1..Len(ids) : c[i + k].id = ids[i]
    BY <1>1, <1>7, <2>1 DEF ToolUse, n
  <2> QED BY <1>5, <2>1, <2>2, <2>3, IdsWindow
<1>12. (Of(c, "text") # <<>>) <=> sp
  <2>1. k \in 0..Len(c)
    BY <1>1, <1>2, <1>5
  <2>2. \A i \in (k + 1)..Len(c) : c[i].type # "text"
    BY <1>8
  <2>3. Of(c, "text") = <<>> <=> k = 0
    BY <1>5, <1>6, <2>1, <2>2, TextFirst
  <2>4. (k = 0) <=> ~sp
    BY DEF k
  <2> QED BY <2>3, <2>4
<1>13. c # <<>>
  <2>1. Len(c) # 0
    BY <1>1, <1>2, <1>5
  <2> QED BY <2>1
<1> QED BY <1>10, <1>11, <1>12, <1>13

\* What the loops find in the results of a turn.
LEMMA ResultsContent ==
  ASSUME NEW ids \in Seq(Id), ids # <<>>, NEW c, c = [k \in DOMAIN ids |-> ToolResult(ids[k])]
  PROVE  /\ c # <<>> /\ Of(c, "text") = <<>>
         /\ Ids(c, "tool_use") = <<>>
         /\ Ids(c, "tool_result") = ids
<1> DEFINE n == Len(ids)
<1>1. /\ n \in Nat /\ n >= 1 /\ DOMAIN ids = 1..n /\ \A i \in 1..n : ids[i] \in Id
      /\ ids = [i \in 1..n |-> ids[i]]
  <2>1. n \in Nat /\ n >= 1 /\ DOMAIN ids = 1..n
    BY LenProperties, EmptySeq
  <2>2. \A i \in 1..n : ids[i] \in Id
    BY ElementOfSeq
  <2> QED BY <2>1, <2>2
<1> HIDE DEF n
<1>2. /\ c \in Seq(ContentBlock) /\ Len(c) = n
      /\ \A i \in 1..n : c[i] = ToolResult(ids[i])
  <2>1. c = [i \in 1..n |-> ToolResult(ids[i])]
    BY <1>1
  <2>2. \A i \in 1..n : ToolResult(ids[i]) \in ContentBlock
    BY <1>1, BlocksTyped
  <2> QED BY ONLY <1>1, <2>1, <2>2
<1>3. \A i \in 1..Len(c) : c[i].type = "tool_result"
  BY <1>2 DEF ToolResult
<1>4. Of(c, "text") = <<>> /\ Ids(c, "tool_use") = <<>>
  <2>1. \A i \in 1..Len(c) : c[i].type # "text" /\ c[i].type # "tool_use"
    BY <1>3
  <2> QED BY <1>2, <2>1, NoneOf
<1>5. Ids(c, "tool_result") = ids
  <2>1. 0 \in 0..Len(c) /\ Len(c) \in 0..Len(c)
    BY <1>1, <1>2
  <2>2. \A i \in 1..Len(c) : c[i].type = "tool_result" <=> 0 < i /\ i <= Len(c)
    BY <1>1, <1>2, <1>3
  <2>3. Len(ids) = Len(c) - 0 /\ \A i \in 1..Len(ids) : c[i + 0].id = ids[i]
    BY <1>1, <1>2 DEF ToolResult, n
  <2> QED BY <1>2, <2>1, <2>2, <2>3, IdsWindow
<1>6. c # <<>>
  BY <1>1, <1>2
<1> QED BY <1>4, <1>5, <1>6

\* A recovered call keeps its number within its turn.
LEMMA CallIdType ==
  ASSUME NEW b \in Block, NEW unnamed
  PROVE  CallId(b, unnamed) \in Id /\ CallId(b, unnamed)[2] = b[2]
<1>1. PICK x \in Nat, y \in Nat : b = <<x, y>>
  BY DEF Block
<1>2. -1 \in Int /\ x \in Int /\ y \in Int
  BY <1>1
<1> QED BY <1>1, <1>2 DEF CallId, Id

\* Whatever ids recovered calls get, those of a turn differ.
LEMMA CallIdsDiffer ==
  ASSUME NEW s \in Seq(Block), \A k \in 1..Len(s) : s[k][2] = k, NEW unnamed,
         NEW ids, ids = [k \in DOMAIN s |-> CallId(s[k], unnamed)]
  PROVE  ids \in Seq(Id) /\ Len(ids) = Len(s) /\ IsInjective(ids)
<1>1. Len(s) \in Nat /\ DOMAIN s = 1..Len(s) /\ \A k \in 1..Len(s) : s[k] \in Block
  BY LenProperties, ElementOfSeq
<1>2. \A k \in 1..Len(s) : CallId(s[k], unnamed) \in Id /\ CallId(s[k], unnamed)[2] = k
  BY <1>1, CallIdType
<1>3. ids = [k \in 1..Len(s) |-> CallId(s[k], unnamed)]
  BY <1>1
<1>4. ids \in Seq(Id) /\ Len(ids) = Len(s)
  BY ONLY <1>1, <1>2, <1>3
<1>5. DOMAIN ids = 1..Len(s) /\ \A k \in 1..Len(s) : ids[k][2] = k
  BY <1>2, <1>3
<1>6. ASSUME NEW a \in DOMAIN ids, NEW b \in DOMAIN ids, ids[a] = ids[b] PROVE a = b
  <2>1. ids[a][2] = a /\ ids[b][2] = b
    BY <1>5
  <2> QED BY <1>6, <2>1
<1> QED BY <1>4, <1>6 DEF IsInjective

\* A round, as it is told: a turn, and the result of each of its calls.
RoundTold(told, n, ids) ==
  /\ ids \in Seq(Id) /\ ids # <<>> /\ IsInjective(ids)
  /\ told[2 * n].role = "assistant"
  /\ told[2 * n].content # <<>>
  /\ Ids(told[2 * n].content, "tool_use") = ids
  /\ Ids(told[2 * n].content, "tool_result") = <<>>
  /\ told[2 * n + 1].role = "user"
  /\ told[2 * n + 1].content # <<>>
  /\ Of(told[2 * n + 1].content, "text") = <<>>
  /\ Ids(told[2 * n + 1].content, "tool_use") = <<>>
  /\ Ids(told[2 * n + 1].content, "tool_result") = ids

\* The request, as it is told.
RequestTold(told) ==
  /\ told[1].role = "user"
  /\ told[1].content # <<>>
  /\ Of(told[1].content, "text") # <<>>
  /\ Ids(told[1].content, "tool_use") = <<>>
  /\ Ids(told[1].content, "tool_result") = <<>>

\* Every conversation of the loop is a request and rounds.
LEMMA ConversationIsTold ==
  ASSUME OrchestratorInv, Numbered, pc = "llm", NEW spoken, NEW unnamed,
         NEW told, told = LlmMessages(spoken, unnamed)
  PROVE  /\ DOMAIN told = 1..(2 * iter + 1)
         /\ RequestTold(told)
         /\ \A n \in 1..iter : \E ids : RoundTold(told, n, ids)
<1> DEFINE Calls(m) == [k \in DOMAIN messages[m].ids |-> CallId(messages[m].ids[k], unnamed)]
<1>1. /\ messages \in Seq(Message) /\ iter \in Nat /\ Len(messages) = 2 * iter + 1
      /\ DOMAIN messages = 1..(2 * iter + 1)
  <2>1. messages \in Seq(Message) /\ iter \in Nat /\ Len(messages) = 2 * iter + 1
    BY DEF OrchestratorInv, OrchestratorTypeOK, Conversation, Message
  <2> QED BY <2>1, LenProperties
<1>2. DOMAIN told = 1..(2 * iter + 1)
  BY <1>1 DEF LlmMessages
<1>3. ASSUME NEW m \in 1..(2 * iter + 1)
      PROVE  /\ told[m].role = messages[m].role
             /\ messages[m].role = "assistant" =>
                  told[m].content = (IF m \in spoken THEN <<TextBlock>> ELSE <<>>)
                                      \o [k \in DOMAIN Calls(m) |-> ToolUse(Calls(m)[k])]
             /\ messages[m].role # "assistant" /\ m = 1 => told[m].content = <<TextBlock, TextBlock>>
             /\ messages[m].role # "assistant" /\ m # 1 =>
                  told[m].content = [k \in DOMAIN Calls(m) |-> ToolResult(Calls(m)[k])]
  BY <1>1 DEF LlmMessages
<1>4. /\ \A m \in 1..(2 * iter + 1) : messages[m].role = IF m % 2 = 1 THEN "user" ELSE "assistant"
      /\ \A n \in 1..iter : /\ messages[2 * n].ids # <<>>
                            /\ messages[2 * n + 1].ids = messages[2 * n].ids
  BY <1>1 DEF OrchestratorInv, Conversation
<1>5. RequestTold(told)
  <2>1. 1 \in 1..(2 * iter + 1) /\ messages[1].role = "user"
    BY <1>1, <1>4
  <2>2. told[1].role = "user" /\ told[1].content = <<TextBlock, TextBlock>>
    BY <1>3, <2>1
  <2> QED BY <2>2, RequestContent DEF RequestTold
<1>6. ASSUME NEW n \in 1..iter PROVE \E ids : RoundTold(told, n, ids)
  <2> DEFINE t == 2 * n  r == 2 * n + 1  ids == Calls(t)
  <2>1. /\ t \in 1..(2 * iter + 1) /\ r \in 1..(2 * iter + 1) /\ r # 1
        /\ t % 2 = 0 /\ r % 2 = 1
    BY <1>1
  <2>2. /\ messages[t].role = "assistant" /\ messages[r].role = "user"
        /\ messages[t].ids # <<>> /\ messages[r].ids = messages[t].ids
    BY <1>4, <2>1
  <2>3. messages[t].ids \in Seq(Block) /\ \A k \in 1..Len(messages[t].ids) : messages[t].ids[k][2] = k
    <3>1. messages[t] \in Message
      BY <1>1, <2>1, ElementOfSeq
    <3> QED BY <1>1, <2>1, <2>2, <3>1 DEF Message, Numbered
  <2>4. Calls(r) = ids
    BY <2>2
  <2>5. ids \in Seq(Id) /\ IsInjective(ids) /\ ids # <<>>
    <3>1. ids \in Seq(Id) /\ Len(ids) = Len(messages[t].ids) /\ IsInjective(ids)
      BY <2>3, CallIdsDiffer
    <3>2. Len(messages[t].ids) # 0
      BY <2>2, <2>3, EmptySeq
    <3> HIDE DEF ids
    <3>3. ids # <<>>
      BY <3>1, <3>2, EmptySeq
    <3> QED BY <3>1, <3>3
  <2>6. /\ told[t].role = "assistant" /\ told[r].role = "user"
        /\ told[t].content = (IF t \in spoken THEN <<TextBlock>> ELSE <<>>)
                               \o [k \in DOMAIN ids |-> ToolUse(ids[k])]
        /\ told[r].content = [k \in DOMAIN ids |-> ToolResult(ids[k])]
    BY <1>3, <2>1, <2>2, <2>4
  <2> HIDE DEF ids
  <2>7. /\ told[t].content # <<>>
        /\ Ids(told[t].content, "tool_use") = ids
        /\ Ids(told[t].content, "tool_result") = <<>>
    <3>1. PICK sp \in BOOLEAN : sp <=> t \in spoken
      OBVIOUS
    <3>2. told[t].content = (IF sp THEN <<TextBlock>> ELSE <<>>)
                               \o [k \in DOMAIN ids |-> ToolUse(ids[k])]
      BY <2>6, <3>1
    <3> QED BY <2>5, <3>2, ReplyContent
  <2>8. /\ told[r].content # <<>>
        /\ Of(told[r].content, "text") = <<>>
        /\ Ids(told[r].content, "tool_use") = <<>>
        /\ Ids(told[r].content, "tool_result") = ids
    BY <2>5, <2>6, ResultsContent
  <2> QED BY <2>5, <2>6, <2>7, <2>8 DEF RoundTold
<1> QED BY <1>2, <1>5, <1>6

-----------------------------------------------------------------------------
(* The forms the clients give it.                                          *)

\* The places of a conversation: the request, and two messages for each round.
LEMMA Places ==
  ASSUME NEW i \in Nat, NEW m \in 1..(2 * i + 1)
  PROVE  m = 1 \/ \E n \in 1..i : m = 2 * n \/ m = 2 * n + 1
<1>1. CASE m % 2 = 0
  <2>1. m \div 2 \in 1..i /\ m = 2 * (m \div 2)
    BY <1>1
  <2> QED BY <2>1
<1>2. CASE m % 2 # 0
  <2>1. m \div 2 \in 0..i /\ m = 2 * (m \div 2) + 1
    BY <1>2
  <2> QED BY <2>1
<1> QED BY <1>1, <1>2

\* The conversation is one the Anthropic API accepts, message by message.
LEMMA AnthropicIsServed ==
  ASSUME NEW i \in Nat, NEW told, DOMAIN told = 1..(2 * i + 1), RequestTold(told),
         \A n \in 1..i : \E ids : RoundTold(told, n, ids)
  PROVE  AnthropicAccepts(AnthropicMessages(told))
<1> DEFINE sent == AnthropicMessages(told)
           size == 2 * i + 1
<1>1. sent = [m \in 1..size |-> [role |-> told[m].role, content |-> told[m].content]]
  BY DEF AnthropicMessages
<1>2. /\ size \in Nat /\ size \in 1..size /\ DOMAIN sent = 1..size /\ Len(sent) = size
      /\ \A m \in 1..size : sent[m].role = told[m].role /\ sent[m].content = told[m].content
  <2>1. size \in Nat /\ size \in 1..size
    OBVIOUS
  <2>2. DOMAIN sent = 1..size
    BY <1>1
  <2>3. Len(sent) = size
    <3> HIDE DEF size, sent
    <3> QED BY <1>1, <2>1
  <2>4. ASSUME NEW m \in 1..size
        PROVE  sent[m].role = told[m].role /\ sent[m].content = told[m].content
    <3>1. sent[m] = [role |-> told[m].role, content |-> told[m].content]
      BY <1>1
    <3> QED BY <3>1
  <2> QED BY <2>1, <2>2, <2>3, <2>4
<1> HIDE DEF sent, size
<1>3. ASSUME NEW m \in 1..size, m % 2 = 1 PROVE Ids(told[m].content, "tool_use") = <<>>
  <2>1. CASE m = 1
    BY <2>1 DEF RequestTold
  <2>2. CASE m # 1
    <3>1. PICK n \in 1..i : m = 2 * n \/ m = 2 * n + 1
      BY <2>2, Places DEF size
    <3>2. m = 2 * n + 1
      BY <1>3, <3>1
    <3> QED BY <3>2 DEF RoundTold
  <2> QED BY <2>1, <2>2
<1>4. ASSUME NEW m \in 1..size
      PROVE  /\ told[m].role = IF m % 2 = 1 THEN "user" ELSE "assistant"
             /\ told[m].content # <<>>
             /\ IsInjective(Ids(told[m].content, "tool_use"))
  <2>1. IsInjective(<<>>)
    BY DEF IsInjective
  <2>2. CASE m = 1
    BY <2>1, <2>2 DEF RequestTold
  <2>3. ASSUME NEW n \in 1..i, m = 2 * n
        PROVE  /\ told[m].role = IF m % 2 = 1 THEN "user" ELSE "assistant"
               /\ told[m].content # <<>>
               /\ IsInjective(Ids(told[m].content, "tool_use"))
    <3>1. m % 2 = 0
      BY <2>3
    <3> QED BY <2>3, <3>1 DEF RoundTold
  <2>4. ASSUME NEW n \in 1..i, m = 2 * n + 1
        PROVE  /\ told[m].role = IF m % 2 = 1 THEN "user" ELSE "assistant"
               /\ told[m].content # <<>>
               /\ IsInjective(Ids(told[m].content, "tool_use"))
    <3>1. m % 2 = 1
      BY <2>4
    <3> QED BY <2>1, <2>4, <3>1 DEF RoundTold
  <2> QED BY <2>2, <2>3, <2>4, Places DEF size
<1>5. ASSUME NEW m \in 1..size, m # 1
      PROVE  Ids(told[m].content, "tool_result") = Ids(told[m - 1].content, "tool_use")
  <2>1. PICK n \in 1..i : m = 2 * n \/ m = 2 * n + 1
    BY <1>5, Places DEF size
  <2>2. PICK ids : RoundTold(told, n, ids)
    OBVIOUS
  <2>3. CASE m = 2 * n
    <3>1. m - 1 \in 1..size /\ (m - 1) % 2 = 1
      BY <2>3 DEF size
    <3> QED BY <1>3, <2>2, <2>3, <3>1 DEF RoundTold
  <2>4. CASE m = 2 * n + 1
    <3>1. m - 1 = 2 * n
      BY <2>4
    <3> QED BY <2>2, <2>4, <3>1 DEF RoundTold
  <2> QED BY <2>1, <2>3, <2>4
<1>6. Ids(told[size].content, "tool_use") = <<>>
  <2>1. size % 2 = 1
    BY DEF size
  <2> QED BY <1>2, <1>3, <2>1
<1>7. \A m \in DOMAIN sent :
        /\ sent[m].role = IF m % 2 = 1 THEN "user" ELSE "assistant"
        /\ sent[m].content # <<>>
        /\ IsInjective(Ids(sent[m].content, "tool_use"))
  BY <1>2, <1>4
<1>8. \A m \in DOMAIN sent \ {1} :
        ToSet(Ids(sent[m].content, "tool_result")) = ToSet(Ids(sent[m - 1].content, "tool_use"))
  <2> SUFFICES ASSUME NEW m \in DOMAIN sent \ {1}
               PROVE  ToSet(Ids(sent[m].content, "tool_result"))
                        = ToSet(Ids(sent[m - 1].content, "tool_use"))
    OBVIOUS
  <2>1. m \in 1..size /\ m # 1 /\ m - 1 \in 1..size
    BY <1>2
  <2>2. Ids(told[m].content, "tool_result") = Ids(told[m - 1].content, "tool_use")
    BY <1>5, <2>1
  <2>3. sent[m].content = told[m].content /\ sent[m - 1].content = told[m - 1].content
    BY <1>2, <2>1
  <2> QED BY <2>2, <2>3
<1>9. Ids(sent[Len(sent)].content, "tool_use") = <<>>
  BY <1>2, <1>6
<1>10. AnthropicAccepts(sent)
  BY <1>7, <1>8, <1>9 DEF AnthropicAccepts
<1> QED BY <1>10 DEF sent

\* A function on 1..n is a sequence.
LEMMA CountedIsSeq ==
  ASSUME NEW D, NEW n \in Nat, NEW f, f = [k \in 1..n |-> f[k]], \A k \in 1..n : f[k] \in D
  PROVE  f \in Seq(D) /\ Len(f) = n
<1>1. [k \in 1..n |-> f[k]] \in Seq(D) /\ Len([k \in 1..n |-> f[k]]) = n
  OBVIOUS
<1> QED BY <1>1

\* The messages of the OpenAI client.
LEMMA ApiMessageType ==
  ASSUME NEW role \in {"system", "user", "assistant", "tool"}, NEW text \in BOOLEAN,
         NEW uses \in Seq(Id), NEW id \in Id \union {<<>>}
  PROVE  ApiMessage(role, text, uses, id) \in ApiMsg
BY DEF ApiMsg

\* The calls of a message.
LEMMA ApiCallsType == ASSUME NEW m \in ApiMsg PROVE m.calls \in Seq(Id)
<1>1. PICK role \in {"system", "user", "assistant", "tool"}, text \in BOOLEAN, uses \in Seq(Id),
           id \in Id \union {<<>>} : m = ApiMessage(role, text, uses, id)
  BY DEF ApiMsg
<1> QED BY <1>1 DEF ApiMessage

\* What the request becomes, and what the client puts before it.
User   == ApiMessage("user", TRUE, <<>>, <<>>)
System == ApiMessage("system", TRUE, <<>>, <<>>)

\* The request becomes one message.
LEMMA RequestFlattened ==
  ASSUME NEW told, RequestTold(told) PROVE Flattened(told[1]) = <<User>> /\ User \in ApiMsg
<1> DEFINE answers == Ids(told[1].content, "tool_result")
<1>1. User \in ApiMsg
  <2>1. <<>> \in Seq(Id) /\ <<>> \in Id \union {<<>>} /\ TRUE \in BOOLEAN
    OBVIOUS
  <2> QED BY <2>1, ApiMessageType DEF User
<1>2. /\ told[1].role # "assistant" /\ answers = <<>> /\ Of(told[1].content, "text") # <<>>
  BY DEF RequestTold
<1>3. Flattened(told[1])
        = [k \in DOMAIN answers |-> ApiMessage("tool", TRUE, <<>>, answers[k])] \o <<User>>
  BY <1>2 DEF Flattened, User
<1>4. [k \in DOMAIN answers |-> ApiMessage("tool", TRUE, <<>>, answers[k])] = <<>>
  <2>1. DOMAIN answers = {}
    BY <1>2
  <2> HIDE DEF answers
  <2> QED BY <2>1
<1>5. <<User>> \in Seq(ApiMsg)
  BY <1>1
<1>6. <<>> \o <<User>> = <<User>>
  BY <1>5, ConcatEmptySeq
<1> QED BY <1>1, <1>3, <1>4, <1>6

\* A round becomes an assistant message and a tool message for each of its calls.
LEMMA RoundFlattened ==
  ASSUME NEW told, NEW n, NEW ids, RoundTold(told, n, ids)
  PROVE  /\ \E said \in ApiMsg : /\ Flattened(told[2 * n]) = <<said>>
                                  /\ said.role = "assistant" /\ said.calls = ids /\ said.id = <<>>
         /\ Flattened(told[2 * n + 1]) \in Seq(ApiMsg)
         /\ Len(Flattened(told[2 * n + 1])) = Len(ids)
         /\ \A k \in 1..Len(ids) : /\ Flattened(told[2 * n + 1])[k].role = "tool"
                                   /\ Flattened(told[2 * n + 1])[k].calls = <<>>
                                   /\ Flattened(told[2 * n + 1])[k].id = ids[k]
<1>1. /\ ids \in Seq(Id) /\ ids # <<>> /\ told[2 * n].role = "assistant"
      /\ Ids(told[2 * n].content, "tool_use") = ids
      /\ told[2 * n + 1].role # "assistant"
      /\ Of(told[2 * n + 1].content, "text") = <<>>
      /\ Ids(told[2 * n + 1].content, "tool_result") = ids
  BY DEF RoundTold
<1>2. /\ Len(ids) \in Nat /\ DOMAIN ids = 1..Len(ids) /\ \A k \in 1..Len(ids) : ids[k] \in Id
      /\ <<>> \in Seq(Id) /\ <<>> \in Id \union {<<>>}
  BY <1>1, LenProperties, ElementOfSeq
<1>3. \E said \in ApiMsg : /\ Flattened(told[2 * n]) = <<said>>
                           /\ said.role = "assistant" /\ said.calls = ids /\ said.id = <<>>
  <2> DEFINE text == Of(told[2 * n].content, "text") # <<>>
  <2>1. Flattened(told[2 * n]) = <<ApiMessage("assistant", text, ids, <<>>)>>
    BY <1>1 DEF Flattened
  <2>2. text \in BOOLEAN
    OBVIOUS
  <2> HIDE DEF text
  <2>3. ApiMessage("assistant", text, ids, <<>>) \in ApiMsg
    BY <1>1, <1>2, <2>2, ApiMessageType
  <2> DEFINE said == ApiMessage("assistant", text, ids, <<>>)
  <2>4. said.role = "assistant" /\ said.calls = ids /\ said.id = <<>>
    BY DEF ApiMessage
  <2>5. said \in ApiMsg /\ Flattened(told[2 * n]) = <<said>>
    BY <2>1, <2>3
  <2> HIDE DEF said
  <2> QED BY <2>4, <2>5
<1> DEFINE answer(id) == ApiMessage("tool", TRUE, <<>>, id)
           tools == [k \in 1..Len(ids) |-> answer(ids[k])]
<1>4. Flattened(told[2 * n + 1]) = tools \o <<>>
  BY <1>1, <1>2 DEF Flattened
<1>5. \A id \in Id : /\ answer(id) \in ApiMsg
                     /\ answer(id).role = "tool" /\ answer(id).calls = <<>> /\ answer(id).id = id
  <2> SUFFICES ASSUME NEW id \in Id
               PROVE  /\ answer(id) \in ApiMsg
                      /\ answer(id).role = "tool" /\ answer(id).calls = <<>> /\ answer(id).id = id
    OBVIOUS
  <2>1. id \in Id \union {<<>>} /\ TRUE \in BOOLEAN
    OBVIOUS
  <2>2. answer(id) \in ApiMsg
    BY <1>2, <2>1, ApiMessageType
  <2>3. answer(id).role = "tool" /\ answer(id).calls = <<>> /\ answer(id).id = id
    BY DEF ApiMessage
  <2> QED BY <2>2, <2>3
<1> HIDE DEF answer
<1>6. /\ tools \in Seq(ApiMsg) /\ Len(tools) = Len(ids)
      /\ \A k \in 1..Len(ids) : /\ tools[k].role = "tool" /\ tools[k].calls = <<>>
                                /\ tools[k].id = ids[k]
  <2>1. \A k \in 1..Len(ids) : tools[k] = answer(ids[k])
    OBVIOUS
  <2>2. tools = [k \in 1..Len(ids) |-> tools[k]]
    OBVIOUS
  <2> HIDE DEF tools
  <2>3. \A k \in 1..Len(ids) : tools[k] \in ApiMsg
    BY <1>2, <1>5, <2>1
  <2>4. tools \in Seq(ApiMsg) /\ Len(tools) = Len(ids)
    BY <1>2, <2>2, <2>3, CountedIsSeq
  <2> QED BY <1>2, <1>5, <2>1, <2>4
<1> HIDE DEF tools
<1>7. tools \o <<>> = tools
  BY <1>6, ConcatEmptySeq
<1> QED BY <1>3, <1>4, <1>6, <1>7

\* The calls of a round join those of the rounds before.
LEMMA CallsJoin ==
  ASSUME NEW sent \in Seq(ApiMsg), NEW ids \in Seq(Id), NEW new, RoundAdded(sent, ids, new)
  PROVE  OpenAICalls(sent) \in Seq(Id) /\ OpenAICalls(new) = OpenAICalls(sent) \o ids
<1> DEFINE l == Len(sent)
           b == [m \in DOMAIN new |-> new[m].calls]
           a == [m \in DOMAIN sent |-> sent[m].calls]
<1>1. /\ l \in Nat /\ Len(ids) \in Nat /\ Len(new) = l + 1 + Len(ids)
      /\ DOMAIN sent = 1..l /\ DOMAIN new = 1..(l + 1 + Len(ids))
      /\ \A m \in 1..l : sent[m].calls \in Seq(Id)
      /\ \A m \in DOMAIN new : new[m].calls \in Seq(Id)
  <2>1. /\ l \in Nat /\ Len(ids) \in Nat /\ Len(new) = l + 1 + Len(ids)
        /\ DOMAIN sent = 1..l /\ DOMAIN new = 1..(l + 1 + Len(ids))
    BY LenProperties DEF RoundAdded
  <2>2. (\A m \in 1..l : sent[m] \in ApiMsg) /\ \A m \in DOMAIN new : new[m] \in ApiMsg
    BY <2>1, ElementOfSeq DEF RoundAdded
  <2> QED BY <2>1, <2>2, ApiCallsType
<1>2. /\ b \in Seq(Seq(Id)) /\ Len(b) = l + 1 + Len(ids)
      /\ \A m \in 1..(l + 1 + Len(ids)) : b[m] = new[m].calls
  <2> DEFINE n == l + 1 + Len(ids)
  <2>1. n \in Nat /\ DOMAIN new = 1..n
    BY <1>1
  <2> HIDE DEF n
  <2>2. b = [m \in 1..n |-> b[m]] /\ \A m \in 1..n : b[m] = new[m].calls
    BY <2>1
  <2> HIDE DEF b
  <2>3. \A m \in 1..n : b[m] \in Seq(Id)
    BY <1>1, <2>1, <2>2
  <2>4. b \in Seq(Seq(Id)) /\ Len(b) = n
    BY ONLY <2>1, <2>2, <2>3, CountedIsSeq
  <2> QED BY <2>2, <2>4 DEF n
<1>3. a \in Seq(Seq(Id)) /\ Len(a) = l /\ \A m \in 1..l : a[m] = sent[m].calls
  <2>1. a = [m \in 1..l |-> sent[m].calls]
    BY <1>1
  <2> HIDE DEF a
  <2> QED BY ONLY <1>1, <2>1
<1>4. OpenAICalls(new) = FlattenSeq(b) /\ OpenAICalls(sent) = FlattenSeq(a)
  BY DEF OpenAICalls
<1>5. /\ \A j \in 1..l : new[j] = sent[j]
      /\ new[l + 1].calls = ids
      /\ \A k \in 1..Len(ids) : new[l + 1 + k].calls = <<>>
  BY DEF RoundAdded
<1> HIDE DEF a, b, l
<1>6. FlattenSeq(b) = FlattenSeq(SubSeq(b, 1, l + 1))
  <2>1. l + 1 \in 0..Len(b)
    BY <1>1, <1>2
  <2>2. ASSUME NEW m \in ((l + 1) + 1)..Len(b) PROVE b[m] = <<>>
    <3>1. m - (l + 1) \in 1..Len(ids) /\ m = l + 1 + (m - (l + 1)) /\ m \in 1..(l + 1 + Len(ids))
      BY <1>1, <1>2
    <3>2. new[m].calls = <<>>
      BY <1>5, <3>1
    <3> QED BY <1>2, <3>1, <3>2
  <2> QED BY <1>2, <2>1, <2>2, FlattenBlanks
<1>7. /\ FlattenSeq(SubSeq(b, 1, l)) \in Seq(Id)
      /\ FlattenSeq(SubSeq(b, 1, l + 1)) = FlattenSeq(SubSeq(b, 1, l)) \o b[l + 1]
  <2>1. l \in 0..(Len(b) - 1)
    BY <1>1, <1>2
  <2> QED BY <1>2, <2>1, FlattenNext
<1>8. b[l + 1] = ids
  <2>1. l + 1 \in 1..(l + 1 + Len(ids))
    BY <1>1
  <2> QED BY <1>2, <1>5, <2>1
<1>9. SubSeq(b, 1, l) = a
  <2>1. /\ SubSeq(b, 1, l) \in Seq(Seq(Id)) /\ Len(SubSeq(b, 1, l)) = l
        /\ \A m \in 1..l : SubSeq(b, 1, l)[m] = b[m]
    BY <1>1, <1>2
  <2>2. \A m \in 1..l : b[m] = a[m]
    <3>1. \A m \in 1..l : m \in 1..(l + 1 + Len(ids))
      BY <1>1
    <3> QED BY <1>2, <1>3, <1>5, <3>1
  <2> DEFINE c == SubSeq(b, 1, l)
  <2> HIDE DEF c
  <2>3. c \in Seq(Seq(Id)) /\ Len(c) = Len(a) /\ \A m \in 1..Len(c) : c[m] = a[m]
    BY <1>3, <2>1, <2>2 DEF c
  <2>4. c = a
    BY <1>3, <2>3, SeqEqual
  <2> QED BY <2>4 DEF c
<1> QED BY <1>4, <1>6, <1>7, <1>8, <1>9

\* The request alone.
LEMMA RequestIsAccepted ==
  ASSUME NEW sent, sent = <<System, User>>
  PROVE  OpenAIAccepts(sent) /\ OpenAICalls(sent) = <<>>
<1>1. /\ DOMAIN sent = 1..2 /\ sent[1] = System /\ sent[2] = User
  OBVIOUS
<1>2. \A j \in DOMAIN sent : sent[j].calls = <<>> /\ sent[j].role # "assistant" /\ sent[j].role # "tool"
  BY <1>1 DEF System, User, ApiMessage
<1>3. OpenAIAccepts(sent)
  <2>1. \A i \in DOMAIN sent : IsInjective(sent[i].calls) /\ DOMAIN sent[i].calls = {}
    BY <1>2 DEF IsInjective
  <2> QED BY <1>2, <2>1 DEF OpenAIAccepts
<1>4. OpenAICalls(sent) = <<>>
  <2> DEFINE b == [m \in DOMAIN sent |-> sent[m].calls]
  <2>1. b = [k \in 1..2 |-> b[k]] /\ \A k \in 1..2 : b[k] = <<>>
    BY <1>1, <1>2
  <2> HIDE DEF b
  <2>2. \A k \in 1..2 : b[k] \in Seq(Id)
    <3>1. <<>> \in Seq(Id)
      OBVIOUS
    <3> QED BY <2>1, <3>1
  <2>3. 2 \in Nat
    OBVIOUS
  <2>4. b \in Seq(Seq(Id)) /\ Len(b) = 2
    BY ONLY <2>1, <2>2, <2>3, CountedIsSeq
  <2>5. FlattenSeq(b) = FlattenSeq(SubSeq(b, 1, 0))
    <3>1. 0 \in 0..Len(b) /\ \A i \in (0 + 1)..Len(b) : b[i] = <<>>
      BY <2>1, <2>4
    <3> QED BY <2>4, <3>1, FlattenBlanks
  <2>6. SubSeq(b, 1, 0) = <<>>
    BY <2>4, SubSeqEmpty
  <2>7. FlattenSeq(<<>>) = <<>>
    BY DEF FlattenSeq
  <2>8. OpenAICalls(sent) = FlattenSeq(b)
    BY DEF OpenAICalls, b
  <2> QED BY <2>5, <2>6, <2>7, <2>8
<1> QED BY <1>3, <1>4

\* Two sequences of one element.
LEMMA ConcatPair == ASSUME NEW x, NEW y PROVE <<x>> \o <<y>> = <<x, y>>
<1> DEFINE D == {x, y}
<1>1. <<x>> \in Seq(D) /\ <<y>> \in Seq(D) /\ <<x, y>> \in Seq(D)
  OBVIOUS
<1>2. /\ Len(<<x>>) = 1 /\ Len(<<y>>) = 1 /\ Len(<<x, y>>) = 2
      /\ <<x>>[1] = x /\ <<y>>[1] = y /\ <<x, y>>[1] = x /\ <<x, y>>[2] = y
  OBVIOUS
<1> HIDE DEF D
<1> DEFINE s == <<x>> \o <<y>>
<1>3. /\ s \in Seq(D) /\ Len(s) = Len(<<x>>) + Len(<<y>>)
      /\ \A i \in 1..(Len(<<x>>) + Len(<<y>>)) :
           s[i] = IF i <= Len(<<x>>) THEN <<x>>[i] ELSE <<y>>[i - Len(<<x>>)]
  BY <1>1, ConcatProperties
<1> HIDE DEF s
<1>4. Len(s) = 2 /\ s[1] = x /\ s[2] = y
  BY <1>2, <1>3
<1>5. s = <<x, y>>
  BY <1>1, <1>2, <1>3, <1>4, SeqEqual
<1> QED BY <1>5 DEF s

\* Another round.
LEMMA RoundJoins ==
  ASSUME NEW told, NEW n, NEW ids, RoundTold(told, n, ids),
         NEW sent \in Seq(ApiMsg), sent # <<>>, sent[1].role # "tool", OpenAIAccepts(sent)
  PROVE  /\ OpenAIAccepts((sent \o Flattened(told[2 * n])) \o Flattened(told[2 * n + 1]))
         /\ OpenAICalls(sent) \in Seq(Id)
         /\ OpenAICalls((sent \o Flattened(told[2 * n])) \o Flattened(told[2 * n + 1]))
              = OpenAICalls(sent) \o ids
<1> DEFINE new == (sent \o Flattened(told[2 * n])) \o Flattened(told[2 * n + 1])
<1>1. PICK a \in ApiMsg : /\ Flattened(told[2 * n]) = <<a>>
                          /\ a.role = "assistant" /\ a.calls = ids /\ a.id = <<>>
  BY RoundFlattened
<1>2. PICK r \in Seq(ApiMsg) :
        /\ Flattened(told[2 * n + 1]) = r /\ Len(r) = Len(ids)
        /\ \A k \in 1..Len(ids) : r[k].role = "tool" /\ r[k].calls = <<>> /\ r[k].id = ids[k]
  BY RoundFlattened
<1>3. ids \in Seq(Id) /\ ids # <<>> /\ IsInjective(ids)
  BY DEF RoundTold
<1> DEFINE l == Len(sent)
           s == sent \o <<a>>
<1>4. l \in Nat /\ Len(ids) \in Nat
  BY <1>3, LenProperties
<1>5. new = s \o r
  BY <1>1, <1>2
<1> HIDE DEF new
<1>6. s \in Seq(ApiMsg) /\ Len(s) = l + 1 /\ s[l + 1] = a /\ \A j \in 1..l : s[j] = sent[j]
  <2>1. <<a>> \in Seq(ApiMsg) /\ Len(<<a>>) = 1 /\ <<a>>[1] = a
    BY <1>1
  <2> QED BY <1>4, <2>1, ConcatProperties
<1> HIDE DEF s, l
<1>7. new \in Seq(ApiMsg) /\ Len(new) = l + 1 + Len(ids)
  <2>1. s \in Seq(ApiMsg) /\ r \in Seq(ApiMsg)
    BY <1>2, <1>6
  <2>2. s \o r \in Seq(ApiMsg) /\ Len(s \o r) = Len(s) + Len(r)
    BY ONLY <2>1, ConcatProperties
  <2> QED BY ONLY <1>2, <1>5, <1>6, <2>2
<1>8. ASSUME NEW j \in 1..(l + 1) PROVE new[j] = s[j]
  <2>1. j \in 1..(Len(s) + Len(r)) /\ j <= Len(s)
    BY <1>2, <1>4, <1>6
  <2> QED BY <1>2, <1>5, <1>6, <2>1, ConcatProperties
<1>9. ASSUME NEW k \in 1..Len(ids) PROVE new[l + 1 + k] = r[k]
  <2> DEFINE j == l + 1 + k
  <2>1. /\ j \in 1..(Len(s) + Len(r)) /\ ~(j <= Len(s)) /\ j - Len(s) = k
    BY <1>2, <1>4, <1>6
  <2> HIDE DEF j
  <2>2. new[j] = r[j - Len(s)]
    BY <1>2, <1>5, <1>6, <2>1, ConcatProperties
  <2> QED BY <2>1, <2>2 DEF j
<1>10. RoundAdded(sent, ids, new)
  <2>1. \A j \in 1..l : new[j] = sent[j]
    <3>1. \A j \in 1..l : j \in 1..(l + 1)
      BY <1>4
    <3> QED BY <1>6, <1>8, <3>1
  <2>2. new[l + 1] = a
    <3>1. l + 1 \in 1..(l + 1)
      BY <1>4
    <3> QED BY <1>6, <1>8, <3>1
  <2>3. \A k \in 1..Len(ids) : new[l + 1 + k] = r[k]
    BY <1>9
  <2> QED BY <1>1, <1>2, <1>7, <2>1, <2>2, <2>3 DEF RoundAdded, l
<1>11. OpenAIAccepts(new)
  BY <1>3, <1>10, TurnIsAccepted
<1>12. OpenAICalls(sent) \in Seq(Id) /\ OpenAICalls(new) = OpenAICalls(sent) \o ids
  BY <1>3, <1>10, CallsJoin
<1> QED BY <1>11, <1>12 DEF new

\* The conversation is one the OpenAI API accepts, round by round, and tells of the
\* calls that the conversation told to Anthropic tells of.
LEMMA OpenAIIsServed ==
  ASSUME NEW i \in Nat, NEW told, DOMAIN told = 1..(2 * i + 1), RequestTold(told),
         \A n \in 1..i : \E ids : RoundTold(told, n, ids)
  PROVE  /\ OpenAIAccepts(OpenAIMessages(told))
         /\ OpenAICalls(OpenAIMessages(told)) = AnthropicCalls(AnthropicMessages(told))
<1> DEFINE size == 2 * i + 1
           fl   == [m \in DOMAIN told |-> Flattened(told[m])]
           uses == [m \in DOMAIN told |-> Ids(told[m].content, "tool_use")]
<1>1. size \in Nat /\ size \in 1..size /\ size # 0 /\ 1 \in 1..size
  OBVIOUS
<1>2. /\ fl = [m \in 1..size |-> fl[m]] /\ \A m \in 1..size : fl[m] = Flattened(told[m])
      /\ uses = [m \in 1..size |-> uses[m]]
      /\ \A m \in 1..size : uses[m] = Ids(told[m].content, "tool_use")
  OBVIOUS
<1>3. AnthropicCalls(AnthropicMessages(told)) = FlattenSeq(uses)
  <2> DEFINE sent == AnthropicMessages(told)
  <2>1. DOMAIN sent = 1..size /\ \A m \in 1..size : sent[m].content = told[m].content
    BY DEF AnthropicMessages
  <2> HIDE DEF sent
  <2>2. [m \in DOMAIN sent |-> Ids(sent[m].content, "tool_use")] = uses
    BY <2>1
  <2>3. AnthropicCalls(sent) = FlattenSeq([m \in DOMAIN sent |-> Ids(sent[m].content, "tool_use")])
    BY DEF AnthropicCalls
  <2>4. AnthropicCalls(sent) = FlattenSeq(uses)
    BY <2>2, <2>3
  <2> QED BY <2>4 DEF sent
<1>4. OpenAIMessages(told) = <<System>> \o FlattenSeq(fl)
  BY DEF OpenAIMessages, System
<1> HIDE DEF fl, uses
<1>5. fl[1] = <<User>> /\ User \in ApiMsg /\ uses[1] = <<>>
  BY <1>1, <1>2, RequestFlattened DEF RequestTold
<1>6. ASSUME NEW n \in 1..i, NEW ids, RoundTold(told, n, ids)
      PROVE  /\ 2 * n \in 1..size /\ 2 * n + 1 \in 1..size
             /\ fl[2 * n] \in Seq(ApiMsg) /\ fl[2 * n + 1] \in Seq(ApiMsg)
             /\ uses[2 * n] = ids /\ uses[2 * n + 1] = <<>> /\ ids \in Seq(Id)
  <2>1. 2 * n \in 1..size /\ 2 * n + 1 \in 1..size
    OBVIOUS
  <2>2. Flattened(told[2 * n]) \in Seq(ApiMsg) /\ Flattened(told[2 * n + 1]) \in Seq(ApiMsg)
    <3>1. PICK a \in ApiMsg : Flattened(told[2 * n]) = <<a>>
      BY ONLY <1>6, RoundFlattened
    <3>2. <<a>> \in Seq(ApiMsg)
      OBVIOUS
    <3>3. Flattened(told[2 * n + 1]) \in Seq(ApiMsg)
      BY <1>6, RoundFlattened
    <3> QED BY <3>1, <3>2, <3>3
  <2> QED BY <1>2, <1>6, <2>1, <2>2 DEF RoundTold
<1> HIDE DEF size
<1>7. \A m \in 1..size : fl[m] \in Seq(ApiMsg) /\ uses[m] \in Seq(Id)
  <2> SUFFICES ASSUME NEW m \in 1..size PROVE fl[m] \in Seq(ApiMsg) /\ uses[m] \in Seq(Id)
    OBVIOUS
  <2>1. CASE m = 1
    <3>1. <<User>> \in Seq(ApiMsg) /\ <<>> \in Seq(Id)
      BY <1>5
    <3> QED BY <1>5, <2>1, <3>1
  <2>2. CASE \E n \in 1..i : m = 2 * n \/ m = 2 * n + 1
    <3>1. PICK n \in 1..i : m = 2 * n \/ m = 2 * n + 1
      BY <2>2
    <3>2. PICK ids : RoundTold(told, n, ids)
      OBVIOUS
    <3>3. /\ fl[2 * n] \in Seq(ApiMsg) /\ fl[2 * n + 1] \in Seq(ApiMsg)
          /\ uses[2 * n] = ids /\ uses[2 * n + 1] = <<>> /\ ids \in Seq(Id)
      BY <1>6, <3>2
    <3>4. <<>> \in Seq(Id)
      OBVIOUS
    <3> QED BY ONLY <3>1, <3>3, <3>4
  <2> QED BY <2>1, <2>2, Places DEF size
<1>8. /\ fl \in Seq(Seq(ApiMsg)) /\ Len(fl) = size
      /\ uses \in Seq(Seq(Id)) /\ Len(uses) = size
  <2>1. (\A m \in 1..size : fl[m] \in Seq(ApiMsg)) /\ \A m \in 1..size : uses[m] \in Seq(Id)
    BY <1>7
  <2>2. fl = [m \in 1..size |-> fl[m]] /\ uses = [m \in 1..size |-> uses[m]]
    BY <1>2
  <2>3. fl \in Seq(Seq(ApiMsg)) /\ Len(fl) = size
    BY ONLY <1>1, <2>1, <2>2, CountedIsSeq
  <2>4. uses \in Seq(Seq(Id)) /\ Len(uses) = size
    BY ONLY <1>1, <2>1, <2>2, CountedIsSeq
  <2> QED BY <2>3, <2>4
<1> DEFINE F(n) == FlattenSeq(SubSeq(fl, 1, n))
           U(n) == FlattenSeq(SubSeq(uses, 1, n))
<1>9. ASSUME NEW n \in 0..(size - 1)
      PROVE  /\ F(n) \in Seq(ApiMsg) /\ F(n + 1) = F(n) \o fl[n + 1]
             /\ U(n) \in Seq(Id) /\ U(n + 1) = U(n) \o uses[n + 1]
  <2>1. F(n) \in Seq(ApiMsg) /\ F(n + 1) = F(n) \o fl[n + 1]
    BY <1>8, FlattenNext
  <2>2. U(n) \in Seq(Id) /\ U(n + 1) = U(n) \o uses[n + 1]
    BY <1>8, FlattenNext
  <2> QED BY <2>1, <2>2
<1>10. F(1) = <<User>> /\ U(1) = <<>>
  <2>1. 0 \in 0..(size - 1)
    BY <1>1
  <2>2. F(0) = <<>> /\ U(0) = <<>>
    <3>1. SubSeq(fl, 1, 0) = <<>> /\ SubSeq(uses, 1, 0) = <<>>
      BY <1>8, SubSeqEmpty
    <3> QED BY <3>1 DEF FlattenSeq
  <2> HIDE DEF F, U
  <2>3. F(1) = F(0) \o fl[1] /\ U(1) = U(0) \o uses[1]
    <3>1. 0 + 1 = 1
      OBVIOUS
    <3>2. F(0 + 1) = F(0) \o fl[0 + 1] /\ U(0 + 1) = U(0) \o uses[0 + 1]
      BY <1>9, <2>1
    <3> QED BY <3>1, <3>2
  <2>4. <<>> \o <<User>> = <<User>> /\ <<>> \o <<>> = <<>>
    <3>1. <<User>> \in Seq(ApiMsg) /\ <<>> \in Seq(ApiMsg)
      BY <1>5
    <3> QED BY ONLY <3>1, ConcatEmptySeq
  <2> QED BY ONLY <1>5, <2>2, <2>3, <2>4
<1>11. F(size) = FlattenSeq(fl) /\ U(size) = FlattenSeq(uses)
  <2>1. SubSeq(fl, 1, size) = fl /\ SubSeq(uses, 1, size) = uses
    BY <1>8, SubSeqFull
  <2> QED BY <2>1
<1> HIDE DEF F, U
<1> DEFINE S(n) == <<System>> \o F(2 * n + 1)
           Good == {n \in 0..i : /\ F(2 * n + 1) \in Seq(ApiMsg)
                                 /\ OpenAIAccepts(S(n))
                                 /\ OpenAICalls(S(n)) = U(2 * n + 1)}
<1>12. System \in ApiMsg /\ System.role # "tool"
  <2>1. <<>> \in Seq(Id) /\ <<>> \in Id \union {<<>>} /\ TRUE \in BOOLEAN
    OBVIOUS
  <2>2. System \in ApiMsg
    BY <2>1, ApiMessageType DEF System
  <2> QED BY <2>2 DEF System, ApiMessage
<1>13. 0 \in Good
  <2>1. 2 * 0 + 1 = 1 /\ 0 \in 0..i
    OBVIOUS
  <2>2. <<System>> \o <<User>> = <<System, User>> /\ <<User>> \in Seq(ApiMsg)
    BY <1>5, ConcatPair
  <2>3. S(0) = <<System, User>> /\ F(2 * 0 + 1) = <<User>> /\ U(2 * 0 + 1) = <<>>
    BY <1>10, <2>1, <2>2
  <2> HIDE DEF S
  <2>4. OpenAIAccepts(S(0)) /\ OpenAICalls(S(0)) = <<>>
    BY <2>3, RequestIsAccepted
  <2> QED BY <2>1, <2>2, <2>3, <2>4
<1>14. ASSUME NEW n \in 0..i, n \in Good /\ n < i PROVE n + 1 \in Good
  <2> DEFINE k == n + 1
  <2>1. k \in 1..i /\ k \in 0..i /\ 2 * k = (2 * n + 1) + 1 /\ n \in Nat
    BY <1>14
  <2> HIDE DEF k
  <2>2. PICK ids : RoundTold(told, k, ids)
    BY <2>1
  <2>3. /\ 2 * k \in 1..size /\ 2 * k + 1 \in 1..size
        /\ fl[2 * k] \in Seq(ApiMsg) /\ fl[2 * k + 1] \in Seq(ApiMsg)
        /\ uses[2 * k] = ids /\ uses[2 * k + 1] = <<>> /\ ids \in Seq(Id)
    BY <1>6, <2>1, <2>2
  <2>4. /\ F(2 * n + 1) \in Seq(ApiMsg) /\ OpenAIAccepts(S(n)) /\ OpenAICalls(S(n)) = U(2 * n + 1)
    BY <1>14
  <2>5. /\ F(2 * k) = F(2 * n + 1) \o fl[2 * k]
        /\ U(2 * n + 1) \in Seq(Id) /\ U(2 * k) = U(2 * n + 1) \o ids
    <3>1. 2 * n + 1 \in 0..(size - 1)
      BY <1>1, <2>1, <2>3
    <3> QED BY <1>9, <2>1, <2>3, <3>1
  <2>6. /\ F(2 * k) \in Seq(ApiMsg) /\ F(2 * k + 1) = F(2 * k) \o fl[2 * k + 1]
        /\ U(2 * k) \in Seq(Id) /\ U(2 * k + 1) = U(2 * k) \o <<>>
    <3>1. 2 * k \in 0..(size - 1)
      BY <1>1, <2>1, <2>3
    <3> QED BY <1>9, <2>3, <3>1
  <2>7. F(2 * k + 1) \in Seq(ApiMsg)
    BY <2>3, <2>6, ConcatProperties
  <2>8. U(2 * k + 1) = U(2 * n + 1) \o ids
    BY <2>5, <2>6, ConcatEmptySeq
  <2>9. /\ S(n) \in Seq(ApiMsg) /\ S(n) # <<>> /\ S(n)[1].role # "tool"
    <3> DEFINE f == F(2 * n + 1)
    <3>1. f \in Seq(ApiMsg) /\ S(n) = <<System>> \o f
      BY <2>4
    <3> HIDE DEF f, S
    <3>2. S(n) \in Seq(ApiMsg) /\ Len(S(n)) = 1 + Len(f) /\ S(n)[1] = System
      BY <1>12, <3>1
    <3>3. S(n) # <<>>
      BY <3>1, <3>2
    <3> QED BY <1>12, <3>2, <3>3
  <2>10. S(k) = (S(n) \o fl[2 * k]) \o fl[2 * k + 1]
    <3> DEFINE f == F(2 * n + 1)  x == fl[2 * k]  y == fl[2 * k + 1]  s == <<System>>
    <3>1. /\ s \in Seq(ApiMsg) /\ f \in Seq(ApiMsg) /\ x \in Seq(ApiMsg) /\ y \in Seq(ApiMsg)
      <4>1. s \in Seq(ApiMsg)
        BY <1>12
      <4> QED BY <2>3, <2>4, <4>1
    <3>2. S(n) = s \o f /\ S(k) = s \o ((f \o x) \o y)
      BY <2>5, <2>6
    <3> HIDE DEF f, x, y, s, S
    <3>3. s \o ((f \o x) \o y) = ((s \o f) \o x) \o y
      <4>1. f \o x \in Seq(ApiMsg)
        BY ONLY <3>1, ConcatProperties
      <4>2. s \o ((f \o x) \o y) = (s \o (f \o x)) \o y
        BY ONLY <3>1, <4>1, ConcatAssociative
      <4>3. (s \o f) \o x = s \o (f \o x)
        BY ONLY <3>1, ConcatAssociative
      <4> QED BY ONLY <4>2, <4>3
    <3>4. S(k) = (S(n) \o x) \o y
      BY ONLY <3>2, <3>3
    <3> QED BY <3>4 DEF x, y
  <2>11. fl[2 * k] = Flattened(told[2 * k]) /\ fl[2 * k + 1] = Flattened(told[2 * k + 1])
    BY <1>2, <2>3
  <2> HIDE DEF S
  <2>12. OpenAIAccepts(S(k)) /\ OpenAICalls(S(k)) = OpenAICalls(S(n)) \o ids
    <3>1. S(k) = (S(n) \o Flattened(told[2 * k])) \o Flattened(told[2 * k + 1])
      BY ONLY <2>10, <2>11
    <3>2. S(n) \in Seq(ApiMsg) /\ S(n) # <<>> /\ S(n)[1].role # "tool" /\ OpenAIAccepts(S(n))
      BY <2>4, <2>9
    <3> QED BY ONLY <2>2, <3>1, <3>2, RoundJoins
  <2> QED BY <2>1, <2>4, <2>7, <2>8, <2>12 DEF k
<1> HIDE DEF Good
<1>15. \A n \in 0..i : n \in Good
  BY <1>13, <1>14, Upwards
<1>16. OpenAIAccepts(S(i)) /\ OpenAICalls(S(i)) = U(size) /\ S(i) = <<System>> \o F(size)
  <2>1. i \in Good
    BY <1>15
  <2> QED BY <2>1 DEF Good, size
<1> HIDE DEF S
<1> QED BY <1>3, <1>4, <1>11, <1>16

\* Round by round, both conversations are good ones: for any number of rounds, any
\* number of calls in each, and whatever turns have text or calls without an id.
LEMMA BothAreServed == OrchestratorInv /\ Numbered => BothWiresAccepted
<1> SUFFICES ASSUME OrchestratorInv, Numbered, pc = "llm", NEW spoken, NEW unnamed
             PROVE  LET told == LlmMessages(spoken, unnamed)
                        openai == OpenAIMessages(told)
                        anthropic == AnthropicMessages(told)
                    IN /\ OpenAIAccepts(openai) /\ AnthropicAccepts(anthropic)
                       /\ OpenAICalls(openai) = AnthropicCalls(anthropic)
  BY DEF BothWiresAccepted
<1> DEFINE told == LlmMessages(spoken, unnamed)
<1>1. iter \in Nat
  BY DEF OrchestratorInv, OrchestratorTypeOK
<1>2. /\ DOMAIN told = 1..(2 * iter + 1)
      /\ RequestTold(told)
      /\ \A n \in 1..iter : \E ids : RoundTold(told, n, ids)
  BY ConversationIsTold
<1> HIDE DEF told
<1>3. AnthropicAccepts(AnthropicMessages(told))
  BY <1>1, <1>2, AnthropicIsServed
<1>4. /\ OpenAIAccepts(OpenAIMessages(told))
      /\ OpenAICalls(OpenAIMessages(told)) = AnthropicCalls(AnthropicMessages(told))
  BY <1>1, <1>2, OpenAIIsServed
<1> QED BY <1>3, <1>4 DEF told

\* At every call of Complete each API accepts the form its client gives the conversation,
\* and both forms tell of the same calls (toAPIMessages of openai/client.go and of
\* anthropic/client.go), on a run with either client.
THEOREM BothApisAccept == PSpec => []BothWiresAccepted
<1>1. Init => Numbered
  BY DEF Init, Numbered
<1>2. Spec => []Numbered
  BY <1>1, NumberedStep, OrchestratorInvariant, PTL DEF Spec
<1> QED BY <1>2, BothAreServed, OrchestratorInvariant, ProvidersRefineOrchestrator, PTL
=============================================================================
