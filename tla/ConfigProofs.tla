---------------------------- MODULE ConfigProofs ----------------------------
(***************************************************************************)
(* Proofs about the configuration of a stack, for any fields, releases,    *)
(* files, choices and addresses, and any number of runs and edits.         *)
(*                                                                         *)
(* Types need no hypothesis.  What the values are does: Resolvable, that   *)
(* references go over at most four levels, as many as the code has passes. *)
(* Each pass widens the distance between a text and what it refers to by   *)
(* one rank, so that after four passes nothing is left to refer to, and    *)
(* the values are the one solution of all the texts.                       *)
(***************************************************************************)
EXTENDS ConfigProps, SequenceTheorems, WellFoundedInduction, TLAPS

-----------------------------------------------------------------------------
(* The inductive invariant *)

\* The value of k is final, and no address is still to be detected.
Settled(k, v) == Plain(k, v) /\ (k \in IpField => v # AutoIp)

\* Every line is one that the operator wrote, or plain.
LinesFit(lines) ==
    \A k \in DOMAIN lines :
        /\ k \in Field \cup {"domain"}
        /\ Plain(k, lines[k]) \/ (k \in DOMAIN Writes /\ lines[k] \in Writes[k])

FileInv == LinesFit(file.lines)

CacheInv ==
    /\ \A k \in DOMAIN cache : k \in Field \cup {"domain"} /\ Settled(k, cache[k])
    /\ last # NoRun /\ ~ torn => cache = last.values

\* What the screens show is final, and on the second of them what is derived
\* fits the rest.
ScreenInv ==
    screen # Closed =>
        /\ Plain("domain", screen.domain)
        /\ \A k \in DOMAIN screen.shown : Settled(k, screen.shown[k])
        /\ \A f \in Field : IsDerived(screen.manifest, f) =>
              /\ screen.manifest.default[f] = Unset /\ f \notin DOMAIN screen.file
                    => screen.shown[f] = Unset
              /\ screen.manifest.default[f] # Unset /\ screen.at = "config"
                    => screen.shown[f] = Interpolate(screen.manifest.default[f], screen.shown)
        /\ screen.at = "config" => /\ screen.shown \in [Key -> Value]
                                   /\ screen.shown["domain"] = screen.domain
                                   /\ screen.shown["domain_dn"] = DomainToDn(screen.domain)

\* The value that a line of the file stands for in a run.
FromFile(run, f) ==
    IF f \in IpField THEN IF run.file[f] = AutoIp THEN run.node ELSE run.file[f]
    ELSE Interpolate(run.file[f], Known(run))

HeadlessInv(run) ==
    /\ LinesFit(run.file)
    /\ \A f \in Field \cap DOMAIN run.file : run.values[f] = FromFile(run, f)
    /\ "domain" \in DOMAIN run.file => run.domain = run.file["domain"]
    /\ run.typed = {} /\ run.values \in [Field -> Value]

RunInv(run) ==
    /\ Plain("domain", run.domain)
    /\ \A k \in DOMAIN run.values : Settled(k, run.values[k])
    /\ "domain" \in DOMAIN run.values => run.values["domain"] = run.domain
    /\ Rederived(run)
    /\ run.by = "headless" => HeadlessInv(run)

LastInv == last # NoRun => RunInv(last)

ConfigInv == TypeOK /\ FileInv /\ CacheInv /\ ScreenInv /\ LastInv

-----------------------------------------------------------------------------
(* Sequences and recursion *)

\* What holds at 0 and passes on to the next number holds up to n.
LEMMA Induction ==
    ASSUME NEW n \in Nat, NEW T, 0 \in T, \A i \in 1 .. n : i - 1 \in T => i \in T
    PROVE  0 .. n \subseteq T
<1> DEFINE S == {i \in 0 .. n : i \notin T}
<1> SUFFICES ASSUME S # {} PROVE FALSE
  OBVIOUS
<1>1. S \subseteq Nat
  OBVIOUS
<1> HIDE DEF S
<1>2. PICK m \in S : \A k \in S : <<k, m>> \notin OpToRel(<, Nat)
  BY <1>1, WFMin, NatLessThanWellFounded, Zenon
<1>3. m \in 0 .. n /\ m \notin T
  BY <1>2 DEF S
<1>4. m # 0 /\ m - 1 \in Nat /\ m - 1 < m
  BY <1>3
<1>5. m - 1 \notin S
  BY <1>1, <1>2, <1>4 DEF OpToRel
<1> QED
  BY <1>3, <1>4, <1>5 DEF S

Iterates(u, n, a, step) ==
    u[0] = a /\ \A i \in 1 .. n : u[i] = step[i][u[i - 1]]

\* A recursion over 0 .. n has a solution.
LEMMA Iteration ==
    ASSUME NEW n \in Nat, NEW A, NEW a \in A, NEW step \in [1 .. n -> [A -> A]]
    PROVE  \E u \in [0 .. n -> A] : Iterates(u, n, a, step)
<1> DEFINE Good(u, m) == u[0] = a /\ \A i \in 1 .. m : u[i] = step[i][u[i - 1]]
           T == {m \in 0 .. n : \E u \in [0 .. m -> A] : Good(u, m)}
<1>1. 0 \in T
  <2>1. [i \in 0 .. 0 |-> a] \in [0 .. 0 -> A] /\ Good([i \in 0 .. 0 |-> a], 0)
    OBVIOUS
  <2> HIDE DEF Good
  <2>2. \E u \in [0 .. 0 -> A] : Good(u, 0)
    BY <2>1
  <2> QED
    BY <2>2
<1>2. ASSUME NEW i \in 1 .. n, i - 1 \in T
      PROVE  i \in T
  <2>1. PICK u \in [0 .. i - 1 -> A] : Good(u, i - 1)
    BY <1>2
  <2> DEFINE v == [j \in 0 .. i |-> IF j = i THEN step[i][u[i - 1]] ELSE u[j]]
  <2>2. i \in Nat /\ i - 1 \in 0 .. i - 1 /\ i - 1 \in 0 .. i
    OBVIOUS
  <2>3. v \in [0 .. i -> A]
    BY <2>2
  <2>4. v[0] = a
    BY <2>1, <2>2
  <2>5. ASSUME NEW j \in 1 .. i PROVE v[j] = step[j][v[j - 1]]
    BY <2>1, <2>2
  <2>6. Good(v, i)
    BY <2>4, <2>5
  <2> HIDE DEF Good, v
  <2>7. \E w \in [0 .. i -> A] : Good(w, i)
    BY <2>3, <2>6
  <2> QED
    BY <2>7
<1> HIDE DEF T
<1>3. \A i \in 1 .. n : i - 1 \in T => i \in T
  BY <1>2
<1>4. n \in T
  BY <1>1, <1>3, Induction, n \in 0 .. n, Zenon
<1> QED
  BY <1>4 DEF T, Iterates

\* The prefixes of a flattened sequence.
LEMMA Flattening ==
    ASSUME NEW S, NEW ss \in Seq(Seq(S))
    PROVE  \E u \in [0 .. Len(ss) -> Seq(S)] :
              /\ u[0] = << >> /\ u[Len(ss)] = FlattenSeq(ss)
              /\ \A i \in 1 .. Len(ss) : u[i] = u[i - 1] \o ss[i]
<1> DEFINE n == Len(ss)
           step == [i \in 1 .. n |-> [s \in Seq(S) |-> s \o ss[i]]]
<1>1. n \in Nat /\ \A i \in 1 .. n : ss[i] \in Seq(S)
  OBVIOUS
<1>2. step \in [1 .. n -> [Seq(S) -> Seq(S)]]
  BY <1>1
<1>3. << >> \in Seq(S)
  OBVIOUS
<1> HIDE DEF n
<1>4. PICK u \in [0 .. n -> Seq(S)] :
          u[0] = << >> /\ \A i \in 1 .. n : u[i] = step[i][u[i - 1]]
  <2> HIDE DEF step
  <2> QED
    <3>1. \E u \in [0 .. n -> Seq(S)] : Iterates(u, n, << >>, step)
      BY <1>1, <1>2, <1>3, Iteration, Zenon
    <3> QED
      BY <3>1 DEF Iterates
<1>5. \A i \in 1 .. n : u[i] = u[i - 1] \o ss[i]
  <2> SUFFICES ASSUME NEW i \in 1 .. n PROVE u[i] = u[i - 1] \o ss[i]
    OBVIOUS
  <2>1. i - 1 \in 0 .. n /\ u[i - 1] \in Seq(S)
    BY <1>1
  <2>2. step[i] = [s \in Seq(S) |-> s \o ss[i]]
    OBVIOUS
  <2> HIDE DEF step
  <2> QED
    BY <1>4, <2>1, <2>2
<1>6. u[n] = FlattenSeq(ss)
  <2>1. CASE n = 0
    BY <1>4, <2>1 DEF FlattenSeq, n
  <2>2. CASE n # 0
    <3> DEFINE Fixed(f) == f = [i \in 1 .. n |-> IF i = 1 THEN ss[i] ELSE f[i - 1] \o ss[i]]
               flatten == CHOOSE f : Fixed(f)
    <3>1. Fixed([i \in 1 .. n |-> u[i]])
      <4>1. u[1] = ss[1]
        <5>1. 1 \in 1 .. n
          BY <1>1, <2>2
        <5>2. u[1] = u[1 - 1] \o ss[1] /\ ss[1] \in Seq(S)
          BY <1>1, <1>5, <5>1
        <5>3. 1 - 1 = 0
          OBVIOUS
        <5>4. u[1] = << >> \o ss[1]
          BY <1>4, <5>2, <5>3, Zenon
        <5> QED
          BY <5>2, <5>4, ConcatEmptySeq
      <4>2. \A i \in 1 .. n : i # 1 => i - 1 \in 1 .. n
        BY <1>1
      <4> QED
        BY <1>5, <4>1, <4>2
    <3>2. Fixed(flatten)
      <4> HIDE DEF Fixed
      <4> QED
        BY <3>1
    <3>3. FlattenSeq(ss) = flatten[n]
      BY <2>2 DEF FlattenSeq, n
    <3> DEFINE T == {i \in 0 .. n : i # 0 => flatten[i] = u[i]}
    <3>4. 0 \in T
      BY <1>1
    <3>5. ASSUME NEW i \in 1 .. n, i - 1 \in T PROVE i \in T
      <4> HIDE DEF flatten
      <4>1. flatten[i] = IF i = 1 THEN ss[i] ELSE flatten[i - 1] \o ss[i]
        BY <3>2
      <4>2. i = 1 => u[i] = ss[i]
        <5>1. i = 1 => i - 1 = 0
          OBVIOUS
        <5>2. i = 1 => u[i] = << >> \o ss[i]
          BY <1>4, <1>5, <5>1, Zenon
        <5> QED
          BY <1>1, <5>2, ConcatEmptySeq
      <4>3. i # 1 => flatten[i - 1] = u[i - 1]
        BY <1>1, <3>5
      <4>4. flatten[i] = u[i]
        BY <1>5, <4>1, <4>2, <4>3
      <4> QED
        BY <1>1, <4>4
    <3>6. \A i \in 1 .. n : i - 1 \in T => i \in T
      BY <3>5
    <3> HIDE DEF T
    <3>7. n \in T
      BY <1>1, <3>4, <3>6, Induction, n \in 0 .. n, Zenon
    <3> QED
      BY <1>1, <2>2, <3>3, <3>7 DEF T
  <2> QED
    BY <2>1, <2>2
<1> QED
  BY <1>4, <1>5, <1>6 DEF n

-----------------------------------------------------------------------------
(* Substitution *)

\* The parts of a text.
LEMMA PieceParts ==
    ASSUME NEW p \in Piece
    PROVE  p[1] \in {"lit", "ref", "dn"} /\ p[2] \in Words /\ p = <<p[1], p[2]>>
BY DEF Piece

LEMMA UnsetFacts ==
    /\ Unset \in Value /\ Unset \notin Seq(Piece) /\ Refs(Unset) = {} /\ Unset # << >>
    /\ DOMAIN Unset = {1} /\ Unset[1] = <<"none", "None">>
<1>1. DOMAIN Unset = {1} /\ Unset[1] = <<"none", "None">> /\ Len(Unset) = 1
  BY DEF Unset
<1>2. Unset[1][1] = "none"
  BY <1>1
<1>3. Unset \notin Seq(Piece)
  <2>1. SUFFICES ASSUME Unset \in Seq(Piece) PROVE FALSE
    OBVIOUS
  <2>2. Unset[1] \in Piece
    BY <1>1, <2>1
  <2> QED
    BY <1>2, <2>2, PieceParts
<1>4. Refs(Unset) = {}
  BY <1>1, <1>2 DEF Refs
<1> QED
  BY <1>1, <1>3, <1>4 DEF Value

LEMMA TextFacts ==
    ASSUME NEW l \in Words
    PROVE  Text(l) \in Seq(Piece) /\ Refs(Text(l)) = {} /\ Text(l) # << >>
<1>1. <<"lit", l>> \in Piece
  BY DEF Piece
<1>2. Text(l) = << <<"lit", l>> >>
  BY DEF Text, Lit
<1>3. Text(l) \in Seq(Piece)
  BY <1>1, <1>2
<1>4. DOMAIN Text(l) = {1} /\ Text(l)[1] = <<"lit", l>>
  BY <1>2
<1>5. Text(l)[1][1] = "lit"
  BY <1>4
<1> QED
  BY <1>3, <1>4, <1>5 DEF Refs

\* str() of a value is a text that refers to the same keys.
LEMMA StrFacts ==
    ASSUME NEW v \in Value
    PROVE  /\ Str(v) \in Seq(Piece) /\ Refs(Str(v)) = Refs(v)
           /\ v # << >> => Str(v) # << >>
           /\ v \in Seq(Piece) => Str(v) = v
<1>1. CASE v = Unset
  <2>1. Str(v) = Text("None")
    BY <1>1, Zenon DEF Str
  <2>2. "None" \in Words
    BY ConfigAssumption
  <2>3. Str(v) \in Seq(Piece) /\ Refs(Str(v)) = {} /\ Str(v) # << >>
    BY <2>1, <2>2, TextFacts
  <2> QED
    BY <1>1, <2>3, UnsetFacts
<1>2. CASE v # Unset
  BY <1>2 DEF Str, Value
<1> QED
  BY <1>1, <1>2

LEMMA SubstituteFacts ==
    ASSUME NEW p \in Piece, NEW values, IsMap(values)
    PROVE  Substitute(p, values) \in Seq(Piece)
<1>1. CASE p[1] = "ref" /\ p[2] \in DOMAIN values
  BY <1>1, StrFacts DEF Substitute, IsMap
<1>2. CASE ~ (p[1] = "ref" /\ p[2] \in DOMAIN values)
  BY <1>2 DEF Substitute
<1> QED
  BY <1>1, <1>2

\* The texts that Interpolate makes of the prefixes of a text.
Splices(u, text, values) ==
    /\ u \in [0 .. Len(text) -> Seq(Piece)]
    /\ u[0] = << >> /\ u[Len(text)] = Interpolate(text, values)
    /\ \A i \in 1 .. Len(text) : u[i] = u[i - 1] \o Substitute(text[i], values)

\* Those texts exist.
LEMMA Splicing ==
    ASSUME NEW text \in Seq(Piece), NEW values, IsMap(values)
    PROVE  \E u : Splices(u, text, values)
<1> DEFINE ss == [i \in DOMAIN text |-> Substitute(text[i], values)]
<1>1. /\ DOMAIN text = 1 .. Len(text) /\ Len(text) \in Nat
      /\ \A i \in DOMAIN text : text[i] \in Piece
  OBVIOUS
<1>2. ss \in [1 .. Len(text) -> Seq(Piece)]
  BY <1>1, SubstituteFacts
<1>3. ss \in Seq(Seq(Piece)) /\ Len(ss) = Len(text)
  <2> HIDE DEF ss
  <2> DEFINE S == Seq(Piece)
  <2>1. ss \in [1 .. Len(text) -> S]
    BY <1>2
  <2> HIDE DEF S
  <2>2. ss \in Seq(S) /\ Len(ss) = Len(text)
    BY <1>1, <2>1
  <2> QED
    BY <2>2 DEF S
<1>4. \A i \in 1 .. Len(text) : ss[i] = Substitute(text[i], values)
  BY <1>1
<1>5. FlattenSeq(ss) = Interpolate(text, values)
  BY DEF Interpolate
<1> HIDE DEF ss
<1>6. PICK u \in [0 .. Len(ss) -> Seq(Piece)] :
          /\ u[0] = << >> /\ u[Len(ss)] = FlattenSeq(ss)
          /\ \A i \in 1 .. Len(ss) : u[i] = u[i - 1] \o ss[i]
  BY <1>3, Flattening, Zenon
<1> QED
  BY <1>3, <1>4, <1>5, <1>6, Zenon DEF Splices

LEMMA InterpolateType ==
    ASSUME NEW text \in Seq(Piece), NEW values, IsMap(values)
    PROVE  Interpolate(text, values) \in Seq(Piece)
<1>1. PICK u : Splices(u, text, values)
  BY Splicing
<1> QED
  BY <1>1 DEF Splices

\* What a text without references looks like afterwards, and one that is only
\* made of references to the same values.
LEMMA InterpolateAgrees ==
    ASSUME NEW text \in Seq(Piece), NEW one, NEW two, IsMap(one), IsMap(two),
           \A k \in Refs(text) : k \in DOMAIN one /\ k \in DOMAIN two /\ one[k] = two[k]
    PROVE  Interpolate(text, one) = Interpolate(text, two)
<1>1. PICK u : Splices(u, text, one)
  BY Splicing
<1>2. PICK v : Splices(v, text, two)
  BY Splicing
<1> DEFINE T == {i \in 0 .. Len(text) : u[i] = v[i]}
<1>3. Len(text) \in Nat /\ DOMAIN text = 1 .. Len(text)
  OBVIOUS
<1>4. 0 \in T
  BY <1>1, <1>2, <1>3 DEF Splices
<1>5. \A i \in 1 .. Len(text) : i - 1 \in T => i \in T
  <2> TAKE i \in 1 .. Len(text)
  <2>1. text[i][1] = "ref" => text[i][2] \in Refs(text)
    BY <1>3 DEF Refs
  <2>2. Substitute(text[i], one) = Substitute(text[i], two)
    BY <2>1 DEF Substitute
  <2>3. u[i - 1] = v[i - 1] => u[i] = v[i]
    BY <1>1, <1>2, <2>2, Zenon DEF Splices
  <2> QED
    BY <1>3, <2>3
<1> HIDE DEF T
<1>6. Len(text) \in T
  BY <1>3, <1>4, <1>5, Induction, Len(text) \in 0 .. Len(text), Zenon
<1> QED
  BY <1>1, <1>2, <1>6 DEF T, Splices

\* A text without references stays as it is (config_overrides.py:54-61).
LEMMA InterpolatePlain ==
    ASSUME NEW text \in Value, NEW values, IsMap(values), Refs(text) = {}
    PROVE  Interpolate(text, values) = text
<1>1. CASE text = Unset
  <2>1. DOMAIN text = {1} /\ Substitute(text[1], values) = <<text[1]>>
    BY <1>1, UnsetFacts DEF Substitute
  <2> DEFINE ss == [i \in DOMAIN text |-> Substitute(text[i], values)]
  <2>2. ss = << Unset >>
    BY <1>1, <2>1, UnsetFacts DEF Unset
  <2>3. FlattenSeq(<< Unset >>) = Unset
    BY DEF FlattenSeq
  <2> QED
    BY <1>1, <2>2, <2>3 DEF Interpolate
<1>2. CASE text \in Seq(Piece)
  <2>1. PICK u : Splices(u, text, values)
    BY <1>2, Splicing
  <2> DEFINE T == {i \in 0 .. Len(text) : u[i] = SubSeq(text, 1, i)}
  <2>2. Len(text) \in Nat /\ DOMAIN text = 1 .. Len(text)
    BY <1>2
  <2>3. 0 \in T
    <3>1. u[0] = << >> /\ SubSeq(text, 1, 0) = << >>
      <4>1. SubSeq(text, 1, 0) = << >>
        BY SubSeqEmpty, 0 < 1
      <4> QED
        BY <2>1, <4>1, Zenon DEF Splices
    <3>2. 0 \in 0 .. Len(text)
      BY <2>2
    <3> QED
      BY <3>1, <3>2, Zenon
  <2>4. \A i \in 1 .. Len(text) : i - 1 \in T => i \in T
    <3> SUFFICES ASSUME NEW i \in 1 .. Len(text), u[i - 1] = SubSeq(text, 1, i - 1)
                 PROVE  u[i] = SubSeq(text, 1, i)
      BY <2>2
    <3>1. Substitute(text[i], values) = <<text[i]>>
      BY <2>2 DEF Refs, Substitute
    <3>2. u[i] = SubSeq(text, 1, i - 1) \o <<text[i]>>
      BY <2>1, <3>1 DEF Splices
    <3>3. 1 \in 1 .. Len(text) /\ i \in 1 .. Len(text)
      BY <2>2
    <3> QED
      BY <1>2, <3>2, <3>3, SubSeqRecursiveSecond
  <2> HIDE DEF T
  <2>5. Len(text) \in T
    BY <2>2, <2>3, <2>4, Induction, Len(text) \in 0 .. Len(text), Zenon
  <2>6. SubSeq(text, 1, Len(text)) = text
    BY <1>2, SubSeqFull
  <2> QED
    BY <2>1, <2>5, <2>6 DEF T, Splices
<1> QED
  BY <1>1, <1>2 DEF Value

\* Nothing refers to more after it is put together.
LEMMA ConcatRefs ==
    ASSUME NEW s \in Seq(Piece), NEW t \in Seq(Piece)
    PROVE  Refs(s \o t) \subseteq Refs(s) \cup Refs(t)
<1> SUFFICES ASSUME NEW i \in DOMAIN (s \o t), (s \o t)[i][1] = "ref"
             PROVE  (s \o t)[i][2] \in Refs(s) \cup Refs(t)
  BY DEF Refs
<1>1. /\ Len(s) \in Nat /\ DOMAIN s = 1 .. Len(s) /\ Len(t) \in Nat /\ DOMAIN t = 1 .. Len(t)
      /\ i \in 1 .. Len(s) + Len(t)
  BY ConcatProperties
<1>2. CASE i <= Len(s)
  <2>1. i \in DOMAIN s /\ (s \o t)[i] = s[i]
    BY <1>1, <1>2, ConcatProperties
  <2> QED
    BY <2>1 DEF Refs
<1>3. CASE ~ (i <= Len(s))
  <2>1. i - Len(s) \in DOMAIN t /\ (s \o t)[i] = t[i - Len(s)]
    BY <1>1, <1>3, ConcatProperties
  <2> QED
    BY <2>1 DEF Refs
<1> QED
  BY <1>2, <1>3

\* What is left to substitute comes from the values.
LEMMA InterpolateRefs ==
    ASSUME NEW text \in Seq(Piece), NEW values, IsMap(values),
           Refs(text) \subseteq DOMAIN values
    PROVE  \A j \in Refs(Interpolate(text, values)) :
              \E k \in Refs(text) : j \in Refs(values[k])
<1> DEFINE Good(s) == \A j \in Refs(s) : \E k \in Refs(text) : j \in Refs(values[k])
<1>1. PICK u : Splices(u, text, values)
  BY Splicing
<1> DEFINE T == {i \in 0 .. Len(text) : Good(u[i])}
<1>2. Len(text) \in Nat /\ DOMAIN text = 1 .. Len(text)
  OBVIOUS
<1>3. 0 \in T
  <2>1. Refs(<< >>) = {}
    BY DEF Refs
  <2>2. u[0] = << >>
    BY <1>1 DEF Splices
  <2> QED
    BY <1>2, <2>1, <2>2
<1>4. \A i \in 1 .. Len(text) : i - 1 \in T => i \in T
  <2> SUFFICES ASSUME NEW i \in 1 .. Len(text), Good(u[i - 1]) PROVE Good(u[i])
    BY <1>2
  <2>1. /\ u[i] = u[i - 1] \o Substitute(text[i], values)
        /\ u[i - 1] \in Seq(Piece) /\ i - 1 \in 0 .. Len(text)
    <3>1. i - 1 \in 0 .. Len(text)
      BY <1>2
    <3> QED
      BY <1>1, <3>1 DEF Splices
  <2>2. text[i] \in Piece /\ Substitute(text[i], values) \in Seq(Piece)
    BY SubstituteFacts
  <2>3. Good(Substitute(text[i], values))
    <3>1. CASE text[i][1] = "ref"
      <4>1. text[i][2] \in Refs(text)
        BY <1>2, <3>1 DEF Refs
      <4>2. Substitute(text[i], values) = Str(values[text[i][2]])
        BY <3>1, <4>1 DEF Substitute
      <4>3. Refs(Substitute(text[i], values)) = Refs(values[text[i][2]])
        BY <4>1, <4>2, StrFacts DEF IsMap
      <4> QED
        BY <4>1, <4>3
    <3>2. CASE text[i][1] # "ref"
      <4>1. Substitute(text[i], values) = <<text[i]>>
        BY <3>2 DEF Substitute
      <4>2. Refs(<<text[i]>>) = {}
        BY <3>2 DEF Refs
      <4> QED
        BY <4>1, <4>2
    <3> QED
      BY <3>1, <3>2
  <2>4. Refs(u[i]) \subseteq Refs(u[i - 1]) \cup Refs(Substitute(text[i], values))
    BY <2>1, <2>2, ConcatRefs
  <2> QED
    BY <2>3, <2>4
<1> HIDE DEF T
<1>5. Len(text) \in T
  BY <1>2, <1>3, <1>4, Induction, Len(text) \in 0 .. Len(text), Zenon
<1> QED
  BY <1>1, <1>5 DEF T, Splices

\* A text that is not empty does not become empty if nothing in it does.
LEMMA InterpolateNonempty ==
    ASSUME NEW text \in Value, NEW values, IsMap(values), text # << >>,
           \A k \in Refs(text) : k \in DOMAIN values /\ values[k] # << >>
    PROVE  Interpolate(text, values) # << >>
<1>1. CASE text = Unset
  BY <1>1, InterpolatePlain, UnsetFacts
<1>2. CASE text \in Seq(Piece)
  <2>1. PICK u : Splices(u, text, values)
    BY <1>2, Splicing
  <2>2. /\ Len(text) \in 1 .. Len(text) /\ DOMAIN text = 1 .. Len(text)
        /\ Len(text) - 1 \in 0 .. Len(text)
    BY <1>2
  <2> DEFINE p == text[Len(text)]
             s == Substitute(p, values)
  <2>3. u[Len(text)] = u[Len(text) - 1] \o s /\ u[Len(text) - 1] \in Seq(Piece)
    BY <2>1, <2>2 DEF Splices
  <2>4. p \in Piece /\ s \in Seq(Piece)
    BY <1>2, <2>2, SubstituteFacts
  <2>5. s # << >>
    <3>1. CASE p[1] = "ref"
      <4>1. p[2] \in Refs(text)
        BY <2>2, <3>1 DEF Refs
      <4>2. s = Str(values[p[2]])
        BY <3>1, <4>1 DEF Substitute
      <4> QED
        BY <4>1, <4>2, StrFacts DEF IsMap
    <3>2. CASE p[1] # "ref"
      BY <3>2 DEF Substitute
    <3> QED
      BY <3>1, <3>2
  <2> HIDE DEF s
  <2>6. u[Len(text) - 1] \o s # << >>
    BY <2>3, <2>4, <2>5, ConcatEqualIffEmpty
  <2> QED
    BY <2>1, <2>3, <2>6 DEF Splices
<1> QED
  BY <1>1, <1>2 DEF Value

LEMMA Associative == \A s, t, u \in Seq(Piece) : (s \o t) \o u = s \o (t \o u)
OBVIOUS

\* Substitution goes through a concatenation.
LEMMA InterpolateConcat ==
    ASSUME NEW s \in Seq(Piece), NEW t \in Seq(Piece), NEW values, IsMap(values)
    PROVE  Interpolate(s \o t, values) = Interpolate(s, values) \o Interpolate(t, values)
<1>1. PICK u : Splices(u, s, values)
  BY Splicing
<1>2. PICK v : Splices(v, t, values)
  BY Splicing
<1>3. /\ s \o t \in Seq(Piece) /\ Len(s) \in Nat /\ Len(t) \in Nat
      /\ Len(s \o t) = Len(s) + Len(t)
      /\ DOMAIN s = 1 .. Len(s) /\ DOMAIN t = 1 .. Len(t)
  BY ConcatProperties
<1>4. PICK w : Splices(w, s \o t, values)
  BY <1>3, Splicing
<1>5. w[Len(s)] = u[Len(s)]
  <2> DEFINE T == {i \in 0 .. Len(s) : w[i] = u[i]}
  <2>1. 0 \in T
    BY <1>1, <1>3, <1>4 DEF Splices
  <2>2. \A i \in 1 .. Len(s) : i - 1 \in T => i \in T
    <3> SUFFICES ASSUME NEW i \in 1 .. Len(s), w[i - 1] = u[i - 1] PROVE w[i] = u[i]
      BY <1>3
    <3>1. i \in 1 .. Len(s \o t) /\ (s \o t)[i] = s[i]
      BY <1>3, ConcatProperties
    <3>2. w[i] = w[i - 1] \o Substitute(s[i], values)
      BY <1>4, <3>1, Zenon DEF Splices
    <3>3. u[i] = u[i - 1] \o Substitute(s[i], values)
      BY <1>1, Zenon DEF Splices
    <3> QED
      BY <3>2, <3>3
  <2> HIDE DEF T
  <2>3. Len(s) \in T
    BY <1>3, <2>1, <2>2, Induction, Len(s) \in 0 .. Len(s), Zenon
  <2> QED
    BY <2>3 DEF T
<1> DEFINE n == Len(s)
           T == {j \in 0 .. Len(t) : w[n + j] = u[n] \o v[j]}
<1>6. u[n] \in Seq(Piece) /\ n \in 0 .. n
  BY <1>1, <1>3 DEF Splices
<1>7. 0 \in T
  <2>1. v[0] = << >> /\ u[n] \o << >> = u[n] /\ n + 0 = n
    <3>1. n + 0 = n
      BY <1>3
    <3>2. v[0] = << >>
      BY <1>2, Zenon DEF Splices
    <3> QED
      BY <1>6, <3>1, <3>2, ConcatEmptySeq
  <2>2. 0 \in 0 .. Len(t) /\ w[n + 0] = u[n] \o v[0]
    BY <1>3, <1>5, <2>1
  <2> QED
    BY <2>2, Zenon
<1>8. \A j \in 1 .. Len(t) : j - 1 \in T => j \in T
  <2> SUFFICES ASSUME NEW j \in 1 .. Len(t), w[n + (j - 1)] = u[n] \o v[j - 1]
               PROVE  w[n + j] = u[n] \o v[j]
    <3>1. \A j \in 1 .. Len(t) : j \in 0 .. Len(t)
      BY <1>3
    <3> QED
      BY <3>1, Zenon
  <2>1. /\ n + j \in 1 .. Len(s \o t) /\ (s \o t)[n + j] = t[j] /\ t[j] \in Piece
        /\ n + (j - 1) = (n + j) - 1 /\ j - 1 \in 0 .. Len(t)
    BY <1>3, ConcatProperties
  <2>2. w[n + j] = w[(n + j) - 1] \o Substitute(t[j], values)
    BY <1>4, <2>1, Zenon DEF Splices
  <2>3. v[j] = v[j - 1] \o Substitute(t[j], values) /\ v[j - 1] \in Seq(Piece)
    BY <1>2, <2>1, Zenon DEF Splices
  <2>4. Substitute(t[j], values) \in Seq(Piece)
    BY <2>1, SubstituteFacts
  <2>5. w[n + j] = (u[n] \o v[j - 1]) \o Substitute(t[j], values)
    BY <2>1, <2>2, Zenon
  <2>6. (u[n] \o v[j - 1]) \o Substitute(t[j], values)
          = u[n] \o (v[j - 1] \o Substitute(t[j], values))
    <3>2. u[n] \in Seq(Piece) /\ v[j - 1] \in Seq(Piece)
      BY <1>6, <2>3
    <3> QED
      BY <2>4, <3>2, Associative, Zenon
  <2> QED
    BY <2>3, <2>5, <2>6, Zenon
<1> HIDE DEF T
<1>9. Len(t) \in T
  BY <1>3, <1>7, <1>8, Induction, Len(t) \in 0 .. Len(t), Zenon
<1> QED
  BY <1>1, <1>2, <1>3, <1>4, <1>9 DEF T, Splices

\* Substituting in one piece.
LEMMA InterpolateOne ==
    ASSUME NEW p \in Piece, NEW values, IsMap(values)
    PROVE  Interpolate(<<p>>, values) = Substitute(p, values)
<1> DEFINE text == <<p>>
<1>1. text \in Seq(Piece) /\ Len(text) = 1 /\ text[1] = p
  OBVIOUS
<1> HIDE DEF text
<1>2. PICK u : Splices(u, text, values)
  BY <1>1, Splicing
<1>3. u[1] = u[1 - 1] \o Substitute(p, values) /\ u[0] = << >> /\ u[1] = Interpolate(text, values)
  BY <1>1, <1>2 DEF Splices
<1>4. u[1] = Substitute(p, values)
  BY <1>3, SubstituteFacts, ConcatEmptySeq, 1 - 1 = 0
<1> QED
  BY <1>3, <1>4 DEF text

\* Substituting early, with values that come to those of final, makes no
\* difference in the end.
LEMMA InterpolateTwice ==
    ASSUME NEW text \in Seq(Piece), NEW values, IsMap(values), NEW final, IsMap(final),
           Refs(text) \subseteq DOMAIN values, Refs(text) \subseteq DOMAIN final,
           \A k \in Refs(text) : Interpolate(values[k], final) = final[k]
    PROVE  Interpolate(Interpolate(text, values), final) = Interpolate(text, final)
<1>1. PICK u : Splices(u, text, values)
  BY Splicing
<1>2. PICK v : Splices(v, text, final)
  BY Splicing
<1>3. Len(text) \in Nat /\ DOMAIN text = 1 .. Len(text)
  OBVIOUS
<1>4. \A i \in 1 .. Len(text) :
          Interpolate(Substitute(text[i], values), final) = Substitute(text[i], final)
  <2> SUFFICES ASSUME NEW i \in 1 .. Len(text)
               PROVE  Interpolate(Substitute(text[i], values), final)
                        = Substitute(text[i], final)
    OBVIOUS
  <2>1. CASE text[i][1] = "ref"
    <3> DEFINE k == text[i][2]
    <3>1. k \in Refs(text)
      BY <1>3, <2>1 DEF Refs
    <3>2. /\ Substitute(text[i], values) = Str(values[k])
          /\ Substitute(text[i], final) = Str(final[k])
          /\ values[k] \in Value /\ final[k] \in Value
      BY <2>1, <3>1 DEF Substitute, IsMap
    <3>3. Interpolate(values[k], final) = final[k]
      BY <3>1
    <3> HIDE DEF k
    <3>4. CASE values[k] = Unset
      <4>1. final[k] = Unset
        BY <3>3, <3>4, UnsetFacts, InterpolatePlain
      <4>2. Str(Unset) \in Value /\ Refs(Str(Unset)) = {}
        BY UnsetFacts, StrFacts DEF Value
      <4> QED
        BY <3>2, <3>4, <4>1, <4>2, InterpolatePlain
    <3>5. CASE values[k] \in Seq(Piece)
      <4>1. final[k] \in Seq(Piece)
        BY <3>3, <3>5, InterpolateType
      <4> QED
        BY <3>2, <3>3, <3>5, <4>1, StrFacts
    <3> QED
      BY <3>2, <3>4, <3>5 DEF Value
  <2>2. CASE text[i][1] # "ref"
    <3>1. /\ Substitute(text[i], values) = <<text[i]>>
          /\ Substitute(text[i], final) = <<text[i]>> /\ text[i] \in Piece
      BY <2>2 DEF Substitute
    <3> QED
      BY <3>1, InterpolateOne
  <2> QED
    BY <2>1, <2>2
<1> DEFINE T == {i \in 0 .. Len(text) : Interpolate(u[i], final) = v[i]}
<1>5. 0 \in T
  <2>1. << >> \in Value /\ Refs(<< >>) = {}
    BY DEF Refs, Value
  <2>2. Interpolate(<< >>, final) = << >>
    BY <2>1, InterpolatePlain
  <2>3. u[0] = << >> /\ v[0] = << >>
    BY <1>1, <1>2, Zenon DEF Splices
  <2> QED
    BY <1>3, <2>2, <2>3
<1>6. \A i \in 1 .. Len(text) : i - 1 \in T => i \in T
  <2> SUFFICES ASSUME NEW i \in 1 .. Len(text), Interpolate(u[i - 1], final) = v[i - 1]
               PROVE  Interpolate(u[i], final) = v[i]
    BY <1>3
  <2>1. i - 1 \in 0 .. Len(text) /\ text[i] \in Piece
    BY <1>3
  <2>2. u[i - 1] \in Seq(Piece) /\ u[i] = u[i - 1] \o Substitute(text[i], values)
    BY <1>1, <2>1, Zenon DEF Splices
  <2>3. v[i] = v[i - 1] \o Substitute(text[i], final)
    BY <1>2, Zenon DEF Splices
  <2>4. Substitute(text[i], values) \in Seq(Piece)
    BY <2>1, SubstituteFacts
  <2>5. Interpolate(u[i], final)
          = Interpolate(u[i - 1], final) \o Interpolate(Substitute(text[i], values), final)
    <3>1. Interpolate(u[i - 1] \o Substitute(text[i], values), final)
            = Interpolate(u[i - 1], final) \o Interpolate(Substitute(text[i], values), final)
      BY <2>2, <2>4, InterpolateConcat
    <3> QED
      BY <2>2, <3>1, Zenon
  <2> QED
    BY <1>4, <2>3, <2>5
<1> HIDE DEF T
<1>7. Len(text) \in T
  BY <1>3, <1>5, <1>6, Induction, Len(text) \in 0 .. Len(text), Zenon
<1> QED
  BY <1>1, <1>2, <1>7 DEF T, Splices

-----------------------------------------------------------------------------
(* Maps *)

\* Maps laid over each other.
LEMMA Merged ==
    ASSUME NEW f, NEW g
    PROVE  /\ DOMAIN (f ++ g) = DOMAIN f \cup DOMAIN g
           /\ \A k \in DOMAIN f : (f ++ g)[k] = f[k]
           /\ \A k \in DOMAIN g \ DOMAIN f : (f ++ g)[k] = g[k]
BY DEF ++

LEMMA SingleEntry ==
    ASSUME NEW k, NEW v
    PROVE  DOMAIN Entry(k, v) = {k} /\ Entry(k, v)[k] = v
BY DEF Entry

LEMMA Restricted ==
    ASSUME NEW f, NEW S
    PROVE  DOMAIN Restrict(f, S) = S /\ \A k \in S : Restrict(f, S)[k] = f[k]
BY DEF Restrict

LEMMA MergedMap ==
    ASSUME NEW f, NEW g, IsMap(f), IsMap(g)
    PROVE  /\ IsMap(f ++ g) /\ DOMAIN (f ++ g) = DOMAIN f \cup DOMAIN g
           /\ \A k \in DOMAIN f : (f ++ g)[k] = f[k]
           /\ \A k \in DOMAIN g \ DOMAIN f : (f ++ g)[k] = g[k]
<1>1. DOMAIN (f ++ g) = DOMAIN f \cup DOMAIN g
  BY Merged
<1>2. f ++ g \in [DOMAIN f \cup DOMAIN g -> Value]
  BY DEF ++, IsMap
<1>3. IsMap(f ++ g)
  BY <1>1, <1>2 DEF IsMap
<1> QED
  BY <1>3, Merged

LEMMA EntryMap ==
    ASSUME NEW k \in Key, NEW v \in Value
    PROVE  IsMap(Entry(k, v))
BY DEF Entry, IsMap

LEMMA RestrictedMap ==
    ASSUME NEW f, IsMap(f), NEW S, S \subseteq DOMAIN f
    PROVE  IsMap(Restrict(f, S))
BY DEF Restrict, IsMap

LEMMA EmptyMap == IsMap(Empty) /\ DOMAIN Empty = {}
BY DEF Empty, IsMap

\* The order of substitution reaches every key.
LEMMA KeyOrderFacts ==
    /\ Len(KeyOrder) \in Nat
    /\ \A i \in 1 .. Len(KeyOrder) : KeyOrder[i] \in Key
    /\ \A k \in Key : \E i \in 1 .. Len(KeyOrder) : KeyOrder[i] = k
<1> DEFINE s == <<"domain">> \o FieldOrder
<1>1. /\ FieldOrder \in Seq(Key) /\ DOMAIN FieldOrder = 1 .. Len(FieldOrder)
      /\ Len(FieldOrder) \in Nat
  BY ConfigAssumption DEF Key
<1>2. <<"domain">> \in Seq(Key) /\ <<"domain_dn">> \in Seq(Key)
  BY DEF Key
<1>3. /\ s \in Seq(Key) /\ Len(s) = 1 + Len(FieldOrder) /\ s[1] = "domain"
      /\ \A i \in 1 .. Len(FieldOrder) : s[i + 1] = FieldOrder[i]
  BY <1>1, <1>2
<1> HIDE DEF s
<1>4. /\ KeyOrder \in Seq(Key) /\ Len(KeyOrder) = 2 + Len(FieldOrder)
      /\ \A i \in 1 .. Len(s) : KeyOrder[i] = s[i]
      /\ KeyOrder[2 + Len(FieldOrder)] = "domain_dn"
  <2>1. KeyOrder = s \o <<"domain_dn">>
    BY DEF KeyOrder, s
  <2> QED
    BY <1>1, <1>2, <1>3, <2>1
<1>5. \A f \in Field : \E i \in 1 .. Len(FieldOrder) : FieldOrder[i] = f
  <2>1. DOMAIN FieldOrder = 1 .. Len(FieldOrder)
    BY <1>1
  <2>2. Field = {FieldOrder[i] : i \in 1 .. Len(FieldOrder)}
    BY <2>1, Zenon DEF Field, ToSet
  <2> QED
    BY ONLY <2>2
<1>6. \A f \in Field : \E i \in 1 .. Len(KeyOrder) : KeyOrder[i] = f
  <2> TAKE f \in Field
  <2>1. PICK i \in 1 .. Len(FieldOrder) : FieldOrder[i] = f
    BY <1>5
  <2>2. i + 1 \in 1 .. Len(s) /\ i + 1 \in 1 .. Len(KeyOrder)
    BY <1>1, <1>3, <1>4
  <2>3. KeyOrder[i + 1] = f
    BY <1>3, <1>4, <2>1, <2>2
  <2> QED
    BY <2>2, <2>3
<1>7. 1 \in 1 .. Len(KeyOrder) /\ KeyOrder[1] = "domain"
  BY <1>1, <1>3, <1>4
<1>8. 2 + Len(FieldOrder) \in 1 .. Len(KeyOrder) /\ KeyOrder[2 + Len(FieldOrder)] = "domain_dn"
  BY <1>1, <1>4
<1>9. Len(KeyOrder) \in Nat /\ \A i \in 1 .. Len(KeyOrder) : KeyOrder[i] \in Key
  BY <1>4
<1> QED
  BY <1>6, <1>7, <1>8, <1>9 DEF Key

\* One key is substituted and the others stay.
LEMMA InterpolateKeyType ==
    ASSUME NEW values, IsMap(values), NEW k
    PROVE  /\ InterpolateKey(values, k) \in [DOMAIN values -> Value]
           /\ DOMAIN InterpolateKey(values, k) = DOMAIN values
           /\ IsMap(InterpolateKey(values, k))
           /\ \A j \in DOMAIN values : j # k => InterpolateKey(values, k)[j] = values[j]
           /\ k \in DOMAIN values /\ HasRef(values[k]) =>
                 InterpolateKey(values, k)[k] = Interpolate(values[k], values)
<1>1. CASE k \in DOMAIN values /\ HasRef(values[k])
  <2>1. values[k] \in Value /\ values[k] # Unset
    BY <1>1, UnsetFacts DEF IsMap, HasRef
  <2>2. Interpolate(values[k], values) \in Seq(Piece)
    BY <2>1, InterpolateType DEF Value
  <2>3. InterpolateKey(values, k) = [values EXCEPT ![k] = Interpolate(values[k], values)]
    BY <1>1 DEF InterpolateKey
  <2> DEFINE t == Interpolate(values[k], values)
  <2>4. t \in Value
    BY <2>2 DEF Value
  <2> HIDE DEF t
  <2> QED
    BY <1>1, <2>3, <2>4 DEF IsMap, t
<1>2. CASE ~ (k \in DOMAIN values /\ HasRef(values[k]))
  BY <1>2 DEF InterpolateKey, IsMap
<1> QED
  BY <1>1, <1>2

\* The maps that a pass goes through.
Passes(u, values) ==
    /\ u \in [0 .. Len(KeyOrder) -> [DOMAIN values -> Value]]
    /\ u[0] = values
    /\ \A i \in 1 .. Len(KeyOrder) : u[i] = InterpolateKey(u[i - 1], KeyOrder[i])

\* The steps of a pass.
LEMMA Passing ==
    ASSUME NEW values, IsMap(values), \E k \in DOMAIN values : HasRef(values[k])
    PROVE  \E u : Passes(u, values) /\ u[Len(KeyOrder)] = Pass(values)
<1> DEFINE n == Len(KeyOrder)
           A == [DOMAIN values -> Value]
           step == [i \in 1 .. n |-> [v \in A |-> InterpolateKey(v, KeyOrder[i])]]
           Fixed(f) == f = [i \in 0 .. n |-> IF i = 0 THEN values
                                              ELSE InterpolateKey(f[i - 1], KeyOrder[i])]
           upTo == CHOOSE f : Fixed(f)
<1>1. n \in Nat
  BY KeyOrderFacts
<1>2. \A v \in A : IsMap(v) /\ DOMAIN v = DOMAIN values
  BY DEF IsMap
<1>3. \A v \in A : \A k : InterpolateKey(v, k) \in A
  BY <1>2, InterpolateKeyType
<1>4. values \in A
  BY DEF IsMap
<1>5. step \in [1 .. n -> [A -> A]]
  <2> HIDE DEF A, n
  <2> QED
    BY <1>3
<1>6. \A i \in 1 .. n : \A v \in A : step[i][v] = InterpolateKey(v, KeyOrder[i])
  <2> HIDE DEF A, n
  <2> QED
    OBVIOUS
<1> HIDE DEF n, A, step
<1>7. PICK u \in [0 .. n -> A] : Iterates(u, n, values, step)
  BY <1>1, <1>4, <1>5, Iteration, Zenon
<1>8. \A i \in 1 .. n : u[i - 1] \in A /\ u[i] = InterpolateKey(u[i - 1], KeyOrder[i])
  <2> SUFFICES ASSUME NEW i \in 1 .. n
               PROVE  u[i - 1] \in A /\ u[i] = InterpolateKey(u[i - 1], KeyOrder[i])
    OBVIOUS
  <2>1. i - 1 \in 0 .. n
    BY <1>1
  <2>2. u[i - 1] \in A
    BY <2>1
  <2>3. u[i] = step[i][u[i - 1]]
    BY <1>7 DEF Iterates
  <2> QED
    BY <1>6, <2>2, <2>3
<1>9. u[0] = values
  BY <1>7 DEF Iterates
<1>10. Fixed(u)
  BY <1>1, <1>8, <1>9
<1>11. Fixed(upTo)
  <2> HIDE DEF Fixed
  <2> QED
    BY <1>10
<1>12. Pass(values) = upTo[n]
  <2>1. ~ \A k \in DOMAIN values : ~ HasRef(values[k])
    OBVIOUS
  <2> QED
    BY <2>1, Zenon DEF Pass, n
<1>13. upTo[n] = u[n]
  <2> HIDE DEF upTo
  <2> DEFINE T == {i \in 0 .. n : upTo[i] = u[i]}
  <2>1. 0 \in T
    BY <1>1, <1>9, <1>11
  <2>2. \A i \in 1 .. n : i - 1 \in T => i \in T
    <3> TAKE i \in 1 .. n
    <3>1. i \in 0 .. n /\ i # 0
      BY <1>1
    <3>2. upTo[i] = InterpolateKey(upTo[i - 1], KeyOrder[i])
      BY <1>11, <3>1
    <3> QED
      BY <1>8, <3>1, <3>2
  <2> HIDE DEF T
  <2>3. n \in T
    BY <1>1, <2>1, <2>2, Induction, n \in 0 .. n, Zenon
  <2> QED
    BY <2>3 DEF T
<1> QED
  BY <1>7, <1>8, <1>9, <1>12, <1>13 DEF Passes, n, A

\* A pass keeps the keys of the map.
LEMMA PassType ==
    ASSUME NEW values, IsMap(values)
    PROVE  IsMap(Pass(values)) /\ DOMAIN Pass(values) = DOMAIN values
<1>1. CASE \A k \in DOMAIN values : ~ HasRef(values[k])
  BY <1>1, Zenon DEF Pass
<1>2. CASE \E k \in DOMAIN values : HasRef(values[k])
  <2>1. PICK u : Passes(u, values) /\ u[Len(KeyOrder)] = Pass(values)
    BY <1>2, Passing
  <2>2. Pass(values) \in [DOMAIN values -> Value]
    <3>1. Len(KeyOrder) \in 0 .. Len(KeyOrder)
      BY KeyOrderFacts
    <3> QED
      BY <2>1, <3>1, Zenon DEF Passes
  <2> QED
    BY <2>2 DEF IsMap
<1> QED
  BY <1>1, <1>2

\* The four passes, and the dn once more.
LEMMA RecursiveType ==
    ASSUME NEW values, IsMap(values)
    PROVE  /\ IsMap(RecursiveInterpolate(values))
           /\ DOMAIN RecursiveInterpolate(values) = DOMAIN values
<1> DEFINE one == Pass(values)
           two == Pass(one)
           three == Pass(two)
<1>1. IsMap(one) /\ DOMAIN one = DOMAIN values
  BY PassType
<1>2. IsMap(two) /\ DOMAIN two = DOMAIN values
  <2> HIDE DEF one
  <2> QED
    BY <1>1, PassType
<1>3. IsMap(three) /\ DOMAIN three = DOMAIN values
  <2> HIDE DEF two
  <2> QED
    BY <1>2, PassType
<1>4. IsMap(Pass(three)) /\ DOMAIN Pass(three) = DOMAIN values
  <2> HIDE DEF three
  <2> QED
    BY <1>3, PassType
<1> QED
  BY <1>4 DEF RecursiveInterpolate

\* The dn of a domain is a text that refers to nothing.
LEMMA DnType ==
    ASSUME NEW text \in Value
    PROVE  /\ DomainToDn(text) \in Seq(Piece) /\ Refs(DomainToDn(text)) = {}
           /\ text # << >> => DomainToDn(text) # << >>
<1>1. \A i \in DOMAIN text : text[i][2] \in Words
  <2>1. CASE text = Unset
    <3>1. DOMAIN text = {1} /\ text[1] = <<"none", "None">>
      BY <2>1, UnsetFacts
    <3>2. text[1][2] = "None"
      BY <3>1
    <3> QED
      BY <3>1, <3>2, ConfigAssumption
  <2>2. CASE text \in Seq(Piece)
    <3> TAKE i \in DOMAIN text
    <3>1. text[i] \in Piece
      BY <2>2
    <3> QED
      BY <3>1, PieceParts
  <2> QED
    BY <2>1, <2>2 DEF Value
<1>2. Len(text) \in Nat /\ DOMAIN text = 1 .. Len(text)
  <2>1. CASE text = Unset
    BY <2>1 DEF Unset
  <2> QED
    BY <2>1 DEF Value
<1>3. DomainToDn(text) \in [1 .. Len(text) -> Piece]
  BY <1>1, <1>2 DEF DomainToDn, Piece
<1>4. DomainToDn(text) \in Seq(Piece) /\ Len(DomainToDn(text)) = Len(text)
      /\ DOMAIN DomainToDn(text) = DOMAIN text
  BY <1>2, <1>3
<1>5. \A i \in DOMAIN text : DomainToDn(text)[i][1] = "dn"
  BY DEF DomainToDn
<1>6. Refs(DomainToDn(text)) = {}
  BY <1>4, <1>5 DEF Refs
<1>7. text # << >> => Len(text) # 0
  <2>1. CASE text = Unset
    BY <2>1 DEF Unset
  <2> QED
    BY <2>1 DEF Value
<1> QED
  BY <1>4, <1>6, <1>7

\* Settle adds the dn and keeps the other keys.
LEMMA SettleType ==
    ASSUME NEW values, IsMap(values), "domain" \in DOMAIN values
    PROVE  IsMap(Settle(values)) /\ DOMAIN Settle(values) = DOMAIN values \cup {"domain_dn"}
<1> DEFINE once == RecursiveInterpolate(values)
           dn == DomainToDn(once["domain"])
           again == Entry("domain_dn", dn) ++ once
<1>1. IsMap(once) /\ DOMAIN once = DOMAIN values
  BY RecursiveType
<1> HIDE DEF once
<1>2. dn \in Value
  <2>1. once["domain"] \in Value
    BY <1>1 DEF IsMap
  <2> QED
    BY <2>1, DnType DEF Value
<1> HIDE DEF dn
<1>3. "domain_dn" \in Key
  BY DEF Key
<1>4. IsMap(again) /\ DOMAIN again = DOMAIN values \cup {"domain_dn"}
  <2>1. IsMap(Entry("domain_dn", dn)) /\ DOMAIN Entry("domain_dn", dn) = {"domain_dn"}
    BY <1>2, <1>3, EntryMap, SingleEntry
  <2> DEFINE e == Entry("domain_dn", dn)
  <2> HIDE DEF e
  <2>2. IsMap(e ++ once)
    BY <1>1, <2>1, MergedMap DEF e
  <2>3. DOMAIN (e ++ once) = DOMAIN e \cup DOMAIN once
    BY Merged
  <2> QED
    BY <1>1, <2>1, <2>2, <2>3 DEF e
<1> HIDE DEF again
<1>5. /\ IsMap(RecursiveInterpolate(again))
      /\ DOMAIN RecursiveInterpolate(again) = DOMAIN values \cup {"domain_dn"}
  BY <1>4, RecursiveType
<1> QED
  BY <1>5 DEF Settle, again, dn, once

-----------------------------------------------------------------------------
(* What four passes come to *)

\* Every text only refers to keys that have a value, of a smaller rank, by more
\* than p, and what other texts refer to is not empty.
Tidy(values, rank, p) ==
    /\ IsMap(values)
    /\ \A k \in DOMAIN values :
          /\ \A j \in Refs(values[k]) : j \in DOMAIN values \ IpField /\ rank[j] + p < rank[k]
          /\ k \notin IpField => values[k] # << >>

\* final is what values come to when everything is substituted.
ComesTo(values, final) ==
    /\ IsMap(final) /\ DOMAIN final = DOMAIN values
    /\ \A k \in DOMAIN values : Interpolate(values[k], final) = final[k]

\* Substituting one key widens its distance to what it refers to, and what the
\* texts come to stays the same.
LEMMA InterpolateKeyTidy ==
    ASSUME NEW rank \in [Key -> 0 .. 4], NEW p \in Nat, NEW values, Tidy(values, rank, p),
           NEW k \in Key
    PROVE  /\ Tidy(InterpolateKey(values, k), rank, p)
           /\ k \in DOMAIN values =>
                 \A j \in Refs(InterpolateKey(values, k)[k]) : rank[j] + (p + 1) < rank[k]
           /\ \A final : ComesTo(InterpolateKey(values, k), final) => ComesTo(values, final)
<1> DEFINE w == InterpolateKey(values, k)
<1>1. CASE ~ (k \in DOMAIN values /\ HasRef(values[k]))
  <2>1. w = values
    BY <1>1 DEF InterpolateKey
  <2>2. k \in DOMAIN values => Refs(w[k]) = {}
    BY <1>1, <2>1 DEF HasRef
  <2> QED
    BY <2>1, <2>2
<1>2. CASE k \in DOMAIN values /\ HasRef(values[k])
  <2>1. IsMap(values)
    BY DEF Tidy
  <2>2. /\ DOMAIN w = DOMAIN values /\ IsMap(w) /\ w[k] = Interpolate(values[k], values)
        /\ \A j \in DOMAIN values : j # k => w[j] = values[j]
    BY <1>2, <2>1, InterpolateKeyType
  <2> HIDE DEF w
  <2>3. values[k] \in Seq(Piece)
    BY <1>2, <2>1, UnsetFacts DEF IsMap, HasRef, Value
  <2>4. \A l \in DOMAIN values : \A j \in Refs(values[l]) :
            j \in DOMAIN values \ IpField /\ rank[j] + p < rank[l]
    BY DEF Tidy
  <2>5. \A j \in DOMAIN values : rank[j] \in Nat
    BY <2>1 DEF IsMap
  <2>6. Refs(values[k]) \subseteq DOMAIN values
    BY <1>2, <2>4
  <2>7. \A j \in Refs(w[k]) : j \in DOMAIN values \ IpField /\ rank[j] + (p + 1) < rank[k]
    <3> SUFFICES ASSUME NEW j \in Refs(w[k])
                 PROVE  j \in DOMAIN values \ IpField /\ rank[j] + (p + 1) < rank[k]
      OBVIOUS
    <3>1. PICK l \in Refs(values[k]) : j \in Refs(values[l])
      BY <2>1, <2>2, <2>3, <2>6, InterpolateRefs
    <3>2. l \in DOMAIN values /\ rank[l] + p < rank[k]
      BY <1>2, <2>4
    <3>3. j \in DOMAIN values \ IpField /\ rank[j] + p < rank[l]
      BY <2>4, <3>1, <3>2
    <3>4. rank[j] \in Nat /\ rank[l] \in Nat /\ rank[k] \in Nat
      BY <1>2, <2>5, <3>2, <3>3
    <3> QED
      BY <3>2, <3>3, <3>4
  <2>8. k \notin IpField => w[k] # << >>
    <3>1. \A j \in Refs(values[k]) : j \in DOMAIN values /\ values[j] # << >>
      BY <1>2, <2>4 DEF Tidy
    <3>2. k \notin IpField => values[k] # << >> /\ values[k] \in Value
      BY <1>2, <2>3 DEF Tidy, Value
    <3> QED
      BY <2>1, <2>2, <3>1, <3>2, InterpolateNonempty
  <2>9. Tidy(w, rank, p)
    <3> SUFFICES ASSUME NEW l \in DOMAIN values
                 PROVE  /\ \A j \in Refs(w[l]) :
                              j \in DOMAIN values \ IpField /\ rank[j] + p < rank[l]
                        /\ l \notin IpField => w[l] # << >>
      BY <2>2 DEF Tidy
    <3>1. CASE l = k
      BY <1>2, <2>5, <2>7, <2>8, <3>1
    <3>2. CASE l # k
      BY <2>2, <2>4, <3>2 DEF Tidy
    <3> QED
      BY <3>1, <3>2
  <2>10. ASSUME NEW final, ComesTo(w, final) PROVE ComesTo(values, final)
    <3>1. /\ IsMap(final) /\ DOMAIN final = DOMAIN values
          /\ \A l \in DOMAIN values : Interpolate(w[l], final) = final[l]
      BY <2>2, <2>10 DEF ComesTo
    <3>2. \A l \in DOMAIN values : l # k => Interpolate(values[l], final) = final[l]
      BY <2>2, <3>1
    <3>3. \A j \in Refs(values[k]) : j \in DOMAIN values /\ j # k
      BY <1>2, <2>4, <2>5
    <3>4. \A j \in Refs(values[k]) : Interpolate(values[j], final) = final[j]
      BY <3>2, <3>3
    <3>5. Interpolate(Interpolate(values[k], values), final) = Interpolate(values[k], final)
      BY <2>1, <2>3, <2>6, <3>1, <3>4, InterpolateTwice
    <3>6. Interpolate(values[k], final) = final[k]
      BY <1>2, <2>2, <3>1, <3>5
    <3> QED
      BY <3>1, <3>2, <3>6 DEF ComesTo
  <2> QED
    BY <2>7, <2>9, <2>10 DEF w
<1> QED
  BY <1>1, <1>2

\* A pass widens the distance between a key and what it refers to.
LEMMA PassTidy ==
    ASSUME NEW rank \in [Key -> 0 .. 4], NEW p \in Nat, NEW values, Tidy(values, rank, p)
    PROVE  /\ Tidy(Pass(values), rank, p + 1)
           /\ \A final : ComesTo(Pass(values), final) => ComesTo(values, final)
<1>1. CASE \A k \in DOMAIN values : ~ HasRef(values[k])
  <2>1. Pass(values) = values
    BY <1>1, Zenon DEF Pass
  <2>2. Tidy(values, rank, p + 1)
    BY <1>1 DEF Tidy, HasRef
  <2> QED
    BY <2>1, <2>2
<1>2. CASE \E k \in DOMAIN values : HasRef(values[k])
  <2> DEFINE n == Len(KeyOrder)
             wide(w, k) == k \in DOMAIN values =>
                               \A j \in Refs(w[k]) : rank[j] + (p + 1) < rank[k]
             Good(w, i) == /\ Tidy(w, rank, p)
                           /\ \A l \in 1 .. i : wide(w, KeyOrder[l])
                           /\ \A final : ComesTo(w, final) => ComesTo(values, final)
  <2>1. n \in Nat /\ \A i \in 1 .. n : KeyOrder[i] \in Key
    BY KeyOrderFacts
  <2>2. PICK u : Passes(u, values) /\ u[n] = Pass(values)
    BY <1>2, Passing DEF Tidy
  <2>3. \A i \in 0 .. n : DOMAIN u[i] = DOMAIN values
    BY <2>2 DEF Passes
  <2>4. \A i \in 1 .. n : u[i] = InterpolateKey(u[i - 1], KeyOrder[i])
    BY <2>2 DEF Passes
  <2> DEFINE T == {i \in 0 .. n : Good(u[i], i)}
  <2>5. 0 \in T
    <3>1. u[0] = values
      BY <2>2 DEF Passes
    <3> QED
      BY <2>1, <3>1
  <2>6. ASSUME NEW i \in 1 .. n, i - 1 \in T PROVE i \in T
    <3> DEFINE v == u[i - 1]
               w == u[i]
               k == KeyOrder[i]
    <3>1. k \in Key /\ w = InterpolateKey(v, k) /\ DOMAIN v = DOMAIN values
          /\ i \in 0 .. n
      BY <2>1, <2>3, <2>4
    <3>2. Good(v, i - 1)
      BY <2>6
    <3> HIDE DEF k, v, w
    <3>3. /\ Tidy(w, rank, p) /\ wide(w, k)
          /\ \A final : ComesTo(w, final) => ComesTo(v, final)
      BY <3>1, <3>2, InterpolateKeyTidy
    <3>4. \A j \in DOMAIN v : j # k => w[j] = v[j]
      BY <3>1, <3>2, InterpolateKeyType DEF Tidy
    <3>5. ASSUME NEW l \in 1 .. i PROVE wide(w, KeyOrder[l])
      <4>1. CASE KeyOrder[l] = k
        BY <3>3, <4>1
      <4>2. CASE KeyOrder[l] # k
        <5>1. l \in 1 .. i - 1
          BY <4>2 DEF k
        <5> QED
          BY <3>1, <3>2, <3>4, <4>2, <5>1
      <4> QED
        BY <4>1, <4>2
    <3>6. Good(w, i)
      BY <3>2, <3>3, <3>5
    <3> HIDE DEF Good
    <3> QED
      BY <3>1, <3>6 DEF w
  <2>7. \A i \in 1 .. n : i - 1 \in T => i \in T
    BY <2>6
  <2> HIDE DEF T, n
  <2>8. n \in T
    BY <2>1, <2>5, <2>7, Induction, n \in 0 .. n, Zenon
  <2>9. Good(Pass(values), n)
    BY <2>2, <2>8 DEF T
  <2> DEFINE S == Pass(values)
  <2>10. DOMAIN S = DOMAIN values
    BY PassType DEF Tidy
  <2> HIDE DEF S
  <2>11. Good(S, n)
    BY <2>9 DEF S
  <2>12. Tidy(S, rank, p + 1)
    <3> SUFFICES ASSUME NEW k \in DOMAIN S
                 PROVE  \A j \in Refs(S[k]) : rank[j] + (p + 1) < rank[k]
      BY <2>11 DEF Tidy
    <3>1. k \in Key
      BY <2>11 DEF Tidy, IsMap
    <3>2. PICK i \in 1 .. n : KeyOrder[i] = k
      BY <3>1, KeyOrderFacts DEF n
    <3>3. wide(S, KeyOrder[i])
      BY <2>11, <3>2, Zenon
    <3> QED
      BY <2>10, <3>2, <3>3
  <2> QED
    BY <2>11, <2>12 DEF S
<1> QED
  BY <1>1, <1>2

\* Four passes resolve every text, to the solution of all the texts.
LEMMA Resolution ==
    ASSUME NEW rank \in [Key -> 0 .. 4], NEW values, Tidy(values, rank, 0)
    PROVE  LET final == RecursiveInterpolate(values)
           IN  /\ IsMap(final) /\ DOMAIN final = DOMAIN values
               /\ \A k \in DOMAIN values :
                     /\ Refs(final[k]) = {} /\ (k \notin IpField => final[k] # << >>)
                     /\ final[k] = Interpolate(values[k], final)
                     /\ Refs(values[k]) = {} => final[k] = values[k]
<1> DEFINE one == Pass(values)
           two == Pass(one)
           three == Pass(two)
           final == Pass(three)
<1>1. Tidy(one, rank, 1) /\ \A f : ComesTo(one, f) => ComesTo(values, f)
  BY PassTidy, 0 + 1 = 1
<1> HIDE DEF one
<1>2. Tidy(two, rank, 2) /\ \A f : ComesTo(two, f) => ComesTo(one, f)
  BY <1>1, PassTidy, 1 + 1 = 2
<1> HIDE DEF two
<1>3. Tidy(three, rank, 3) /\ \A f : ComesTo(three, f) => ComesTo(two, f)
  BY <1>2, PassTidy, 2 + 1 = 3
<1> HIDE DEF three
<1>4. Tidy(final, rank, 4) /\ \A f : ComesTo(final, f) => ComesTo(three, f)
  BY <1>3, PassTidy, 3 + 1 = 4
<1>5. final = RecursiveInterpolate(values)
  BY Zenon DEF one, two, three, RecursiveInterpolate
<1> HIDE DEF final
<1>6. IsMap(final) /\ DOMAIN final = DOMAIN values
  BY <1>5, RecursiveType DEF Tidy
<1>7. \A k \in DOMAIN final : Refs(final[k]) = {}
  <2> SUFFICES ASSUME NEW k \in DOMAIN final, NEW j \in Refs(final[k]) PROVE FALSE
    OBVIOUS
  <2>1. j \in DOMAIN final /\ rank[j] + 4 < rank[k]
    BY <1>4 DEF Tidy
  <2>2. rank[j] \in 0 .. 4 /\ rank[k] \in 0 .. 4
    BY <1>6, <2>1 DEF IsMap
  <2> QED
    BY <2>1, <2>2
<1>8. ComesTo(final, final)
  <2>1. \A k \in DOMAIN final : final[k] \in Value
    BY <1>6 DEF IsMap
  <2> QED
    BY <1>6, <1>7, <2>1, InterpolatePlain DEF ComesTo
<1>9. ComesTo(values, final)
  BY <1>1, <1>2, <1>3, <1>4, <1>8
<1>10. \A k \in DOMAIN values : Refs(values[k]) = {} => final[k] = values[k]
  <2>1. \A k \in DOMAIN values : values[k] \in Value
    BY DEF Tidy, IsMap
  <2> QED
    BY <1>6, <1>9, <2>1, InterpolatePlain DEF ComesTo
<1>11. \A k \in DOMAIN values : k \notin IpField => final[k] # << >>
  BY <1>4, <1>6 DEF Tidy
<1>12. \A k \in DOMAIN values : final[k] = Interpolate(values[k], final)
  BY <1>9 DEF ComesTo
<1> QED
  BY <1>5, <1>6, <1>7, <1>10, <1>11, <1>12

\* The second round changes nothing if the domain refers to nothing and the dn
\* is the one of the domain.
LEMMA Settling ==
    ASSUME NEW rank \in [Key -> 0 .. 4], NEW values, Tidy(values, rank, 0),
           "domain" \in DOMAIN values, Refs(values["domain"]) = {},
           "domain_dn" \in DOMAIN values,
           values["domain_dn"] = DomainToDn(values["domain"])
    PROVE  Settle(values) = RecursiveInterpolate(values)
<1> DEFINE once == RecursiveInterpolate(values)
           again == Entry("domain_dn", DomainToDn(once["domain"])) ++ once
<1>1. /\ IsMap(once) /\ DOMAIN once = DOMAIN values
      /\ \A k \in DOMAIN values : /\ Refs(once[k]) = {}
                                  /\ Refs(values[k]) = {} => once[k] = values[k]
  BY Resolution
<1> HIDE DEF once
<1>2. values["domain"] \in Value
  BY DEF Tidy, IsMap
<1>3. once["domain"] = values["domain"] /\ once["domain_dn"] = DomainToDn(values["domain"])
  BY <1>1, <1>2, DnType
<1>4. again = once
  <2>1. DOMAIN Entry("domain_dn", DomainToDn(once["domain"])) = {"domain_dn"}
        /\ Entry("domain_dn", DomainToDn(once["domain"]))["domain_dn"] = once["domain_dn"]
    BY <1>3, SingleEntry
  <2> DEFINE e == Entry("domain_dn", DomainToDn(once["domain"]))
  <2> HIDE DEF e
  <2>2. DOMAIN e = {"domain_dn"} /\ e["domain_dn"] = once["domain_dn"]
    BY <2>1 DEF e
  <2>3. e ++ once = [k \in DOMAIN once |-> once[k]]
    BY <1>1, <2>2 DEF ++
  <2>4. once = [k \in DOMAIN once |-> once[k]]
    BY <1>1 DEF IsMap
  <2> QED
    BY <2>3, <2>4 DEF e
<1>5. Pass(once) = once
  BY <1>1, Zenon DEF Pass, HasRef
<1>6. RecursiveInterpolate(once) = once
  BY <1>5, Zenon DEF RecursiveInterpolate
<1> QED
  BY <1>4, <1>6, Zenon DEF Settle, once

\* InterpolateAgrees, for a value that may be missing.
LEMMA AgreeingValue ==
    ASSUME NEW v \in Value, NEW one, NEW two, IsMap(one), IsMap(two),
           \A k \in Refs(v) : k \in DOMAIN one /\ k \in DOMAIN two /\ one[k] = two[k]
    PROVE  Interpolate(v, one) = Interpolate(v, two)
<1>1. CASE v = Unset
  BY <1>1, UnsetFacts, InterpolatePlain
<1>2. CASE v \in Seq(Piece)
  BY <1>2, InterpolateAgrees
<1> QED
  BY <1>1, <1>2 DEF Value

\* The keys and the fields.
LEMMA FieldFacts ==
    /\ Field \subseteq Key /\ "domain" \in Key /\ "domain_dn" \in Key
    /\ IpField \subseteq Field
    /\ \A k \in Key : k \in Field \/ k = "domain" \/ k = "domain_dn"
<1>1. IpField \subseteq Field
  BY ConfigAssumption
<1> QED
  BY <1>1, Zenon DEF Key

LEMMA ReleaseFacts ==
    ASSUME NEW m \in Manifests
    PROVE  /\ m.domain \in Value /\ m.default \in [Field -> Value]
           /\ m.derived \in [Field -> {"yes", "no", "auto"}]
<1>1. m.domain \in Seq(Piece) /\ m.default \in [Field -> Value]
      /\ m.derived \in [Field -> {"yes", "no", "auto"}]
  BY ConfigAssumption
<1> QED
  BY <1>1 DEF Value

-----------------------------------------------------------------------------
(* The layers *)

\* Where the value of a key comes from.
LEMMA MergeFacts ==
    ASSUME NEW m \in Manifests, NEW cached, IsMap(cached), NEW lines, IsMap(lines)
    PROVE  LET merged == Merge(m, cached, lines)
               counts(f) == f \in DOMAIN cached /\ (f = "domain" \/ ~ IsDerived(m, f))
           IN  /\ IsMap(merged) /\ DOMAIN merged \subseteq Field \cup {"domain"}
               /\ "domain" \in DOMAIN merged
               /\ \A f \in Field \cup {"domain"} :
                     /\ f \in DOMAIN lines => f \in DOMAIN merged /\ merged[f] = lines[f]
                     /\ f \notin DOMAIN lines /\ counts(f)
                          => f \in DOMAIN merged /\ merged[f] = cached[f]
                     /\ f \notin DOMAIN lines /\ ~ counts(f) /\ f \in Field
                        /\ m.default[f] # Unset
                          => f \in DOMAIN merged /\ merged[f] = m.default[f]
                     /\ f \notin DOMAIN lines /\ ~ counts(f) /\ f # "domain"
                        /\ m.default[f] = Unset
                          => f \notin DOMAIN merged
               /\ \/ "domain" \in DOMAIN lines \cup DOMAIN cached
                  \/ "domain" \in Field /\ m.default["domain"] # Unset
                  \/ merged["domain"] = m.domain
<1> DEFINE bottom == Entry("domain", m.domain)
           defaults == Defaults(m)
           kept == Cached(m, cached)
           top == Overrides(lines)
           one == top ++ kept
           two == one ++ defaults
           merged == two ++ bottom
<1>1. /\ m.domain \in Value /\ m.default \in [Field -> Value]
      /\ Field \subseteq Key /\ "domain" \in Key
  BY ReleaseFacts, FieldFacts
<1>2. IsMap(bottom) /\ DOMAIN bottom = {"domain"} /\ bottom["domain"] = m.domain
  BY <1>1, EntryMap, SingleEntry
<1>3. /\ IsMap(defaults) /\ DOMAIN defaults = {f \in Field : m.default[f] # Unset}
      /\ \A f \in DOMAIN defaults : defaults[f] = m.default[f]
  <2>1. IsMap(m.default) /\ {f \in Field : m.default[f] # Unset} \subseteq DOMAIN m.default
    BY <1>1 DEF IsMap
  <2> QED
    BY <2>1, RestrictedMap, Restricted DEF Defaults
<1>4. /\ IsMap(kept)
      /\ DOMAIN kept = {k \in DOMAIN cached : k = "domain" \/ (k \in Field /\ ~ IsDerived(m, k))}
      /\ \A f \in DOMAIN kept : kept[f] = cached[f]
  BY RestrictedMap, Restricted DEF Cached
<1>5. /\ IsMap(top) /\ DOMAIN top = DOMAIN lines \cap (Field \cup {"domain"})
      /\ \A f \in DOMAIN top : top[f] = lines[f]
  BY RestrictedMap, Restricted DEF Overrides
<1> HIDE DEF bottom, defaults, kept, top
<1>6. /\ IsMap(one) /\ DOMAIN one = DOMAIN top \cup DOMAIN kept
      /\ \A f \in DOMAIN top : one[f] = top[f]
      /\ \A f \in DOMAIN kept \ DOMAIN top : one[f] = kept[f]
  BY <1>4, <1>5, MergedMap
<1> HIDE DEF one
<1>7. /\ IsMap(two) /\ DOMAIN two = DOMAIN one \cup DOMAIN defaults
      /\ \A f \in DOMAIN one : two[f] = one[f]
      /\ \A f \in DOMAIN defaults \ DOMAIN one : two[f] = defaults[f]
  <2>1. IsMap(one) /\ IsMap(defaults)
    BY <1>3, <1>6
  <2> QED
    BY ONLY <2>1, MergedMap
<1> HIDE DEF two
<1>8. /\ IsMap(merged) /\ DOMAIN merged = DOMAIN two \cup DOMAIN bottom
      /\ \A f \in DOMAIN two : merged[f] = two[f]
      /\ \A f \in DOMAIN bottom \ DOMAIN two : merged[f] = bottom[f]
  <2>1. IsMap(two) /\ IsMap(bottom)
    BY <1>2, <1>7
  <2> QED
    BY ONLY <2>1, MergedMap
<1> HIDE DEF merged
<1>9. DOMAIN merged \subseteq Field \cup {"domain"} /\ "domain" \in DOMAIN merged
  <2>1. DOMAIN top \subseteq Field \cup {"domain"}
    BY <1>5
  <2>2. DOMAIN kept \subseteq Field \cup {"domain"}
    BY <1>4
  <2>3. DOMAIN defaults \subseteq Field
    BY <1>3
  <2> QED
    BY <1>2, <1>6, <1>7, <1>8, <2>1, <2>2, <2>3
<1>10. \A f \in DOMAIN top : f \in DOMAIN merged /\ merged[f] = top[f]
  BY <1>6, <1>7, <1>8
<1>11. \A f \in DOMAIN kept \ DOMAIN top : f \in DOMAIN merged /\ merged[f] = kept[f]
  BY <1>6, <1>7, <1>8
<1>12. \A f \in DOMAIN defaults \ (DOMAIN kept \cup DOMAIN top) :
           f \in DOMAIN merged /\ merged[f] = defaults[f]
  BY <1>6, <1>7, <1>8
<1>13. \A f : f \notin DOMAIN top \cup DOMAIN kept \cup DOMAIN defaults \cup {"domain"}
           => f \notin DOMAIN merged
  BY <1>2, <1>6, <1>7, <1>8
<1>14. "domain" \notin DOMAIN top \cup DOMAIN kept \cup DOMAIN defaults
           => merged["domain"] = m.domain
  BY <1>2, <1>6, <1>7, <1>8
<1> DEFINE counts(f) == f \in DOMAIN cached /\ (f = "domain" \/ ~ IsDerived(m, f))
<1>15. \A f \in Field \cup {"domain"} : counts(f) <=> f \in DOMAIN kept
  BY <1>4
<1>16. \A f \in Field \cup {"domain"} : f \in DOMAIN lines <=> f \in DOMAIN top
  BY <1>5
<1>17. \A f \in Field \cup {"domain"} :
           f \in DOMAIN defaults <=> f \in Field /\ m.default[f] # Unset
  BY <1>3
<1> HIDE DEF counts
<1>18. \A f \in Field \cup {"domain"} :
           /\ f \in DOMAIN lines => f \in DOMAIN merged /\ merged[f] = lines[f]
           /\ f \notin DOMAIN lines /\ counts(f)
                => f \in DOMAIN merged /\ merged[f] = cached[f]
           /\ f \notin DOMAIN lines /\ ~ counts(f) /\ f \in Field /\ m.default[f] # Unset
                => f \in DOMAIN merged /\ merged[f] = m.default[f]
           /\ f \notin DOMAIN lines /\ ~ counts(f) /\ f # "domain" /\ m.default[f] = Unset
                => f \notin DOMAIN merged
  <2> TAKE f \in Field \cup {"domain"}
  <2>1. f \in DOMAIN lines => f \in DOMAIN merged /\ merged[f] = lines[f]
    BY <1>5, <1>10, <1>16
  <2>2. f \notin DOMAIN lines /\ counts(f) => f \in DOMAIN merged /\ merged[f] = cached[f]
    BY <1>4, <1>11, <1>15, <1>16
  <2>3. f \notin DOMAIN lines /\ ~ counts(f) /\ f \in Field /\ m.default[f] # Unset
            => f \in DOMAIN merged /\ merged[f] = m.default[f]
    BY <1>3, <1>12, <1>15, <1>16, <1>17
  <2>4. f \notin DOMAIN lines /\ ~ counts(f) /\ f # "domain" /\ m.default[f] = Unset
            => f \notin DOMAIN merged
    BY <1>13, <1>15, <1>16, <1>17
  <2> QED
    BY <2>1, <2>2, <2>3, <2>4
<1>19. \/ "domain" \in DOMAIN lines \cup DOMAIN cached
       \/ "domain" \in Field /\ m.default["domain"] # Unset
       \/ merged["domain"] = m.domain
  BY <1>4, <1>14, <1>16, <1>17
<1>20. merged = Merge(m, cached, lines)
  BY Zenon DEF merged, two, one, top, kept, defaults, bottom, Merge
<1> QED
  BY <1>8, <1>9, <1>18, <1>19, <1>20, Zenon DEF counts

\* The ranks of a release, for its own texts and those of the operator's file.
Ranks(m, rank) ==
    /\ rank \in [Key -> 0 .. 4]
    /\ Fits(m, rank, "domain", m.domain)
    /\ \A f \in Field : Fits(m, rank, f, m.default[f])
    /\ \A k \in DOMAIN Writes : \A v \in Writes[k] : Fits(m, rank, k, v)

\* What the hypothesis says of one release.
LEMMA RankFacts ==
    ASSUME Resolvable, NEW m \in Manifests
    PROVE  /\ \E rank : Ranks(m, rank)
           /\ "domain_dn" \notin Field /\ "domain" \notin IpField
           /\ \A f \in Field \cap (IpField \cup {"domain"}) : ~ IsDerived(m, f)
BY DEF Resolvable, Ranks

LEMMA MentionableFacts ==
    ASSUME Resolvable, NEW m \in Manifests
    PROVE  Mentionable(m) \subseteq Key \ IpField
<1>1. "domain_dn" \notin IpField /\ "domain" \notin IpField
  BY RankFacts, FieldFacts
<1> QED
  BY <1>1, FieldFacts DEF Mentionable

LEMMA PlainFits ==
    ASSUME NEW m, NEW rank, NEW k, NEW v, Plain(k, v)
    PROVE  Fits(m, rank, k, v)
BY DEF Plain, Fits

\* The lines of a file that fits have the ranks of the release.
LEMMA LineFits ==
    ASSUME NEW m, NEW rank, Ranks(m, rank), NEW lines, LinesFit(lines), NEW k \in DOMAIN lines
    PROVE  Fits(m, rank, k, lines[k])
BY PlainFits DEF LinesFit, Ranks

\* What Settle makes of texts that fit.
LEMMA Settlement ==
    ASSUME Resolvable, NEW m \in Manifests, NEW rank, Ranks(m, rank),
           NEW values, IsMap(values), Mentionable(m) \subseteq DOMAIN values,
           \A k \in DOMAIN values : Fits(m, rank, k, values[k]),
           values["domain_dn"] = DomainToDn(values["domain"])
    PROVE  LET final == Settle(values)
           IN  /\ IsMap(final) /\ DOMAIN final = DOMAIN values
               /\ \A k \in DOMAIN values :
                     /\ Plain(k, final[k]) /\ final[k] = Interpolate(values[k], final)
                     /\ Refs(values[k]) = {} => final[k] = values[k]
<1>1. "domain" \in DOMAIN values /\ "domain_dn" \in DOMAIN values
  BY DEF Mentionable
<1>2. Refs(values["domain"]) = {}
  BY <1>1 DEF Fits
<1>3. Tidy(values, rank, 0)
  <2> SUFFICES ASSUME NEW k \in DOMAIN values
               PROVE  /\ \A j \in Refs(values[k]) :
                            j \in DOMAIN values \ IpField /\ rank[j] + 0 < rank[k]
                      /\ k \notin IpField => values[k] # << >>
    BY DEF Tidy
  <2>1. \A j \in Refs(values[k]) : j \in Mentionable(m) /\ rank[j] < rank[k]
    BY DEF Fits
  <2>2. \A j \in Mentionable(m) : rank[j] \in 0 .. 4 /\ j \in DOMAIN values \ IpField
    BY MentionableFacts DEF Ranks
  <2>3. k \notin IpField => values[k] # << >>
    BY DEF Fits
  <2>4. \A j \in Refs(values[k]) : rank[j] + 0 = rank[j]
    BY <2>1, <2>2
  <2> QED
    BY <2>1, <2>2, <2>3, <2>4
<1>4. rank \in [Key -> 0 .. 4]
  BY DEF Ranks
<1>5. Settle(values) = RecursiveInterpolate(values)
  BY <1>1, <1>2, <1>3, <1>4, Settling
<1> DEFINE final == RecursiveInterpolate(values)
<1>6. /\ IsMap(final) /\ DOMAIN final = DOMAIN values
      /\ \A k \in DOMAIN values :
            /\ Refs(final[k]) = {} /\ (k \notin IpField => final[k] # << >>)
            /\ final[k] = Interpolate(values[k], final)
            /\ Refs(values[k]) = {} => final[k] = values[k]
  BY <1>3, <1>4, Resolution
<1> QED
  BY <1>5, <1>6 DEF Plain

-----------------------------------------------------------------------------
(* The configuration of a headless run *)

LEMMA ResolveIpsType ==
    ASSUME NEW values \in [Field -> Value], node \in Addresses
    PROVE  ResolveIps(values) \in [Field -> Value]
<1>1. node \in Value
  BY ConfigAssumption DEF Value
<1> QED
  BY <1>1 DEF ResolveIps

\* The texts that the configuration is made of.
Texts(m, cached, lines) ==
    LET merged == Merge(m, cached, lines)
    IN  merged ++ Entry("domain_dn", DomainToDn(merged["domain"]))

\* The texts are the merged layers and the dn.
LEMMA TextsFacts ==
    ASSUME NEW m \in Manifests, NEW cached, IsMap(cached), NEW lines, IsMap(lines)
    PROVE  LET merged == Merge(m, cached, lines)
               texts == Texts(m, cached, lines)
           IN  /\ IsMap(texts) /\ DOMAIN texts = DOMAIN merged \cup {"domain_dn"}
               /\ \A k \in DOMAIN merged : texts[k] = merged[k]
               /\ "domain_dn" \notin DOMAIN merged
                     => texts["domain_dn"] = DomainToDn(merged["domain"])
<1> DEFINE merged == Merge(m, cached, lines)
           dn == DomainToDn(merged["domain"])
           e == Entry("domain_dn", dn)
<1>1. IsMap(merged) /\ "domain" \in DOMAIN merged
  BY MergeFacts
<1> HIDE DEF merged
<1>2. dn \in Value
  <2>1. merged["domain"] \in Value
    BY <1>1 DEF IsMap
  <2> QED
    BY <2>1, DnType DEF Value
<1> HIDE DEF dn
<1>3. IsMap(e) /\ DOMAIN e = {"domain_dn"} /\ e["domain_dn"] = dn
  BY <1>2, FieldFacts, EntryMap, SingleEntry
<1> HIDE DEF e
<1>4. /\ IsMap(merged ++ e) /\ DOMAIN (merged ++ e) = DOMAIN merged \cup DOMAIN e
      /\ \A k \in DOMAIN merged : (merged ++ e)[k] = merged[k]
      /\ \A k \in DOMAIN e \ DOMAIN merged : (merged ++ e)[k] = e[k]
  BY <1>1, <1>3, MergedMap
<1>5. Texts(m, cached, lines) = merged ++ e
  BY Zenon DEF Texts, e, dn, merged
<1> QED
  BY <1>3, <1>4, <1>5, Zenon DEF merged, dn

\* The configuration of a run has a value for every field.
LEMMA EffectiveType ==
    ASSUME NEW m \in Manifests, NEW cached, IsMap(cached), NEW lines, IsMap(lines),
           node \in Addresses
    PROVE  LET config == EffectiveConfig(m, cached, lines)
               resolved == Settle(Texts(m, cached, lines))
           IN  /\ config.values \in [Field -> Value] /\ config.domain \in Value
               /\ config.domain = resolved["domain"]
               /\ \A f \in Field \ DOMAIN resolved : config.values[f] = Unset
               /\ \A f \in Field \cap DOMAIN resolved :
                     config.values[f] = IF f \in IpField /\ resolved[f] = AutoIp THEN node
                                        ELSE resolved[f]
<1> DEFINE texts == Texts(m, cached, lines)
           resolved == Settle(texts)
           value(f) == IF f \in DOMAIN resolved THEN resolved[f] ELSE Unset
           values == [f \in Field |-> value(f)]
<1>1. IsMap(texts) /\ "domain" \in DOMAIN texts
  <2>1. "domain" \in DOMAIN Merge(m, cached, lines)
    BY MergeFacts
  <2>2. IsMap(texts) /\ DOMAIN texts = DOMAIN Merge(m, cached, lines) \cup {"domain_dn"}
    BY TextsFacts
  <2> QED
    BY <2>1, <2>2
<1> HIDE DEF texts
<1>2. IsMap(resolved) /\ DOMAIN resolved = DOMAIN texts \cup {"domain_dn"}
  BY <1>1, SettleType
<1>3. EffectiveConfig(m, cached, lines)
        = [values |-> ResolveIps(values), domain |-> resolved["domain"]]
  BY DEF EffectiveConfig, texts, Texts
<1> HIDE DEF resolved
<1>4. values \in [Field -> Value] /\ resolved["domain"] \in Value
  BY <1>1, <1>2, UnsetFacts DEF IsMap
<1>5. ResolveIps(values) \in [Field -> Value]
  <2> HIDE DEF values
  <2> QED
    BY <1>4, ResolveIpsType
<1>6. \A f \in Field :
          ResolveIps(values)[f] = IF f \in IpField /\ value(f) = AutoIp THEN node ELSE value(f)
  BY DEF ResolveIps
<1>7. Unset # AutoIp
  <2>1. AutoIp \in Seq(Piece)
    BY TextFacts, ConfigAssumption DEF AutoIp
  <2> QED
    BY <2>1, UnsetFacts
<1> DEFINE resolvedIps == ResolveIps(values)
<1>8. /\ \A f \in Field \ DOMAIN resolved : resolvedIps[f] = Unset
      /\ \A f \in Field \cap DOMAIN resolved :
            resolvedIps[f] = IF f \in IpField /\ resolved[f] = AutoIp THEN node ELSE resolved[f]
  BY <1>6, <1>7
<1> HIDE DEF resolvedIps
<1>9. EffectiveConfig(m, cached, lines) = [values |-> resolvedIps, domain |-> resolved["domain"]]
  BY <1>3 DEF resolvedIps
<1> QED
  BY <1>4, <1>5, <1>8, <1>9 DEF resolvedIps, resolved, texts

\* What a text of a run is interpolated with.
Given(values, domain) ==
    values ++ Entry("domain", domain) ++ Entry("domain_dn", DomainToDn(domain))

\* A text sees the values of the run, then the domain and its dn.
LEMMA GivenFacts ==
    ASSUME NEW values, IsMap(values), NEW domain \in Value
    PROVE  LET known == Given(values, domain)
           IN  /\ IsMap(known)
               /\ DOMAIN known = DOMAIN values \cup {"domain", "domain_dn"}
               /\ \A k \in DOMAIN values : known[k] = values[k]
               /\ "domain" \notin DOMAIN values => known["domain"] = domain
               /\ "domain_dn" \notin DOMAIN values => known["domain_dn"] = DomainToDn(domain)
<1> DEFINE d == Entry("domain", domain)
           e == Entry("domain_dn", DomainToDn(domain))
           one == values ++ d
<1>1. IsMap(d) /\ DOMAIN d = {"domain"} /\ d["domain"] = domain
  BY FieldFacts, EntryMap, SingleEntry
<1>2. IsMap(e) /\ DOMAIN e = {"domain_dn"} /\ e["domain_dn"] = DomainToDn(domain)
  <2>1. DomainToDn(domain) \in Value
    BY DnType DEF Value
  <2> QED
    BY <2>1, FieldFacts, EntryMap, SingleEntry
<1> HIDE DEF d, e
<1>3. /\ IsMap(one) /\ DOMAIN one = DOMAIN values \cup {"domain"}
      /\ \A k \in DOMAIN values : one[k] = values[k]
      /\ "domain" \notin DOMAIN values => one["domain"] = domain
  <2>1. /\ IsMap(one) /\ DOMAIN one = DOMAIN values \cup DOMAIN d
        /\ \A k \in DOMAIN values : one[k] = values[k]
        /\ \A k \in DOMAIN d \ DOMAIN values : one[k] = d[k]
    BY <1>1, MergedMap
  <2> HIDE DEF one
  <2> QED
    BY <1>1, <2>1
<1> HIDE DEF one
<1>4. /\ IsMap(one ++ e) /\ DOMAIN (one ++ e) = DOMAIN one \cup DOMAIN e
      /\ \A k \in DOMAIN one : (one ++ e)[k] = one[k]
      /\ \A k \in DOMAIN e \ DOMAIN one : (one ++ e)[k] = e[k]
  <2>1. IsMap(one) /\ IsMap(e)
    BY <1>2, <1>3
  <2> QED
    BY ONLY <2>1, MergedMap
<1>5. Given(values, domain) = one ++ e
  BY Zenon DEF Given, one, d, e
<1> DEFINE known == one ++ e
<1> HIDE DEF known
<1>6. /\ IsMap(known) /\ DOMAIN known = DOMAIN one \cup DOMAIN e
      /\ \A k \in DOMAIN one : known[k] = one[k]
      /\ \A k \in DOMAIN e \ DOMAIN one : known[k] = e[k]
  BY <1>4 DEF known
<1>7. DOMAIN known = DOMAIN values \cup {"domain", "domain_dn"}
  BY <1>2, <1>3, <1>6
<1>8. \A k \in DOMAIN values : known[k] = values[k]
  BY <1>3, <1>6
<1>9. "domain" \notin DOMAIN values => known["domain"] = domain
  BY <1>3, <1>6
<1>10. "domain_dn" \notin DOMAIN values => known["domain_dn"] = DomainToDn(domain)
  BY <1>2, <1>3, <1>6
<1> QED
  BY <1>5, <1>6, <1>7, <1>8, <1>9, <1>10 DEF known

LEMMA AutoFacts ==
    /\ AutoIp \in Seq(Piece) /\ AutoIp \in Value /\ AutoIp # Unset
    /\ Refs(AutoIp) = {} /\ AutoIp # << >>
<1>1. AutoIp \in Seq(Piece) /\ Refs(AutoIp) = {} /\ AutoIp # << >>
  BY TextFacts, ConfigAssumption DEF AutoIp
<1> QED
  BY <1>1, UnsetFacts DEF Value

\* What the values of a headless run are.
LEMMA EffectiveMeaning ==
    ASSUME Resolvable, NEW m \in Manifests, NEW cached, IsMap(cached), LinesFit(cached),
           NEW lines, IsMap(lines), LinesFit(lines), node \in Addresses
    PROVE  LET config == EffectiveConfig(m, cached, lines)
               merged == Merge(m, cached, lines)
               known == Given(config.values, config.domain)
           IN  /\ config.values \in [Field -> Value] /\ config.domain \in Value
               /\ config.domain = merged["domain"] /\ Plain("domain", config.domain)
               /\ "domain" \in Field => config.values["domain"] = config.domain
               /\ \A f \in Field :
                     /\ Settled(f, config.values[f])
                     /\ f \notin DOMAIN merged => config.values[f] = Unset
                     /\ f \in DOMAIN merged /\ f \notin IpField
                          => config.values[f] = Interpolate(merged[f], known)
                     /\ f \in DOMAIN merged /\ f \in IpField
                          => config.values[f] = IF merged[f] = AutoIp THEN node ELSE merged[f]
                     /\ f \in DOMAIN merged /\ f \notin IpField /\ Refs(merged[f]) = {}
                          => config.values[f] = merged[f]
<1> DEFINE merged == Merge(m, cached, lines)
           texts == Texts(m, cached, lines)
           resolved == Settle(texts)
           config == EffectiveConfig(m, cached, lines)
           values == config.values
           domain == config.domain
           known == Given(values, domain)
<1>1. PICK rank : Ranks(m, rank)
  BY RankFacts
<1>2. "domain_dn" \notin Field /\ "domain" \notin IpField
  BY RankFacts
<1>3. /\ IsMap(merged) /\ DOMAIN merged \subseteq Field \cup {"domain"}
      /\ "domain" \in DOMAIN merged
  BY MergeFacts
<1>4. \A k \in DOMAIN merged :
          \/ k \in DOMAIN lines /\ merged[k] = lines[k]
          \/ k \in DOMAIN cached /\ merged[k] = cached[k]
          \/ k \in Field /\ merged[k] = m.default[k]
          \/ k = "domain" /\ merged[k] = m.domain
  <2> TAKE k \in DOMAIN merged
  <2>1. k \in Field \cup {"domain"}
    BY <1>3
  <2>2. CASE k \in DOMAIN lines
    BY <2>1, <2>2, MergeFacts
  <2>3. CASE k \notin DOMAIN lines /\ k \in DOMAIN cached /\ (k = "domain" \/ ~ IsDerived(m, k))
    BY <2>1, <2>3, MergeFacts
  <2>4. CASE /\ k \notin DOMAIN lines
             /\ ~ (k \in DOMAIN cached /\ (k = "domain" \/ ~ IsDerived(m, k)))
    <3>1. CASE k \in Field /\ m.default[k] # Unset
      BY <2>1, <2>4, <3>1, MergeFacts
    <3>2. CASE k # "domain" /\ m.default[k] = Unset
      BY <2>1, <2>4, <3>2, MergeFacts
    <3>3. CASE k = "domain" /\ ~ (k \in Field /\ m.default[k] # Unset)
      BY <2>4, <3>3, MergeFacts
    <3> QED
      BY <2>1, <3>1, <3>2, <3>3
  <2> QED
    BY <2>2, <2>3, <2>4
<1>5. Mentionable(m) \subseteq DOMAIN merged \cup {"domain_dn"}
  <2> SUFFICES ASSUME NEW f \in Field, m.default[f] # Unset PROVE f \in DOMAIN merged
    BY <1>3 DEF Mentionable
  <2> QED
    BY MergeFacts
<1>6. /\ IsMap(texts) /\ DOMAIN texts = DOMAIN merged \cup {"domain_dn"}
      /\ \A k \in DOMAIN merged : texts[k] = merged[k]
      /\ texts["domain_dn"] = DomainToDn(merged["domain"])
  <2>1. "domain_dn" \notin DOMAIN merged
    BY <1>2, <1>3
  <2>2. /\ IsMap(texts) /\ DOMAIN texts = DOMAIN merged \cup {"domain_dn"}
        /\ \A k \in DOMAIN merged : texts[k] = merged[k]
        /\ "domain_dn" \notin DOMAIN merged
              => texts["domain_dn"] = DomainToDn(merged["domain"])
    BY TextsFacts
  <2> QED
    BY <2>1, <2>2
<1>7. /\ values \in [Field -> Value] /\ domain \in Value /\ domain = resolved["domain"]
      /\ \A f \in Field \ DOMAIN resolved : values[f] = Unset
      /\ \A f \in Field \cap DOMAIN resolved :
            values[f] = IF f \in IpField /\ resolved[f] = AutoIp THEN node ELSE resolved[f]
  BY EffectiveType
<1> HIDE DEF merged, texts, config
<1>8. \A k \in DOMAIN merged : Fits(m, rank, k, merged[k])
  <2> TAKE k \in DOMAIN merged
  <2> QED
    BY <1>1, <1>4, LineFits DEF Ranks
<1>9. merged["domain"] \in Value /\ merged["domain"] # << >> /\ Refs(merged["domain"]) = {}
  BY <1>2, <1>3, <1>8 DEF IsMap, Fits
<1>10. Fits(m, rank, "domain_dn", texts["domain_dn"])
  <2>1. Plain("domain_dn", texts["domain_dn"])
    BY <1>6, <1>9, DnType DEF Plain
  <2> QED
    BY <2>1, PlainFits
<1>11. /\ IsMap(resolved) /\ DOMAIN resolved = DOMAIN texts
       /\ \A k \in DOMAIN texts :
             /\ Plain(k, resolved[k]) /\ resolved[k] = Interpolate(texts[k], resolved)
             /\ Refs(texts[k]) = {} => resolved[k] = texts[k]
  <2>1. Mentionable(m) \subseteq DOMAIN texts
    BY <1>5, <1>6
  <2>2. \A k \in DOMAIN texts : Fits(m, rank, k, texts[k])
    BY <1>6, <1>8, <1>10
  <2>3. texts["domain_dn"] = DomainToDn(texts["domain"])
    BY <1>3, <1>6
  <2> QED
    BY <1>1, <1>6, <2>1, <2>2, <2>3, Settlement
<1> HIDE DEF resolved
<1>12. domain = merged["domain"] /\ resolved["domain_dn"] = DomainToDn(domain)
  <2>1. resolved["domain"] = merged["domain"]
    BY <1>3, <1>6, <1>9, <1>11
  <2>2. resolved["domain_dn"] = texts["domain_dn"]
    BY <1>6, <1>9, <1>11, DnType
  <2> QED
    BY <1>6, <1>7, <2>1, <2>2
<1>13. Plain("domain", domain)
  BY <1>3, <1>6, <1>7, <1>11
<1>14. \A f \in Field : Settled(f, values[f])
  <2> TAKE f \in Field
  <2>1. CASE f \notin DOMAIN resolved
    <3>1. values[f] = Unset
      BY <1>7, <2>1
    <3> QED
      BY <3>1, UnsetFacts, AutoFacts DEF Settled, Plain
  <2>2. CASE f \in DOMAIN resolved
    <3>1. Plain(f, resolved[f])
      BY <1>11, <2>2
    <3>2. Refs(node) = {} /\ node # AutoIp
      BY DEF Resolvable
    <3> QED
      BY <1>7, <2>2, <3>1, <3>2 DEF Settled, Plain
  <2> QED
    BY <2>1, <2>2
<1>15. "domain" \in Field => values["domain"] = domain
  BY <1>2, <1>3, <1>6, <1>7, <1>11
<1>16. \A f \in Field : f \notin DOMAIN merged => values[f] = Unset
  BY <1>2, <1>6, <1>7, <1>11
<1> HIDE DEF values, domain
<1>17. /\ IsMap(known) /\ DOMAIN known = Field \cup {"domain", "domain_dn"}
       /\ \A k \in Field : known[k] = values[k]
       /\ "domain" \notin Field => known["domain"] = domain
       /\ known["domain_dn"] = DomainToDn(domain)
  <2>1. IsMap(values) /\ DOMAIN values = Field
    BY <1>7, FieldFacts DEF IsMap
  <2> QED
    BY <1>2, <1>7, <2>1, GivenFacts
<1> HIDE DEF known
<1>18. \A j \in Mentionable(m) :
           j \in DOMAIN resolved /\ j \in DOMAIN known /\ known[j] = resolved[j]
  <2> TAKE j \in Mentionable(m)
  <2>1. j \in DOMAIN resolved /\ j \notin IpField
    BY <1>5, <1>6, <1>11, MentionableFacts
  <2>2. CASE j = "domain_dn"
    BY <1>12, <1>17, <2>1, <2>2
  <2>3. CASE j \in Field
    BY <1>7, <1>17, <2>1, <2>3
  <2>4. CASE j = "domain" /\ j \notin Field
    BY <1>7, <1>17, <2>1, <2>4
  <2> QED
    BY <2>2, <2>3, <2>4 DEF Mentionable
<1>19. ASSUME NEW f \in Field, f \in DOMAIN merged, f \notin IpField
       PROVE  values[f] = Interpolate(merged[f], known)
  <2>1. values[f] = resolved[f] /\ resolved[f] = Interpolate(merged[f], resolved)
    BY <1>6, <1>7, <1>11, <1>19
  <2>2. \A j \in Refs(merged[f]) : j \in Mentionable(m)
    BY <1>8, <1>19 DEF Fits
  <2>3. \A j \in Refs(merged[f]) :
            j \in DOMAIN resolved /\ j \in DOMAIN known /\ known[j] = resolved[j]
    BY <1>18, <2>2
  <2>4. merged[f] \in Value
    BY <1>3, <1>19 DEF IsMap
  <2>5. Interpolate(merged[f], known) = Interpolate(merged[f], resolved)
    BY <1>11, <1>17, <2>3, <2>4, AgreeingValue
  <2> QED
    BY <2>1, <2>5
<1>20. ASSUME NEW f \in Field, f \in DOMAIN merged, f \in IpField
       PROVE  values[f] = IF merged[f] = AutoIp THEN node ELSE merged[f]
  <2>1. Refs(merged[f]) = {}
    BY <1>8, <1>20 DEF Fits
  <2>2. resolved[f] = merged[f] /\ f \in DOMAIN resolved
    BY <1>6, <1>11, <1>20, <2>1
  <2> QED
    BY <1>7, <1>20, <2>2
<1>21. ASSUME NEW f \in Field, f \in DOMAIN merged, f \notin IpField, Refs(merged[f]) = {}
       PROVE  values[f] = merged[f]
  BY <1>6, <1>7, <1>11, <1>21
<1> QED
  BY <1>7, <1>12, <1>13, <1>14, <1>15, <1>16, <1>19, <1>20, <1>21
     DEF values, domain, known, config, merged

-----------------------------------------------------------------------------
(* The second screen *)

\* The texts of the second screen.
ScreenTexts(m, current, d) ==
    Entry("domain", d) ++ Entry("domain_dn", DomainToDn(d)) ++
        Restrict(m.default, {f \in DOMAIN Defaults(m) : IsDerived(m, f)}) ++ current

\* The texts that the domain screen works out again.
LEMMA RederiveTexts ==
    ASSUME NEW m \in Manifests, NEW current, IsMap(current), Field \subseteq DOMAIN current,
           NEW d \in Value
    PROVE  LET texts == ScreenTexts(m, current, d)
               derived(f) == f \in Field /\ m.default[f] # Unset /\ IsDerived(m, f)
           IN  /\ IsMap(texts) /\ texts \in [Key -> Value]
               /\ texts["domain"] = d /\ texts["domain_dn"] = DomainToDn(d)
               /\ \A f \in Field \ {"domain", "domain_dn"} :
                     texts[f] = IF derived(f) THEN m.default[f] ELSE current[f]
<1> DEFINE derived == {f \in DOMAIN Defaults(m) : IsDerived(m, f)}
           a == Entry("domain", d)
           b == Entry("domain_dn", DomainToDn(d))
           c == Restrict(m.default, derived)
           ab == a ++ b
           abc == ab ++ c
           texts == abc ++ current
<1>1. IsMap(a) /\ DOMAIN a = {"domain"} /\ a["domain"] = d
  BY FieldFacts, EntryMap, SingleEntry
<1>2. IsMap(b) /\ DOMAIN b = {"domain_dn"} /\ b["domain_dn"] = DomainToDn(d)
  <2>1. DomainToDn(d) \in Value
    BY DnType DEF Value
  <2> QED
    BY <2>1, FieldFacts, EntryMap, SingleEntry
<1>3. derived = {f \in Field : m.default[f] # Unset /\ IsDerived(m, f)}
  BY Restricted DEF Defaults
<1>4. IsMap(c) /\ DOMAIN c = derived /\ \A f \in derived : c[f] = m.default[f]
  <2>1. IsMap(m.default) /\ DOMAIN m.default = Field
    BY ReleaseFacts, FieldFacts DEF IsMap
  <2>2. derived \subseteq DOMAIN m.default
    BY <1>3, <2>1
  <2> HIDE DEF derived
  <2> QED
    BY <2>1, <2>2, RestrictedMap, Restricted
<1> HIDE DEF a, b, c
<1>5. /\ IsMap(ab) /\ DOMAIN ab = {"domain", "domain_dn"}
      /\ ab["domain"] = d /\ ab["domain_dn"] = DomainToDn(d)
  <2>1. /\ IsMap(ab) /\ DOMAIN ab = DOMAIN a \cup DOMAIN b
        /\ \A k \in DOMAIN a : ab[k] = a[k]
        /\ \A k \in DOMAIN b \ DOMAIN a : ab[k] = b[k]
    <3>1. IsMap(a) /\ IsMap(b)
      BY <1>1, <1>2
    <3> QED
      BY ONLY <3>1, MergedMap
  <2> HIDE DEF ab
  <2>2. DOMAIN ab = {"domain", "domain_dn"}
    BY <1>1, <1>2, <2>1
  <2>3. ab["domain"] = d /\ ab["domain_dn"] = DomainToDn(d)
    BY <1>1, <1>2, <2>1
  <2> QED
    BY <2>1, <2>2, <2>3
<1> HIDE DEF ab, derived
<1>6. /\ IsMap(abc) /\ DOMAIN abc = DOMAIN ab \cup DOMAIN c
      /\ \A k \in DOMAIN ab : abc[k] = ab[k]
      /\ \A k \in DOMAIN c \ DOMAIN ab : abc[k] = c[k]
  <2>1. IsMap(ab) /\ IsMap(c)
    BY <1>4, <1>5
  <2> QED
    BY ONLY <2>1, MergedMap
<1> HIDE DEF abc
<1>7. /\ IsMap(texts) /\ DOMAIN texts = DOMAIN abc \cup DOMAIN current
      /\ \A k \in DOMAIN abc : texts[k] = abc[k]
      /\ \A k \in DOMAIN current \ DOMAIN abc : texts[k] = current[k]
  <2>1. IsMap(abc) /\ IsMap(current)
    BY <1>6
  <2> QED
    BY ONLY <2>1, MergedMap
<1> HIDE DEF texts
<1>8. DOMAIN texts = Key
  BY <1>5, <1>6, <1>7, FieldFacts DEF IsMap
<1>9. texts \in [Key -> Value]
  BY <1>7, <1>8 DEF IsMap
<1>10. texts["domain"] = d /\ texts["domain_dn"] = DomainToDn(d)
  BY <1>5, <1>6, <1>7
<1>11. \A f \in Field \ {"domain", "domain_dn"} :
           texts[f] = IF f \in derived THEN m.default[f] ELSE current[f]
  <2> TAKE f \in Field \ {"domain", "domain_dn"}
  <2>1. CASE f \in derived
    BY <1>4, <1>5, <1>6, <1>7, <2>1
  <2>2. CASE f \notin derived
    BY <1>4, <1>5, <1>6, <1>7, <2>2
  <2> QED
    BY <2>1, <2>2
<1>12. texts = ScreenTexts(m, current, d)
  BY Zenon DEF texts, abc, ab, a, b, c, derived, ScreenTexts
<1> QED
  BY <1>3, <1>7, <1>9, <1>10, <1>11, <1>12

\* The domain screen keeps a value for every field.
LEMMA RederiveType ==
    ASSUME NEW m \in Manifests, NEW current, IsMap(current), Field \subseteq DOMAIN current,
           NEW d \in Value
    PROVE  /\ RederiveForDomain(m, current, d) \in [Key -> Value]
           /\ RederiveForDomain(m, current, d) = Settle(ScreenTexts(m, current, d))
<1> DEFINE texts == ScreenTexts(m, current, d)
<1>1. IsMap(texts) /\ texts \in [Key -> Value]
  BY RederiveTexts
<1>2. RederiveForDomain(m, current, d) = Settle(texts)
  BY Zenon DEF RederiveForDomain, ScreenTexts
<1> HIDE DEF texts
<1>3. IsMap(Settle(texts)) /\ DOMAIN Settle(texts) = Key
  <2>1. DOMAIN texts = Key /\ "domain" \in DOMAIN texts
    BY <1>1, FieldFacts
  <2> QED
    BY <1>1, <2>1, SettleType, FieldFacts
<1>4. Settle(texts) \in [Key -> Value]
  BY <1>3 DEF IsMap
<1> QED
  BY <1>2, <1>4 DEF texts

\* What the second screen shows.
LEMMA RederiveMeaning ==
    ASSUME Resolvable, NEW m \in Manifests, NEW current, IsMap(current),
           Field \subseteq DOMAIN current,
           \A k \in DOMAIN current : Settled(k, current[k]),
           NEW d \in Value, Plain("domain", d)
    PROVE  LET shown == RederiveForDomain(m, current, d)
           IN  /\ shown["domain"] = d /\ shown["domain_dn"] = DomainToDn(d)
               /\ \A k \in Key : Settled(k, shown[k])
               /\ \A f \in Field : IsDerived(m, f) =>
                     IF m.default[f] = Unset THEN shown[f] = current[f]
                     ELSE shown[f] = Interpolate(m.default[f], shown)
<1> DEFINE texts == ScreenTexts(m, current, d)
           shown == RederiveForDomain(m, current, d)
           derived(f) == f \in Field /\ m.default[f] # Unset /\ IsDerived(m, f)
<1>1. PICK rank : Ranks(m, rank)
  BY RankFacts
<1>2. /\ "domain_dn" \notin Field /\ "domain" \notin IpField
      /\ \A f \in Field \cap (IpField \cup {"domain"}) : ~ IsDerived(m, f)
  BY RankFacts
<1>3. /\ IsMap(texts) /\ texts \in [Key -> Value]
      /\ texts["domain"] = d /\ texts["domain_dn"] = DomainToDn(d)
      /\ \A f \in Field \ {"domain", "domain_dn"} :
            texts[f] = IF derived(f) THEN m.default[f] ELSE current[f]
  BY RederiveTexts
<1>4. shown = Settle(texts)
  BY RederiveType
<1> HIDE DEF texts, shown
<1>5. Plain("domain_dn", DomainToDn(d))
  BY <1>2, DnType DEF Plain
<1>6. \A k \in Key : Fits(m, rank, k, texts[k])
  <2> TAKE k \in Key
  <2>1. CASE k = "domain"
    BY <1>3, <2>1, PlainFits
  <2>2. CASE k = "domain_dn"
    BY <1>3, <1>5, <2>2, PlainFits
  <2>3. CASE k \in Field \ {"domain", "domain_dn"} /\ derived(k)
    BY <1>1, <1>3, <2>3 DEF Ranks
  <2>4. CASE k \in Field \ {"domain", "domain_dn"} /\ ~ derived(k)
    <3>1. Plain(k, current[k])
      BY <2>4 DEF Settled
    <3> QED
      BY <1>3, <2>4, <3>1, PlainFits
  <2> QED
    BY <2>1, <2>2, <2>3, <2>4, FieldFacts
<1>7. /\ IsMap(shown) /\ DOMAIN shown = Key
      /\ \A k \in Key : /\ Plain(k, shown[k]) /\ shown[k] = Interpolate(texts[k], shown)
                        /\ Refs(texts[k]) = {} => shown[k] = texts[k]
  <2>1. DOMAIN texts = Key
    BY <1>3
  <2>2. Mentionable(m) \subseteq DOMAIN texts
    BY <2>1, MentionableFacts
  <2>3. \A k \in DOMAIN texts : Fits(m, rank, k, texts[k])
    BY <1>6, <2>1
  <2>4. texts["domain_dn"] = DomainToDn(texts["domain"])
    BY <1>3
  <2>5. /\ IsMap(Settle(texts)) /\ DOMAIN Settle(texts) = DOMAIN texts
        /\ \A k \in DOMAIN texts :
              /\ Plain(k, Settle(texts)[k])
              /\ Settle(texts)[k] = Interpolate(texts[k], Settle(texts))
              /\ Refs(texts[k]) = {} => Settle(texts)[k] = texts[k]
    BY <1>1, <1>3, <2>2, <2>3, <2>4, Settlement
  <2> QED
    BY <1>4, <2>1, <2>5
<1>8. shown["domain"] = d /\ shown["domain_dn"] = DomainToDn(d)
  <2>1. Refs(texts["domain"]) = {} /\ Refs(texts["domain_dn"]) = {}
    BY <1>3, <1>5 DEF Plain
  <2> QED
    BY <1>3, <1>7, <2>1, FieldFacts
<1>9. \A k \in Key : Settled(k, shown[k])
  <2> SUFFICES ASSUME NEW k \in Key, k \in IpField PROVE shown[k] # AutoIp
    BY <1>7 DEF Settled
  <2>1. k \in Field \ {"domain", "domain_dn"} /\ ~ derived(k)
    BY <1>2, FieldFacts
  <2>2. texts[k] = current[k] /\ current[k] # AutoIp /\ Refs(current[k]) = {}
    BY <1>3, <2>1 DEF Settled, Plain
  <2> QED
    BY <1>7, <2>2
<1>10. ASSUME NEW f \in Field, IsDerived(m, f)
       PROVE  IF m.default[f] = Unset THEN shown[f] = current[f]
              ELSE shown[f] = Interpolate(m.default[f], shown)
  <2>1. f \in Field \ {"domain", "domain_dn"} /\ f \in Key
    BY <1>2, <1>10, FieldFacts
  <2>2. CASE m.default[f] = Unset
    <3>1. texts[f] = current[f] /\ Refs(current[f]) = {}
      BY <1>3, <2>1, <2>2 DEF Settled, Plain
    <3> QED
      BY <1>7, <2>1, <2>2, <3>1
  <2>3. CASE m.default[f] # Unset
    <3>1. texts[f] = m.default[f]
      BY <1>3, <1>10, <2>1, <2>3
    <3> QED
      BY <1>7, <2>1, <2>3, <3>1
  <2> QED
    BY <2>2, <2>3
<1> QED
  BY <1>8, <1>9, <1>10 DEF shown

LEMMA KnownGiven == \A run : Known(run) = Given(run.values, run.domain)
BY Zenon DEF Known, Given

-----------------------------------------------------------------------------
(* Type correctness *)

LEMMA LinesMap ==
    ASSUME TypeOK
    PROVE  IsMap(Lines(file))
BY EmptyMap DEF TypeOK, Lines

\* What a save leaves, cut short or not.
LEMMA SaveCases ==
    ASSUME NEW run, Save(run), TypeOK
    PROVE  /\ runs' \in 0 .. MaxRuns
           /\ \/ cache' = run.values /\ torn' = FALSE /\ last' = run
              \/ cache' = Empty /\ torn' = TRUE /\ last' = last
BY ConfigAssumption DEF Save, TypeOK

\* What a headless run saves is a run.
HeadlessRun(config) ==
    [by |-> "headless", manifest |-> manifest, file |-> Lines(file), node |-> node,
     values |-> config.values, domain |-> config.domain, typed |-> {}]

RunOK(run) ==
    /\ run \in [by : {"headless", "screens"}, manifest : Manifests, file : {run.file},
                node : Addresses,
                values : [Field -> Value] \cup [Field \cup {"domain"} -> Value],
                domain : Value, typed : SUBSET Field]
    /\ IsMap(run.file)

LEMMA SavedType ==
    ASSUME NEW run, RunOK(run), Save(run), TypeOK
    PROVE  /\ runs' \in 0 .. MaxRuns /\ torn' \in BOOLEAN /\ IsMap(cache')
           /\ last' # NoRun => last' \in Run' /\ IsMap(last'.file)
<1>1. IsMap(run.values)
  BY FieldFacts DEF RunOK, IsMap
<1>2. CASE cache' = run.values /\ torn' = FALSE /\ last' = run
  BY <1>1, <1>2, SaveCases DEF RunOK, Run
<1>3. CASE cache' = Empty /\ torn' = TRUE /\ last' = last
  <2>1. last # NoRun => last \in Run /\ IsMap(last.file)
    BY DEF TypeOK
  <2> QED
    BY <1>3, <2>1, EmptyMap, SaveCases DEF Run
<1> QED
  BY <1>2, <1>3, SaveCases

LEMMA AssumedTypes ==
    /\ \A m \in Manifests : m.domain \in Value
    /\ Domains \subseteq Value /\ Addresses \subseteq Value
    /\ DOMAIN Writes \subseteq Field \cup {"domain"}
    /\ \A k \in DOMAIN Writes : Writes[k] \subseteq Value
    /\ DOMAIN Types \subseteq Field \ {"domain"}
    /\ \A f \in DOMAIN Types : Types[f] \subseteq Value
    /\ MaxRuns \in Nat /\ MaxEdits \in Nat
<1>1. Seq(Piece) \subseteq Value
  BY DEF Value
<1>2. Domains \subseteq Seq(Piece) /\ Addresses \subseteq Seq(Piece)
  BY ConfigAssumption
<1>3. \A m \in Manifests : m.domain \in Value
  BY ReleaseFacts
<1> QED
  BY <1>1, <1>2, <1>3, ConfigAssumption

\* The parts of an open screen.
LEMMA ScreenFacts ==
    ASSUME TypeOK, screen # Closed
    PROVE  /\ screen = [at |-> screen.at, manifest |-> screen.manifest, file |-> screen.file,
                        shown |-> screen.shown, domain |-> screen.domain]
           /\ screen.at \in {"domain", "config"} /\ screen.manifest \in Manifests
           /\ IsMap(screen.file) /\ IsMap(screen.shown) /\ screen.domain \in Value
           /\ Field \subseteq DOMAIN screen.shown
           /\ screen.shown \in [Field -> Value] \cup [Key -> Value]
<1>1. screen \in Screen /\ IsMap(screen.file)
  BY DEF TypeOK
<1>2. screen.shown \in [Field -> Value] \cup [Key -> Value]
  BY <1>1 DEF Screen
<1>3. IsMap(screen.shown) /\ Field \subseteq DOMAIN screen.shown
  BY <1>2, FieldFacts DEF IsMap
<1> QED
  BY <1>1, <1>2, <1>3 DEF Screen

\* What the operator may type on the second screen.
Typing == {Empty} \cup UNION {{Entry(f, t) : t \in Types[f]} : f \in DOMAIN Types}

LEMMA TypingFacts ==
    ASSUME NEW typed \in Typing
    PROVE  /\ IsMap(typed) /\ DOMAIN typed \subseteq Field \ {"domain"}
           /\ \A f \in DOMAIN typed : f \in DOMAIN Types /\ typed[f] \in Types[f]
<1>1. CASE typed = Empty
  BY <1>1, EmptyMap
<1>2. CASE typed # Empty
  <2>1. PICK f \in DOMAIN Types : \E t \in Types[f] : typed = Entry(f, t)
    BY <1>2 DEF Typing
  <2>2. PICK t \in Types[f] : typed = Entry(f, t)
    BY <2>1
  <2>3. f \in Field \ {"domain"} /\ f \in Key /\ t \in Value
    BY AssumedTypes, FieldFacts
  <2>4. IsMap(Entry(f, t)) /\ DOMAIN Entry(f, t) = {f} /\ Entry(f, t)[f] = t
    BY <2>3, EntryMap, SingleEntry
  <2> QED
    BY <2>2, <2>3, <2>4
<1> QED
  BY <1>1, <1>2

\* What the second screen hands to the engine.
Inputs ==
    [f \in Field \ {"domain"} |->
        IF f \in DOMAIN screen.shown THEN Widget(screen.shown[f]) ELSE Unset]

Collected(typed) == typed ++ Inputs ++ Entry("domain", screen.domain)

ScreenRun(typed) ==
    [by |-> "screens", manifest |-> screen.manifest, file |-> screen.file, node |-> node,
     values |-> Collected(typed), domain |-> screen.domain, typed |-> DOMAIN typed]

\* What the configuration screen collects has a value for every field.
LEMMA CollectedFacts ==
    ASSUME TypeOK, screen # Closed, NEW typed \in Typing
    PROVE  /\ Collected(typed) \in [Field \cup {"domain"} -> Value]
           /\ Collected(typed)["domain"] = screen.domain
           /\ \A f \in DOMAIN typed : Collected(typed)[f] = typed[f]
           /\ \A f \in Field \ (DOMAIN typed \cup {"domain"}) :
                 Collected(typed)[f] = Widget(screen.shown[f])
<1> DEFINE d == Entry("domain", screen.domain)
           one == typed ++ Inputs
           values == one ++ d
<1>1. /\ IsMap(screen.shown) /\ screen.domain \in Value /\ Field \subseteq DOMAIN screen.shown
  BY ScreenFacts
<1>2. IsMap(typed) /\ DOMAIN typed \subseteq Field \ {"domain"}
  BY TypingFacts
<1>3. IsMap(d) /\ DOMAIN d = {"domain"} /\ d["domain"] = screen.domain
  BY <1>1, FieldFacts, EntryMap, SingleEntry
<1>4. /\ IsMap(Inputs) /\ DOMAIN Inputs = Field \ {"domain"}
      /\ \A f \in DOMAIN Inputs : Inputs[f] = Widget(screen.shown[f])
  <2>1. \A f \in Field : Widget(screen.shown[f]) \in Value
    BY <1>1, UnsetFacts DEF Widget, IsMap
  <2>2. Inputs = [f \in Field \ {"domain"} |-> Widget(screen.shown[f])]
    BY <1>1 DEF Inputs
  <2> QED
    BY <2>1, <2>2, FieldFacts DEF IsMap
<1> HIDE DEF d
<1>5. /\ IsMap(one) /\ DOMAIN one = DOMAIN typed \cup DOMAIN Inputs
      /\ \A k \in DOMAIN typed : one[k] = typed[k]
      /\ \A k \in DOMAIN Inputs \ DOMAIN typed : one[k] = Inputs[k]
  <2>1. IsMap(typed) /\ IsMap(Inputs)
    BY <1>2, <1>4
  <2> QED
    BY ONLY <2>1, MergedMap
<1> HIDE DEF one
<1>6. /\ IsMap(values) /\ DOMAIN values = DOMAIN one \cup DOMAIN d
      /\ \A k \in DOMAIN one : values[k] = one[k]
      /\ \A k \in DOMAIN d \ DOMAIN one : values[k] = d[k]
  <2>1. IsMap(one) /\ IsMap(d)
    BY <1>3, <1>5
  <2> QED
    BY ONLY <2>1, MergedMap
<1>7. values = Collected(typed)
  BY Zenon DEF values, one, d, Collected
<1> HIDE DEF values
<1>8. DOMAIN values = Field \cup {"domain"}
  BY <1>2, <1>3, <1>4, <1>5, <1>6
<1>9. values \in [Field \cup {"domain"} -> Value]
  BY <1>6, <1>8 DEF IsMap
<1>10. values["domain"] = screen.domain
  BY <1>2, <1>3, <1>4, <1>5, <1>6
<1>11. \A f \in DOMAIN typed : values[f] = typed[f]
  BY <1>5, <1>6
<1>12. \A f \in Field \ (DOMAIN typed \cup {"domain"}) : values[f] = Widget(screen.shown[f])
  BY <1>4, <1>5, <1>6
<1> QED
  BY <1>7, <1>9, <1>10, <1>11, <1>12

\* The lines that init-env writes.
LEMMA RenderedFacts ==
    ASSUME NEW m \in Manifests, NEW existing, IsMap(existing), node \in Addresses
    PROVE  LET config == EffectiveConfig(m, existing, Empty)
           IN  /\ IsMap(Rendered(m, existing))
               /\ \A k \in DOMAIN Rendered(m, existing) :
                     \/ k = "domain" /\ Rendered(m, existing)[k] = config.domain
                     \/ k \in Field /\ Rendered(m, existing)[k] = config.values[k]
<1> DEFINE config == EffectiveConfig(m, existing, Empty)
           d == Entry("domain", config.domain)
           kept == (DOMAIN existing \cap Field) \ {"domain"}
           r == Restrict(config.values, kept)
<1>1. config.values \in [Field -> Value] /\ config.domain \in Value
  BY EffectiveType, EmptyMap
<1> HIDE DEF config
<1>2. IsMap(d) /\ DOMAIN d = {"domain"} /\ d["domain"] = config.domain
  BY <1>1, FieldFacts, EntryMap, SingleEntry
<1>3. IsMap(r) /\ DOMAIN r = kept /\ \A f \in kept : r[f] = config.values[f]
  <2>1. IsMap(config.values) /\ kept \subseteq DOMAIN config.values
    BY <1>1, FieldFacts DEF IsMap
  <2> HIDE DEF kept
  <2> QED
    BY <2>1, RestrictedMap, Restricted
<1>4. kept \subseteq Field
  OBVIOUS
<1> HIDE DEF d, r, kept
<1>5. /\ IsMap(d ++ r) /\ DOMAIN (d ++ r) = DOMAIN d \cup DOMAIN r
      /\ \A k \in DOMAIN d : (d ++ r)[k] = d[k]
      /\ \A k \in DOMAIN r \ DOMAIN d : (d ++ r)[k] = r[k]
  BY <1>2, <1>3, MergedMap
<1>6. Rendered(m, existing) = d ++ r
  BY Zenon DEF Rendered, config, d, r, kept
<1> DEFINE lines == d ++ r
<1> HIDE DEF lines
<1>7. /\ IsMap(lines) /\ DOMAIN lines = DOMAIN d \cup DOMAIN r
      /\ \A k \in DOMAIN d : lines[k] = d[k]
      /\ \A k \in DOMAIN r \ DOMAIN d : lines[k] = r[k]
  BY <1>5 DEF lines
<1>8. \A k \in DOMAIN lines : \/ k = "domain" /\ lines[k] = config.domain
                              \/ k \in Field /\ lines[k] = config.values[k]
  BY <1>2, <1>3, <1>4, <1>7
<1> QED
  BY <1>6, <1>7, <1>8 DEF lines, config

-----------------------------------------------------------------------------
(* The steps keep the types. *)

\* Every step keeps the types.
LEMMA InitType == Init => TypeOK
<1> SUFFICES ASSUME Init PROVE TypeOK
  OBVIOUS
<1>1. file \in [kind : {"absent", "yaml", "broken"}, lines : {file.lines}] /\ IsMap(file.lines)
  BY EmptyMap DEF Init
<1>2. manifest \in Manifests /\ node \in Addresses /\ IsMap(cache) /\ torn \in BOOLEAN
  BY EmptyMap DEF Init
<1>3. screen = Closed /\ last = NoRun
  BY DEF Init
<1>4. runs \in 0 .. MaxRuns /\ edits \in 0 .. MaxEdits
  BY AssumedTypes DEF Init
<1> QED
  BY <1>1, <1>2, <1>3, <1>4, Zenon DEF TypeOK

LEMMA HeadlessType == TypeOK /\ Headless => TypeOK'
<1> SUFFICES ASSUME TypeOK, Headless PROVE TypeOK'
  OBVIOUS
<1> DEFINE config == EffectiveConfig(manifest, cache, Lines(file))
           run == HeadlessRun(config)
<1>1. Save(run) /\ UNCHANGED <<file, node, manifest, screen, edits>>
  BY DEF Headless, HeadlessRun, host
<1>2. manifest \in Manifests /\ node \in Addresses /\ IsMap(cache) /\ IsMap(Lines(file))
  BY LinesMap DEF TypeOK
<1>3. config.values \in [Field -> Value] /\ config.domain \in Value
  BY <1>2, EffectiveType
<1> HIDE DEF config
<1>4. RunOK(run)
  BY <1>2, <1>3 DEF RunOK, HeadlessRun
<1> HIDE DEF run
<1>5. /\ runs' \in 0 .. MaxRuns /\ torn' \in BOOLEAN /\ IsMap(cache')
      /\ last' # NoRun => last' \in Run' /\ IsMap(last'.file)
  BY <1>1, <1>4, SavedType
<1> QED
  BY <1>1, <1>5 DEF TypeOK, Screen

LEMMA OpenScreensType == TypeOK /\ OpenScreens => TypeOK'
<1> SUFFICES ASSUME TypeOK, OpenScreens PROVE TypeOK'
  OBVIOUS
<1> DEFINE config == EffectiveConfig(manifest, cache, Lines(file))
<1>1. /\ screen' = [at |-> "domain", manifest |-> manifest, file |-> Lines(file),
                    shown |-> config.values, domain |-> config.domain]
      /\ UNCHANGED <<file, node, manifest, cache, torn, last, runs, edits>>
  BY DEF OpenScreens, host
<1>2. manifest \in Manifests /\ node \in Addresses /\ IsMap(cache) /\ IsMap(Lines(file))
  BY LinesMap DEF TypeOK
<1>3. config.values \in [Field -> Value] /\ config.domain \in Value
  BY <1>2, EffectiveType
<1> HIDE DEF config
<1>4. screen' \in Screen' /\ IsMap(screen'.file)
  BY <1>1, <1>2, <1>3 DEF Screen
<1> QED
  BY <1>1, <1>4 DEF TypeOK, Run

LEMMA DomainNextType == TypeOK /\ DomainNext => TypeOK'
<1> SUFFICES ASSUME TypeOK, DomainNext PROVE TypeOK'
  OBVIOUS
<1>1. screen # Closed /\ UNCHANGED <<file, node, manifest, cache, torn, last, runs, edits>>
  BY DEF DomainNext, Closed, host
<1>2. PICK d \in Domains \cup {screen.domain} :
          screen' = [screen EXCEPT !.at = "config", !.domain = d,
                        !.shown = RederiveForDomain(screen.manifest, screen.shown, d)]
  BY DEF DomainNext
<1>3. /\ screen.manifest \in Manifests /\ IsMap(screen.file) /\ IsMap(screen.shown)
      /\ screen.domain \in Value /\ Field \subseteq DOMAIN screen.shown
      /\ screen = [at |-> screen.at, manifest |-> screen.manifest, file |-> screen.file,
                   shown |-> screen.shown, domain |-> screen.domain]
  BY <1>1, ScreenFacts
<1>4. d \in Value
  BY <1>3, AssumedTypes
<1>5. RederiveForDomain(screen.manifest, screen.shown, d) \in [Key -> Value]
  BY <1>3, <1>4, RederiveType
<1>6. screen' = [at |-> "config", manifest |-> screen.manifest, file |-> screen.file,
                 shown |-> RederiveForDomain(screen.manifest, screen.shown, d), domain |-> d]
  BY <1>2, <1>3
<1>7. screen' \in Screen' /\ IsMap(screen'.file)
  BY <1>3, <1>4, <1>5, <1>6 DEF Screen
<1> QED
  BY <1>1, <1>7 DEF TypeOK, Run

LEMMA BackType == TypeOK /\ Back => TypeOK'
<1> SUFFICES ASSUME TypeOK, Back PROVE TypeOK'
  OBVIOUS
<1>1. /\ screen # Closed /\ screen' = [screen EXCEPT !.at = "domain"]
      /\ UNCHANGED <<file, node, manifest, cache, torn, last, runs, edits>>
  BY DEF Back, Closed, host
<1>2. screen \in Screen /\ IsMap(screen.file)
  BY <1>1 DEF TypeOK
<1>3. screen' \in Screen' /\ IsMap(screen'.file)
  BY <1>1, <1>2 DEF Screen
<1> QED
  BY <1>1, <1>3 DEF TypeOK, Run

LEMMA ConfigNextType == TypeOK /\ ConfigNext => TypeOK'
<1> SUFFICES ASSUME TypeOK, ConfigNext PROVE TypeOK'
  OBVIOUS
<1>1. screen # Closed /\ screen' = Closed /\ UNCHANGED <<file, node, manifest, edits>>
  BY DEF ConfigNext, Closed, host
<1>2. PICK typed \in Typing : Save(ScreenRun(typed))
  BY Zenon DEF ConfigNext, Typing, ScreenRun, Collected, Inputs
<1> DEFINE run == ScreenRun(typed)
<1>3. /\ screen.manifest \in Manifests /\ IsMap(screen.file) /\ screen.domain \in Value
      /\ node \in Addresses
  BY <1>1, ScreenFacts DEF TypeOK
<1>4. Collected(typed) \in [Field \cup {"domain"} -> Value] /\ DOMAIN typed \subseteq Field
  BY <1>1, CollectedFacts, TypingFacts
<1>5. RunOK(run)
  BY <1>3, <1>4 DEF RunOK, ScreenRun
<1> HIDE DEF run
<1>6. /\ runs' \in 0 .. MaxRuns /\ torn' \in BOOLEAN /\ IsMap(cache')
      /\ last' # NoRun => last' \in Run' /\ IsMap(last'.file)
  BY <1>2, <1>5, SavedType DEF run
<1> QED
  BY <1>1, <1>6 DEF TypeOK

LEMMA QuitType == TypeOK /\ Quit => TypeOK'
BY DEF TypeOK, Quit, host, Run

\* The operator's steps only touch the file, the release and the node.
LEMMA EditType ==
    ASSUME TypeOK, Edit, manifest' \in Manifests, node' \in Addresses,
           file' \in [kind : {"absent", "yaml", "broken"}, lines : {file'.lines}],
           IsMap(file'.lines)
    PROVE  TypeOK'
<1>1. edits' \in 0 .. MaxEdits /\ UNCHANGED <<cache, torn, screen, last, runs>>
  BY AssumedTypes DEF TypeOK, Edit
<1> QED
  BY <1>1 DEF TypeOK, Screen, Run

LEMMA OperatorType ==
    TypeOK /\ (EditFile \/ RemoveLine \/ BreakFile \/ InitEnv \/ Upgrade \/ HostMoves)
        => TypeOK'
<1> SUFFICES ASSUME TypeOK,
                    EditFile \/ RemoveLine \/ BreakFile \/ InitEnv \/ Upgrade \/ HostMoves
             PROVE  TypeOK'
  OBVIOUS
<1>1. manifest \in Manifests /\ node \in Addresses /\ IsMap(file.lines) /\ IsMap(Lines(file))
  BY LinesMap DEF TypeOK
<1>2. ASSUME NEW lines, IsMap(lines), file' = Yaml(lines), Edit, UNCHANGED <<manifest, node>>
      PROVE  TypeOK'
  <2>1. file' \in [kind : {"absent", "yaml", "broken"}, lines : {file'.lines}]
        /\ IsMap(file'.lines)
    BY <1>2 DEF Yaml
  <2> QED
    BY <1>1, <1>2, <2>1, EditType
<1>3. CASE EditFile
  <2>1. PICK k \in DOMAIN Writes :
            \E v \in Writes[k] : file' = Yaml(Entry(k, v) ++ Lines(file))
    BY <1>3 DEF EditFile
  <2>2. PICK v \in Writes[k] : file' = Yaml(Entry(k, v) ++ Lines(file))
    BY <2>1
  <2>3. IsMap(Entry(k, v))
    BY AssumedTypes, FieldFacts, EntryMap
  <2>4. IsMap(Entry(k, v) ++ Lines(file))
    BY <1>1, <2>3, MergedMap
  <2> QED
    BY <1>2, <1>3, <2>2, <2>4 DEF EditFile
<1>4. CASE RemoveLine
  <2>1. PICK k \in DOMAIN file.lines :
            file' = Yaml(Restrict(file.lines, DOMAIN file.lines \ {k}))
    BY <1>4 DEF RemoveLine
  <2>2. IsMap(Restrict(file.lines, DOMAIN file.lines \ {k}))
    BY <1>1, RestrictedMap
  <2> QED
    BY <1>2, <1>4, <2>1, <2>2 DEF RemoveLine
<1>5. CASE BreakFile
  <2>1. file' \in [kind : {"absent", "yaml", "broken"}, lines : {file'.lines}]
        /\ IsMap(file'.lines)
    BY <1>5, EmptyMap DEF BreakFile
  <2> QED
    BY <1>1, <1>5, <2>1, EditType DEF BreakFile
<1>6. CASE InitEnv
  <2>1. PICK given \in {Empty} \cup {Entry("domain", d) : d \in Domains} :
            file' = Yaml(Rendered(manifest, given ++ Lines(file)))
    BY <1>6 DEF InitEnv
  <2>2. IsMap(given)
    BY EmptyMap, AssumedTypes, FieldFacts, EntryMap
  <2>3. IsMap(given ++ Lines(file))
    BY <1>1, <2>2, MergedMap
  <2>4. IsMap(Rendered(manifest, given ++ Lines(file)))
    BY <1>1, <2>3, RenderedFacts
  <2> QED
    BY <1>2, <1>6, <2>1, <2>4 DEF InitEnv
<1>7. CASE Upgrade
  <2>1. file' = file /\ node' = node /\ manifest' \in Manifests /\ Edit
    BY <1>7 DEF Upgrade
  <2> QED
    BY <1>1, <2>1, EditType DEF TypeOK
<1>8. CASE HostMoves
  <2>1. file' = file /\ node' \in Addresses /\ manifest' = manifest /\ Edit
    BY <1>8 DEF HostMoves
  <2> QED
    BY <1>1, <2>1, EditType DEF TypeOK
<1> QED
  BY <1>3, <1>4, <1>5, <1>6, <1>7, <1>8

LEMMA NextType == TypeOK /\ [Next]_vars => TypeOK'
<1>1. TypeOK /\ UNCHANGED vars => TypeOK'
  BY DEF TypeOK, vars, host, Screen, Run
<1> QED
  BY <1>1, HeadlessType, OpenScreensType, DomainNextType, BackType, ConfigNextType, QuitType,
     OperatorType DEF Next

\* Type correctness.
THEOREM ConfigTypeCorrect == Spec => []TypeOK
BY InitType, NextType, PTL DEF Spec

\* What the run reads from the file and from the cache fits.
LEMMA LinesOfFile ==
    ASSUME FileInv
    PROVE  LinesFit(Lines(file))
BY EmptyMap DEF FileInv, Lines, LinesFit

LEMMA LinesOfCache ==
    ASSUME CacheInv
    PROVE  LinesFit(cache)
BY DEF CacheInv, LinesFit, Settled

\* A derived field that the file has no line for has its default.
LEMMA DerivedText ==
    ASSUME Resolvable, NEW m \in Manifests, NEW cached, IsMap(cached), NEW lines, IsMap(lines),
           NEW f \in Field, IsDerived(m, f), f \notin DOMAIN lines
    PROVE  /\ f \notin IpField /\ f # "domain"
           /\ m.default[f] # Unset
                => f \in DOMAIN Merge(m, cached, lines)
                   /\ Merge(m, cached, lines)[f] = m.default[f]
           /\ m.default[f] = Unset => f \notin DOMAIN Merge(m, cached, lines)
<1>1. f \notin IpField /\ f # "domain"
  BY RankFacts
<1>2. ~ (f \in DOMAIN cached /\ (f = "domain" \/ ~ IsDerived(m, f)))
  BY <1>1
<1>3. m.default[f] # Unset
          => f \in DOMAIN Merge(m, cached, lines) /\ Merge(m, cached, lines)[f] = m.default[f]
  BY <1>2, MergeFacts
<1>4. m.default[f] = Unset => f \notin DOMAIN Merge(m, cached, lines)
  BY <1>1, <1>2, MergeFacts
<1> QED
  BY <1>1, <1>3, <1>4

\* The values of a headless run are settled: config_overrides.py:159-228.
LEMMA HeadlessRunInv ==
    ASSUME Resolvable, TypeOK, FileInv, CacheInv
    PROVE  RunInv(HeadlessRun(EffectiveConfig(manifest, cache, Lines(file))))
<1> DEFINE lines == Lines(file)
           merged == Merge(manifest, cache, lines)
           config == EffectiveConfig(manifest, cache, lines)
           values == config.values
           domain == config.domain
           known == Given(values, domain)
           run == HeadlessRun(config)
<1>1. /\ manifest \in Manifests /\ node \in Addresses /\ IsMap(cache) /\ IsMap(lines)
      /\ LinesFit(cache) /\ LinesFit(lines)
  BY LinesMap, LinesOfFile, LinesOfCache DEF TypeOK
<1> HIDE DEF lines
<1>2. /\ values \in [Field -> Value] /\ domain \in Value
      /\ domain = merged["domain"] /\ Plain("domain", domain)
      /\ "domain" \in Field => values["domain"] = domain
      /\ \A f \in Field :
            /\ Settled(f, values[f])
            /\ f \notin DOMAIN merged => values[f] = Unset
            /\ f \in DOMAIN merged /\ f \notin IpField
                 => values[f] = Interpolate(merged[f], known)
            /\ f \in DOMAIN merged /\ f \in IpField
                 => values[f] = IF merged[f] = AutoIp THEN node ELSE merged[f]
  BY <1>1, EffectiveMeaning
<1> HIDE DEF config, merged
<1>3. /\ run.by = "headless" /\ run.manifest = manifest /\ run.file = lines /\ run.node = node
      /\ run.values = values /\ run.domain = domain /\ run.typed = {}
  BY DEF HeadlessRun, lines
<1> HIDE DEF values, domain
<1>4. Known(run) = known
  BY <1>3, KnownGiven
<1>5. IsMap(known)
  <2>1. IsMap(values)
    BY <1>2, FieldFacts DEF IsMap
  <2> QED
    BY <1>2, <2>1, GivenFacts
<1> HIDE DEF run, known
<1>6. \A f \in Field : f \in DOMAIN lines => f \in DOMAIN merged /\ merged[f] = lines[f]
  BY <1>1, MergeFacts DEF merged
<1>7. "domain" \in DOMAIN lines => domain = lines["domain"]
  BY <1>1, <1>2, MergeFacts DEF merged
<1>8. ASSUME NEW f \in Field, IsDerived(manifest, f), f \notin DOMAIN lines
      PROVE  values[f] = Interpolate(manifest.default[f], known)
  <2>1. /\ f \notin IpField
        /\ manifest.default[f] # Unset
             => f \in DOMAIN merged /\ merged[f] = manifest.default[f]
        /\ manifest.default[f] = Unset => f \notin DOMAIN merged
    BY <1>1, <1>8, DerivedText DEF merged
  <2>2. CASE manifest.default[f] = Unset
    <3>1. Interpolate(Unset, known) = Unset
      BY <1>5, UnsetFacts, InterpolatePlain
    <3> QED
      BY <1>2, <2>1, <2>2, <3>1
  <2>3. CASE manifest.default[f] # Unset
    BY <1>2, <2>1, <2>3
  <2> QED
    BY <2>2, <2>3
<1>9. Rederived(run)
  BY <1>3, <1>4, <1>8 DEF Rederived
<1>10. HeadlessInv(run)
  <2>1. \A f \in Field \cap DOMAIN lines : values[f] = FromFile(run, f)
    BY <1>2, <1>3, <1>4, <1>6 DEF FromFile
  <2> QED
    BY <1>1, <1>2, <1>3, <1>7, <2>1 DEF HeadlessInv
<1>11. /\ Plain("domain", run.domain)
       /\ \A k \in DOMAIN run.values : Settled(k, run.values[k])
       /\ "domain" \in DOMAIN run.values => run.values["domain"] = run.domain
  BY <1>2, <1>3
<1> QED
  BY <1>9, <1>10, <1>11 DEF RunInv, run, config, lines

\* So are those that the configuration screen gives to the engine: config.py of
\* the screens collects them from what the domain screen derived.
LEMMA ScreenRunInv ==
    ASSUME Resolvable, TypeOK, ScreenInv, screen.at = "config", NEW typed \in Typing
    PROVE  RunInv(ScreenRun(typed))
<1> DEFINE m == screen.manifest
           shown == screen.shown
           values == Collected(typed)
           run == ScreenRun(typed)
           known == Given(values, screen.domain)
<1>1. screen # Closed
  BY DEF Closed
<1>2. /\ m \in Manifests /\ IsMap(shown) /\ screen.domain \in Value
  BY <1>1, ScreenFacts
<1>3. /\ values \in [Field \cup {"domain"} -> Value] /\ values["domain"] = screen.domain
      /\ \A f \in DOMAIN typed : values[f] = typed[f]
      /\ \A f \in Field \ (DOMAIN typed \cup {"domain"}) : values[f] = Widget(shown[f])
  BY <1>1, CollectedFacts
<1>4. /\ DOMAIN typed \subseteq Field \ {"domain"}
      /\ \A f \in DOMAIN typed : f \in DOMAIN Types /\ typed[f] \in Types[f]
  BY TypingFacts
<1>5. /\ Plain("domain", screen.domain) /\ shown \in [Key -> Value]
      /\ shown["domain"] = screen.domain /\ shown["domain_dn"] = DomainToDn(screen.domain)
      /\ \A k \in Key : Settled(k, shown[k])
      /\ \A f \in Field : IsDerived(m, f) =>
            /\ m.default[f] = Unset /\ f \notin DOMAIN screen.file => shown[f] = Unset
            /\ m.default[f] # Unset => shown[f] = Interpolate(m.default[f], shown)
  BY <1>1 DEF ScreenInv
<1>6. "domain_dn" \notin Field /\ "domain" \notin IpField
  BY <1>2, RankFacts
<1>7. /\ run.by = "screens" /\ run.manifest = m /\ run.file = screen.file
      /\ run.values = values /\ run.domain = screen.domain /\ run.typed = DOMAIN typed
  BY DEF ScreenRun
<1>8. Known(run) = known
  BY <1>7, KnownGiven
<1> HIDE DEF values, run
<1>9. /\ IsMap(known) /\ \A k \in Field \cup {"domain"} : known[k] = values[k]
      /\ known["domain_dn"] = DomainToDn(screen.domain)
      /\ DOMAIN known = Field \cup {"domain", "domain_dn"}
  <2>1. IsMap(values) /\ DOMAIN values = Field \cup {"domain"}
    BY <1>3, FieldFacts DEF IsMap
  <2>2. "domain_dn" \notin DOMAIN values
    BY <1>6, <2>1
  <2>3. /\ IsMap(known) /\ DOMAIN known = DOMAIN values \cup {"domain", "domain_dn"}
        /\ \A k \in DOMAIN values : known[k] = values[k]
        /\ "domain_dn" \notin DOMAIN values
              => known["domain_dn"] = DomainToDn(screen.domain)
    BY <1>2, <2>1, GivenFacts
  <2> HIDE DEF known
  <2> QED
    BY <2>1, <2>2, <2>3
<1> HIDE DEF known
<1>10. \A f \in Field \ (DOMAIN typed \cup {"domain"} \cup IpField) : values[f] = shown[f]
  BY <1>3, <1>5, FieldFacts DEF Settled, Plain, Widget
<1>11. ASSUME NEW f \in Field, IsDerived(m, f), f \notin DOMAIN screen.file \cup DOMAIN typed,
              \A k \in DOMAIN typed : k \notin Refs(m.default[f])
       PROVE  values[f] = Interpolate(m.default[f], known)
  <2>1. f \notin IpField /\ f # "domain"
    BY <1>2, <1>11, RankFacts
  <2>2. values[f] = shown[f]
    BY <1>10, <1>11, <2>1
  <2>3. CASE m.default[f] = Unset
    <3>1. shown[f] = Unset
      BY <1>5, <1>11, <2>3
    <3>2. Interpolate(Unset, known) = Unset
      BY <1>9, UnsetFacts, InterpolatePlain
    <3> QED
      BY <2>2, <2>3, <3>1, <3>2
  <2>4. CASE m.default[f] # Unset
    <3>1. shown[f] = Interpolate(m.default[f], shown)
      BY <1>5, <1>11, <2>4
    <3>2. PICK rank : Ranks(m, rank)
      BY <1>2, RankFacts
    <3>3. \A j \in Refs(m.default[f]) : j \in Mentionable(m)
      BY <3>2 DEF Ranks, Fits
    <3>4. ASSUME NEW j \in Refs(m.default[f])
          PROVE  j \in DOMAIN shown /\ j \in DOMAIN known /\ known[j] = shown[j]
      <4>1. j \in Mentionable(m) /\ j \in Key \ IpField /\ j \notin DOMAIN typed
        BY <1>2, <1>11, <3>3, MentionableFacts
      <4>2. CASE j = "domain"
        BY <1>3, <1>5, <1>9, <4>1, <4>2
      <4>3. CASE j = "domain_dn"
        BY <1>5, <1>9, <4>1, <4>3
      <4>4. CASE j \in Field \ {"domain"}
        BY <1>5, <1>9, <1>10, <4>1, <4>4
      <4> QED
        BY <4>1, <4>2, <4>3, <4>4, FieldFacts
    <3>5. m.default[f] \in Value
      BY <1>2, ReleaseFacts
    <3>6. Interpolate(m.default[f], known) = Interpolate(m.default[f], shown)
      BY <1>2, <1>9, <3>4, <3>5, AgreeingValue
    <3> QED
      BY <2>2, <3>1, <3>6
  <2> QED
    BY <2>3, <2>4
<1>12. Rederived(run)
  BY <1>7, <1>8, <1>11 DEF Rederived
<1>13. ASSUME NEW k \in Field \cup {"domain"} PROVE Settled(k, values[k])
  <2>1. CASE k = "domain"
    BY <1>3, <1>5, <1>6, <2>1 DEF Settled
  <2>2. CASE k \in DOMAIN typed
    <3>1. Plain(k, typed[k]) /\ (k \in IpField => typed[k] # AutoIp)
      BY <1>4, <2>2 DEF Resolvable
    <3> QED
      BY <1>3, <2>2, <3>1 DEF Settled
  <2>3. CASE k \in Field \ (DOMAIN typed \cup {"domain"})
    <3>1. Settled(k, shown[k])
      BY <1>5, <2>3, FieldFacts
    <3>2. Settled(k, Unset)
      BY UnsetFacts, AutoFacts DEF Settled, Plain
    <3> QED
      BY <1>3, <2>3, <3>1, <3>2 DEF Widget
  <2> QED
    BY <2>1, <2>2, <2>3
<1> QED
  BY <1>3, <1>5, <1>7, <1>12, <1>13 DEF RunInv, run

-----------------------------------------------------------------------------
(* The steps keep the invariant. *)

\* A save leaves a cache and a last run that fit each other, even when it is cut
\* short: state.py:163.
LEMMA SavedInv ==
    ASSUME TypeOK, CacheInv, LastInv, NEW run, RunOK(run), RunInv(run), Save(run)
    PROVE  CacheInv' /\ LastInv'
<1>1. CASE cache' = run.values /\ torn' = FALSE /\ last' = run
  <2>1. DOMAIN run.values \subseteq Field \cup {"domain"}
    BY DEF RunOK
  <2>2. CacheInv'
    BY <1>1, <2>1 DEF CacheInv, RunInv
  <2> QED
    BY <1>1, <2>2 DEF LastInv
<1>2. CASE cache' = Empty /\ torn' = TRUE /\ last' = last
  <2>1. CacheInv'
    BY <1>2, EmptyMap DEF CacheInv
  <2> QED
    BY <1>2, <2>1 DEF LastInv
<1> QED
  BY <1>1, <1>2, SaveCases

\* Nothing is configured at the start.
LEMMA InitInv == Init => ConfigInv
<1> SUFFICES ASSUME Init PROVE ConfigInv
  OBVIOUS
<1>1. file.lines = Empty /\ cache = Empty /\ screen = Closed /\ last = NoRun
  BY DEF Init
<1>2. FileInv /\ CacheInv
  BY <1>1, EmptyMap DEF FileInv, LinesFit, CacheInv
<1>3. ScreenInv /\ LastInv
  BY <1>1 DEF ScreenInv, LastInv
<1> QED
  BY <1>2, <1>3, InitType DEF ConfigInv

\* Steps of one part leave the invariants of the others alone.
LEMMA CacheKept == CacheInv /\ UNCHANGED <<cache, torn, last>> => CacheInv'
BY DEF CacheInv

LEMMA ScreenKept == ScreenInv /\ UNCHANGED screen => ScreenInv'
BY DEF ScreenInv

LEMMA LastKept == LastInv /\ UNCHANGED last => LastInv'
BY DEF LastInv

LEMMA FileKept == FileInv /\ UNCHANGED file => FileInv'
BY DEF FileInv

LEMMA ClosedInv == screen' = Closed => ScreenInv'
BY DEF ScreenInv

\* Every step keeps the invariant.
LEMMA HeadlessStep == Resolvable /\ ConfigInv /\ Headless => ConfigInv'
<1> SUFFICES ASSUME Resolvable, ConfigInv, Headless PROVE ConfigInv'
  OBVIOUS
<1> DEFINE config == EffectiveConfig(manifest, cache, Lines(file))
           run == HeadlessRun(config)
<1>1. Save(run) /\ UNCHANGED <<file, screen>>
  BY DEF Headless, HeadlessRun, host
<1>2. RunInv(run)
  BY HeadlessRunInv DEF ConfigInv
<1>3. RunOK(run)
  <2>1. manifest \in Manifests /\ node \in Addresses /\ IsMap(cache) /\ IsMap(Lines(file))
    BY LinesMap DEF ConfigInv, TypeOK
  <2>2. config.values \in [Field -> Value] /\ config.domain \in Value
    BY <2>1, EffectiveType
  <2> HIDE DEF config
  <2> QED
    BY <2>1, <2>2 DEF RunOK, HeadlessRun
<1> HIDE DEF run
<1>4. CacheInv' /\ LastInv'
  BY <1>1, <1>2, <1>3, SavedInv DEF ConfigInv
<1> QED
  BY <1>1, <1>4, HeadlessType, FileKept, ScreenKept DEF ConfigInv

LEMMA OpenScreensStep == Resolvable /\ ConfigInv /\ OpenScreens => ConfigInv'
<1> SUFFICES ASSUME Resolvable, ConfigInv, OpenScreens PROVE ConfigInv'
  OBVIOUS
<1> DEFINE lines == Lines(file)
           merged == Merge(manifest, cache, lines)
           config == EffectiveConfig(manifest, cache, lines)
<1>1. /\ screen' = [at |-> "domain", manifest |-> manifest, file |-> lines,
                    shown |-> config.values, domain |-> config.domain]
      /\ UNCHANGED <<file, node, manifest, cache, torn, last, runs, edits>>
  BY DEF OpenScreens, host
<1>2. /\ manifest \in Manifests /\ node \in Addresses /\ IsMap(cache) /\ IsMap(lines)
      /\ LinesFit(cache) /\ LinesFit(lines)
  BY LinesMap, LinesOfFile, LinesOfCache DEF ConfigInv, TypeOK
<1> HIDE DEF lines
<1>3. /\ config.values \in [Field -> Value] /\ Plain("domain", config.domain)
      /\ \A f \in Field : /\ Settled(f, config.values[f])
                          /\ f \notin DOMAIN merged => config.values[f] = Unset
  BY <1>2, EffectiveMeaning
<1> HIDE DEF config, merged
<1>4. \A f \in Field : IsDerived(manifest, f) /\ manifest.default[f] = Unset
                          /\ f \notin DOMAIN lines => config.values[f] = Unset
  <2> TAKE f \in Field
  <2>1. HAVE IsDerived(manifest, f) /\ manifest.default[f] = Unset /\ f \notin DOMAIN lines
  <2>2. f \notin DOMAIN merged
    BY <1>2, <2>1, DerivedText DEF merged
  <2> QED
    BY <1>3, <2>2
<1>5. ScreenInv'
  BY <1>1, <1>3, <1>4 DEF ScreenInv
<1> QED
  BY <1>1, <1>5, OpenScreensType, FileKept, CacheKept, LastKept DEF ConfigInv

LEMMA DomainNextStep == Resolvable /\ ConfigInv /\ DomainNext => ConfigInv'
<1> SUFFICES ASSUME Resolvable, ConfigInv, DomainNext PROVE ConfigInv'
  OBVIOUS
<1>1. screen # Closed /\ UNCHANGED <<file, node, manifest, cache, torn, last, runs, edits>>
  BY DEF DomainNext, Closed, host
<1>2. PICK d \in Domains \cup {screen.domain} :
          screen' = [screen EXCEPT !.at = "config", !.domain = d,
                        !.shown = RederiveForDomain(screen.manifest, screen.shown, d)]
  BY DEF DomainNext
<1>3. /\ screen.manifest \in Manifests /\ IsMap(screen.file) /\ IsMap(screen.shown)
      /\ screen.domain \in Value /\ Field \subseteq DOMAIN screen.shown
      /\ screen = [at |-> screen.at, manifest |-> screen.manifest, file |-> screen.file,
                   shown |-> screen.shown, domain |-> screen.domain]
  BY <1>1, ScreenFacts DEF ConfigInv
<1>4. /\ Plain("domain", screen.domain)
      /\ \A k \in DOMAIN screen.shown : Settled(k, screen.shown[k])
      /\ \A f \in Field : IsDerived(screen.manifest, f) /\ screen.manifest.default[f] = Unset
                            /\ f \notin DOMAIN screen.file => screen.shown[f] = Unset
  BY <1>1 DEF ConfigInv, ScreenInv
<1>5. d \in Value /\ Plain("domain", d)
  BY <1>3, <1>4, AssumedTypes DEF Resolvable
<1> DEFINE shown == RederiveForDomain(screen.manifest, screen.shown, d)
<1>6. screen' = [at |-> "config", manifest |-> screen.manifest, file |-> screen.file,
                 shown |-> shown, domain |-> d]
  BY <1>2, <1>3
<1>7. shown \in [Key -> Value]
  BY <1>3, <1>5, RederiveType
<1>8. /\ shown["domain"] = d /\ shown["domain_dn"] = DomainToDn(d)
      /\ \A k \in Key : Settled(k, shown[k])
      /\ \A f \in Field : IsDerived(screen.manifest, f) =>
            IF screen.manifest.default[f] = Unset THEN shown[f] = screen.shown[f]
            ELSE shown[f] = Interpolate(screen.manifest.default[f], shown)
  BY <1>3, <1>4, <1>5, RederiveMeaning
<1> HIDE DEF shown
<1>9. /\ screen'.at = "config" /\ screen'.manifest = screen.manifest
      /\ screen'.file = screen.file /\ screen'.shown = shown /\ screen'.domain = d
  BY <1>6
<1>10. \A f \in Field : IsDerived(screen.manifest, f) =>
           /\ screen.manifest.default[f] = Unset /\ f \notin DOMAIN screen.file
                => shown[f] = Unset
           /\ screen.manifest.default[f] # Unset
                => shown[f] = Interpolate(screen.manifest.default[f], shown)
  BY <1>4, <1>8
<1>11. \A k \in DOMAIN shown : Settled(k, shown[k])
  BY <1>7, <1>8
<1>12. ScreenInv'
  BY <1>5, <1>7, <1>8, <1>9, <1>10, <1>11 DEF ScreenInv
<1> QED
  BY <1>1, <1>12, DomainNextType, FileKept, CacheKept, LastKept DEF ConfigInv

LEMMA BackStep == ConfigInv /\ Back => ConfigInv'
<1> SUFFICES ASSUME ConfigInv, Back PROVE ConfigInv'
  OBVIOUS
<1>1. /\ screen # Closed /\ screen' = [screen EXCEPT !.at = "domain"]
      /\ UNCHANGED <<file, node, manifest, cache, torn, last, runs, edits>>
  BY DEF Back, Closed, host
<1>2. screen = [at |-> screen.at, manifest |-> screen.manifest, file |-> screen.file,
                shown |-> screen.shown, domain |-> screen.domain]
  BY <1>1, ScreenFacts DEF ConfigInv
<1>3. screen' = [at |-> "domain", manifest |-> screen.manifest, file |-> screen.file,
                 shown |-> screen.shown, domain |-> screen.domain]
  BY <1>1, <1>2
<1>4. /\ screen'.at = "domain" /\ screen'.manifest = screen.manifest
      /\ screen'.file = screen.file /\ screen'.shown = screen.shown
      /\ screen'.domain = screen.domain
  BY <1>3
<1>5. ScreenInv'
  BY <1>1, <1>4 DEF ConfigInv, ScreenInv
<1> QED
  BY <1>1, <1>5, BackType, FileKept, CacheKept, LastKept DEF ConfigInv

LEMMA ConfigNextStep == Resolvable /\ ConfigInv /\ ConfigNext => ConfigInv'
<1> SUFFICES ASSUME Resolvable, ConfigInv, ConfigNext PROVE ConfigInv'
  OBVIOUS
<1>1. screen.at = "config" /\ screen' = Closed /\ UNCHANGED file
  BY DEF ConfigNext, host
<1>2. PICK typed \in Typing : Save(ScreenRun(typed))
  BY Zenon DEF ConfigNext, Typing, ScreenRun, Collected, Inputs
<1>3. screen # Closed
  BY <1>1 DEF Closed
<1>4. RunInv(ScreenRun(typed))
  BY <1>1, ScreenRunInv DEF ConfigInv
<1>5. RunOK(ScreenRun(typed))
  <2>1. /\ screen.manifest \in Manifests /\ IsMap(screen.file) /\ screen.domain \in Value
        /\ node \in Addresses
    BY <1>3, ScreenFacts DEF ConfigInv, TypeOK
  <2>2. Collected(typed) \in [Field \cup {"domain"} -> Value] /\ DOMAIN typed \subseteq Field
    BY <1>3, CollectedFacts, TypingFacts DEF ConfigInv
  <2> QED
    BY <2>1, <2>2 DEF RunOK, ScreenRun
<1>6. CacheInv' /\ LastInv'
  BY <1>2, <1>4, <1>5, SavedInv DEF ConfigInv
<1> QED
  BY <1>1, <1>6, ConfigNextType, FileKept, ClosedInv DEF ConfigInv

LEMMA QuitStep == ConfigInv /\ Quit => ConfigInv'
<1> SUFFICES ASSUME ConfigInv, Quit PROVE ConfigInv'
  OBVIOUS
<1>1. screen' = Closed /\ UNCHANGED <<file, cache, torn, last>>
  BY DEF Quit, host
<1> QED
  BY <1>1, QuitType, FileKept, CacheKept, LastKept, ClosedInv DEF ConfigInv

\* The lines of a file stay lines that fit.
LEMMA AddedLines ==
    ASSUME NEW one, LinesFit(one), NEW two, LinesFit(two)
    PROVE  LinesFit(one ++ two)
<1>1. /\ DOMAIN (one ++ two) = DOMAIN one \cup DOMAIN two
      /\ \A k \in DOMAIN one : (one ++ two)[k] = one[k]
      /\ \A k \in DOMAIN two \ DOMAIN one : (one ++ two)[k] = two[k]
  BY Merged
<1> DEFINE both == one ++ two
<1> HIDE DEF both
<1>2. /\ DOMAIN both = DOMAIN one \cup DOMAIN two
      /\ \A k \in DOMAIN one : both[k] = one[k]
      /\ \A k \in DOMAIN two \ DOMAIN one : both[k] = two[k]
  BY <1>1 DEF both
<1> QED
  BY <1>2 DEF LinesFit, both

\* The operator and init-env leave lines that fit.
LEMMA FileStep ==
    ASSUME Resolvable, ConfigInv,
           EditFile \/ RemoveLine \/ BreakFile \/ InitEnv \/ Upgrade \/ HostMoves
    PROVE  FileInv'
<1>1. /\ LinesFit(Lines(file)) /\ LinesFit(file.lines) /\ IsMap(file.lines) /\ IsMap(Lines(file))
      /\ manifest \in Manifests /\ node \in Addresses
  BY LinesOfFile, LinesMap DEF ConfigInv, FileInv, TypeOK
<1>2. CASE EditFile
  <2>1. PICK k \in DOMAIN Writes :
            \E v \in Writes[k] : file' = Yaml(Entry(k, v) ++ Lines(file))
    BY <1>2 DEF EditFile
  <2>2. PICK v \in Writes[k] : file' = Yaml(Entry(k, v) ++ Lines(file))
    BY <2>1
  <2>3. LinesFit(Entry(k, v))
    BY AssumedTypes, SingleEntry DEF LinesFit
  <2>4. LinesFit(Entry(k, v) ++ Lines(file))
    BY <1>1, <2>3, AddedLines
  <2> QED
    BY <2>2, <2>4 DEF FileInv, Yaml
<1>3. CASE RemoveLine
  <2>1. PICK k \in DOMAIN file.lines :
            file' = Yaml(Restrict(file.lines, DOMAIN file.lines \ {k}))
    BY <1>3 DEF RemoveLine
  <2>2. LinesFit(Restrict(file.lines, DOMAIN file.lines \ {k}))
    BY <1>1, Restricted DEF LinesFit
  <2> QED
    BY <2>1, <2>2 DEF FileInv, Yaml
<1>4. CASE BreakFile
  BY <1>4, EmptyMap DEF BreakFile, FileInv, LinesFit
<1>5. CASE InitEnv
  <2>1. PICK given \in {Empty} \cup {Entry("domain", d) : d \in Domains} :
            file' = Yaml(Rendered(manifest, given ++ Lines(file)))
    BY <1>5 DEF InitEnv
  <2>2. IsMap(given)
    BY EmptyMap, AssumedTypes, FieldFacts, EntryMap
  <2>3. LinesFit(given)
    <3>1. CASE given = Empty
      BY <3>1, EmptyMap DEF LinesFit
    <3>2. CASE given # Empty
      <4>1. PICK d \in Domains : given = Entry("domain", d)
        BY <3>2
      <4>2. Plain("domain", d)
        BY DEF Resolvable
      <4>3. DOMAIN given = {"domain"} /\ given["domain"] = d
        BY <4>1, SingleEntry
      <4> QED
        BY <4>2, <4>3 DEF LinesFit
    <3> QED
      BY <3>1, <3>2
  <2> DEFINE existing == given ++ Lines(file)
             config == EffectiveConfig(manifest, existing, Empty)
  <2>4. IsMap(existing)
    BY <1>1, <2>2, MergedMap
  <2>5. LinesFit(existing)
    BY <1>1, <2>3, AddedLines
  <2> HIDE DEF existing
  <2>6. LinesFit(Empty)
    BY EmptyMap DEF LinesFit
  <2>7. /\ Plain("domain", config.domain)
        /\ \A f \in Field : Settled(f, config.values[f])
    BY <1>1, <2>4, <2>5, <2>6, EmptyMap, EffectiveMeaning
  <2>8. \A k \in DOMAIN Rendered(manifest, existing) :
            \/ k = "domain" /\ Rendered(manifest, existing)[k] = config.domain
            \/ k \in Field /\ Rendered(manifest, existing)[k] = config.values[k]
    BY <1>1, <2>4, RenderedFacts
  <2> HIDE DEF config
  <2>9. LinesFit(Rendered(manifest, existing))
    BY <2>7, <2>8 DEF LinesFit, Settled
  <2> QED
    BY <2>1, <2>9 DEF FileInv, Yaml, existing
<1>6. CASE Upgrade \/ HostMoves
  BY <1>6, FileKept DEF ConfigInv, Upgrade, HostMoves
<1> QED
  BY <1>2, <1>3, <1>4, <1>5, <1>6

LEMMA OperatorStep ==
    Resolvable /\ ConfigInv
        /\ (EditFile \/ RemoveLine \/ BreakFile \/ InitEnv \/ Upgrade \/ HostMoves)
        => ConfigInv'
<1> SUFFICES ASSUME Resolvable, ConfigInv,
                    EditFile \/ RemoveLine \/ BreakFile \/ InitEnv \/ Upgrade \/ HostMoves
             PROVE  ConfigInv'
  OBVIOUS
<1>1. UNCHANGED <<cache, torn, screen, last>>
  BY DEF EditFile, RemoveLine, BreakFile, InitEnv, Upgrade, HostMoves, Edit
<1>2. FileInv'
  BY FileStep
<1> QED
  BY <1>1, <1>2, OperatorType, CacheKept, ScreenKept, LastKept DEF ConfigInv

LEMMA StutterInv == ConfigInv /\ UNCHANGED vars => ConfigInv'
<1> SUFFICES ASSUME ConfigInv, UNCHANGED vars PROVE ConfigInv'
  OBVIOUS
<1>1. UNCHANGED <<file, cache, torn, screen, last>>
  BY DEF vars, host
<1>2. TypeOK'
  BY NextType DEF ConfigInv
<1> QED
  BY <1>1, <1>2, FileKept, CacheKept, ScreenKept, LastKept DEF ConfigInv

LEMMA NextInv == Resolvable /\ ConfigInv /\ [Next]_vars => ConfigInv'
BY HeadlessStep, OpenScreensStep, DomainNextStep, BackStep, ConfigNextStep, QuitStep,
   OperatorStep, StutterInv DEF Next

\* The inductive invariant of the configuration.
THEOREM ConfigIsSettled ==
    ASSUME Resolvable
    PROVE  Spec => []ConfigInv
BY InitInv, NextInv, PTL DEF Spec

LEMMA LastOK == TypeOK /\ last # NoRun => RunOK(last)
BY DEF TypeOK, RunOK, Run

\* No run works with a value derived from an older domain or release.
THEOREM ConfigConsistent ==
    ASSUME Resolvable
    PROVE  Spec => []Consistent
<1>1. ConfigInv => Consistent
  BY LastOK DEF ConfigInv, LastInv, RunInv, Consistent
<1> QED
  BY <1>1, ConfigIsSettled, PTL

-----------------------------------------------------------------------------
(* From one run to the next *)

\* Only a headless run leaves a headless run.
LEMMA ByHeadless ==
    ASSUME TypeOK, [Next]_vars, last' # last, last'.by = "headless"
    PROVE  last' = HeadlessRun(EffectiveConfig(manifest, cache, Lines(file)))
<1>1. CASE Headless
  BY <1>1 DEF Headless, Save, HeadlessRun
<1>2. CASE ConfigNext
  <2>1. PICK typed \in Typing : Save(ScreenRun(typed))
    BY <1>2, Zenon DEF ConfigNext, Typing, ScreenRun, Collected, Inputs
  <2>2. last' = ScreenRun(typed)
    BY <2>1 DEF Save
  <2> QED
    BY <2>2 DEF ScreenRun
<1>3. CASE ~ Headless /\ ~ ConfigNext
  BY <1>3 DEF Next, vars, OpenScreens, DomainNext, Back, Quit, EditFile, RemoveLine,
              BreakFile, InitEnv, Upgrade, HostMoves, Edit
<1> QED
  BY <1>1, <1>2, <1>3

\* What a headless run makes of the cache.
LEMMA HeadlessKeeps ==
    ASSUME Resolvable, ConfigInv, last # NoRun, ~ torn,
           NEW f \in Field \cap DOMAIN cache, f \notin DOMAIN Lines(file),
           ~ IsDerived(manifest, f)
    PROVE  EffectiveConfig(manifest, cache, Lines(file)).values[f] = last.values[f]
<1> DEFINE lines == Lines(file)
           merged == Merge(manifest, cache, lines)
           config == EffectiveConfig(manifest, cache, lines)
<1>1. /\ manifest \in Manifests /\ node \in Addresses /\ IsMap(cache) /\ IsMap(lines)
      /\ LinesFit(cache) /\ LinesFit(lines)
  BY LinesMap, LinesOfFile, LinesOfCache DEF ConfigInv, TypeOK
<1>2. cache = last.values /\ Settled(f, cache[f])
  BY DEF ConfigInv, CacheInv
<1> HIDE DEF lines
<1>3. f \in DOMAIN merged /\ merged[f] = cache[f]
  <2>1. f \notin DOMAIN lines
    BY DEF lines
  <2> QED
    BY <1>1, <2>1, MergeFacts
<1>4. /\ f \notin IpField /\ Refs(merged[f]) = {} => config.values[f] = merged[f]
      /\ f \in IpField => config.values[f] = IF merged[f] = AutoIp THEN node ELSE merged[f]
  BY <1>1, <1>3, EffectiveMeaning
<1> HIDE DEF merged, config
<1>5. config.values[f] = last.values[f]
  BY <1>2, <1>3, <1>4 DEF Settled, Plain
<1> QED
  BY <1>5 DEF config, lines

\* So does every step that ends in a headless run.
LEMMA KeptStep ==
    ASSUME Resolvable, ConfigInv, [Next]_vars,
           last' # last, last # NoRun, last'.by = "headless", ~ torn,
           NEW f \in (Field \ DOMAIN last'.file) \cap DOMAIN cache,
           ~ IsDerived(last'.manifest, f)
    PROVE  last'.values[f] = last.values[f]
<1> DEFINE config == EffectiveConfig(manifest, cache, Lines(file))
<1>1. last' = HeadlessRun(config)
  BY ByHeadless DEF ConfigInv
<1> HIDE DEF config
<1>2. last'.file = Lines(file) /\ last'.manifest = manifest /\ last'.values = config.values
  BY <1>1 DEF HeadlessRun
<1>3. config.values[f] = last.values[f]
  BY <1>2, HeadlessKeeps DEF config
<1> QED
  BY <1>2, <1>3

\* Nothing that was chosen before is lost in a headless run.
THEOREM ChoicesAreKept ==
    ASSUME Resolvable
    PROVE  Spec => Kept
<1>1. ConfigInv /\ [Next]_vars =>
          [last' # last /\ last # NoRun /\ last'.by = "headless" /\ ~ torn =>
              \A f \in (Field \ DOMAIN last'.file) \cap DOMAIN cache :
                  ~ IsDerived(last'.manifest, f) => last'.values[f] = last.values[f]]_vars
  BY KeptStep
<1> QED
  BY <1>1, ConfigIsSettled, PTL DEF Spec, Kept

\* Two headless runs with the same release, file and node, and with the same
\* values for what is neither derived nor in the file, have the same values.
LEMMA SameRun ==
    ASSUME Resolvable, NEW one, NEW two, RunOK(one), RunOK(two), RunInv(one), RunInv(two),
           one.by = "headless", two.by = "headless", one.manifest = two.manifest,
           one.file = two.file, one.node = two.node,
           "domain" \in Field \cup DOMAIN one.file,
           \A f \in Field \ DOMAIN one.file :
              ~ IsDerived(one.manifest, f) => two.values[f] = one.values[f]
    PROVE  two.values = one.values /\ two.domain = one.domain
<1> DEFINE m == one.manifest
           knownOne == Given(one.values, one.domain)
           knownTwo == Given(two.values, two.domain)
<1>1. /\ m \in Manifests /\ LinesFit(one.file) /\ IsMap(one.file)
      /\ one.values \in [Field -> Value] /\ two.values \in [Field -> Value]
      /\ one.domain \in Value /\ two.domain \in Value
      /\ one.typed = {} /\ two.typed = {}
  BY DEF RunOK, RunInv, HeadlessInv
<1>2. PICK rank : Ranks(m, rank)
  BY <1>1, RankFacts
<1>3. "domain_dn" \notin Field /\ ("domain" \in Field => ~ IsDerived(m, "domain"))
  BY <1>1, RankFacts
<1>4. two.domain = one.domain
  <2>1. CASE "domain" \in DOMAIN one.file
    BY <2>1 DEF RunInv, HeadlessInv
  <2>2. CASE "domain" \in Field \ DOMAIN one.file
    <3>1. two.values["domain"] = one.values["domain"]
      BY <1>3, <2>2
    <3>2. one.values["domain"] = one.domain /\ two.values["domain"] = two.domain
      BY <1>1, <2>2 DEF RunInv
    <3> QED
      BY <3>1, <3>2
  <2> QED
    BY <2>1, <2>2
<1>5. /\ IsMap(knownOne) /\ DOMAIN knownOne = Field \cup {"domain", "domain_dn"}
      /\ \A k \in Field : knownOne[k] = one.values[k]
      /\ "domain" \notin Field => knownOne["domain"] = one.domain
      /\ knownOne["domain_dn"] = DomainToDn(one.domain)
  <2>1. IsMap(one.values) /\ DOMAIN one.values = Field
    BY <1>1, FieldFacts DEF IsMap
  <2> QED
    BY <1>1, <1>3, <2>1, GivenFacts
<1>6. /\ IsMap(knownTwo) /\ DOMAIN knownTwo = Field \cup {"domain", "domain_dn"}
      /\ \A k \in Field : knownTwo[k] = two.values[k]
      /\ "domain" \notin Field => knownTwo["domain"] = two.domain
      /\ knownTwo["domain_dn"] = DomainToDn(two.domain)
  <2>1. IsMap(two.values) /\ DOMAIN two.values = Field
    BY <1>1, FieldFacts DEF IsMap
  <2> QED
    BY <1>1, <1>3, <2>1, GivenFacts
<1>7. Known(one) = knownOne /\ Known(two) = knownTwo
  BY KnownGiven
<1> HIDE DEF knownOne, knownTwo
<1>8. ASSUME NEW f \in Field, NEW v \in Value, Fits(m, rank, f, v),
             \A j \in Field : rank[j] < rank[f] => one.values[j] = two.values[j]
      PROVE  Interpolate(v, Known(one)) = Interpolate(v, Known(two))
  <2>1. ASSUME NEW j \in Refs(v)
        PROVE  j \in DOMAIN knownOne /\ j \in DOMAIN knownTwo /\ knownOne[j] = knownTwo[j]
    <3>1. j \in Field \cup {"domain", "domain_dn"} /\ rank[j] < rank[f]
      BY <1>8 DEF Fits, Mentionable
    <3>2. CASE j \in Field
      BY <1>5, <1>6, <1>8, <3>1, <3>2
    <3>3. CASE j = "domain" /\ j \notin Field
      BY <1>4, <1>5, <1>6, <3>3
    <3>4. CASE j = "domain_dn"
      BY <1>4, <1>5, <1>6, <3>4
    <3> QED
      BY <3>1, <3>2, <3>3, <3>4
  <2>2. Interpolate(v, knownOne) = Interpolate(v, knownTwo)
    BY <1>5, <1>6, <2>1, AgreeingValue
  <2> QED
    BY <1>7, <2>2
<1>9. ASSUME NEW f \in Field,
             \A j \in Field : rank[j] < rank[f] => one.values[j] = two.values[j]
      PROVE  one.values[f] = two.values[f]
  <2>1. CASE f \in DOMAIN one.file
    <3>1. one.values[f] = FromFile(one, f) /\ two.values[f] = FromFile(two, f)
      BY <2>1 DEF RunInv, HeadlessInv
    <3>2. CASE f \in IpField
      BY <3>1, <3>2 DEF FromFile
    <3>3. CASE f \notin IpField
      <4>1. one.file[f] \in Value /\ Fits(m, rank, f, one.file[f])
        BY <1>1, <1>2, <2>1, LineFits DEF IsMap
      <4>2. Interpolate(one.file[f], Known(one)) = Interpolate(one.file[f], Known(two))
        BY <1>8, <1>9, <4>1
      <4> QED
        BY <3>1, <3>3, <4>2 DEF FromFile
    <3> QED
      BY <3>2, <3>3
  <2>2. CASE f \notin DOMAIN one.file /\ IsDerived(m, f)
    <3>1. /\ one.values[f] = Interpolate(m.default[f], Known(one))
          /\ two.values[f] = Interpolate(m.default[f], Known(two))
      BY <1>1, <2>2 DEF RunInv, Rederived
    <3>2. m.default[f] \in Value /\ Fits(m, rank, f, m.default[f])
      BY <1>1, <1>2, ReleaseFacts DEF Ranks
    <3>3. Interpolate(m.default[f], Known(one)) = Interpolate(m.default[f], Known(two))
      BY <1>8, <1>9, <3>2
    <3> QED
      BY <3>1, <3>3
  <2>3. CASE f \notin DOMAIN one.file /\ ~ IsDerived(m, f)
    BY <2>3
  <2> QED
    BY <2>1, <2>2, <2>3
<1>10. \A f \in Field : rank[f] \in 0 .. 4
  BY <1>2, FieldFacts DEF Ranks
<1> DEFINE T == {i \in 0 .. 5 : \A f \in Field : rank[f] < i => one.values[f] = two.values[f]}
<1>11. 0 \in T
  BY <1>10
<1>12. ASSUME NEW i \in 1 .. 5, i - 1 \in T PROVE i \in T
  <2> SUFFICES ASSUME NEW f \in Field, rank[f] < i PROVE one.values[f] = two.values[f]
    OBVIOUS
  <2>1. \A j \in Field : rank[j] < i - 1 => one.values[j] = two.values[j]
    BY <1>12
  <2>2. \A j \in Field : rank[j] < rank[f] => rank[j] < i - 1
    BY <1>10
  <2> QED
    BY <1>9, <2>1, <2>2
<1> HIDE DEF T
<1>13. \A i \in 1 .. 5 : i - 1 \in T => i \in T
  BY <1>12
<1>14. 5 \in T
  BY <1>11, <1>13, Induction, 5 \in Nat, 5 \in 0 .. 5, Zenon
<1>15. \A f \in Field : one.values[f] = two.values[f]
  BY <1>10, <1>14 DEF T
<1> QED
  BY <1>1, <1>4, <1>15

\* A second headless run over the same inputs changes nothing.
THEOREM RunsRepeat ==
    ASSUME Resolvable
    PROVE  Spec => Repeats
<1> DEFINE Again == /\ last' # last /\ last # NoRun /\ last.by = "headless"
                    /\ last'.by = "headless" /\ ~ torn
                    /\ "domain" \in Field \cup DOMAIN last.file
                    /\ last'.manifest = last.manifest /\ last'.file = last.file
                    /\ last'.node = last.node
<1>1. ASSUME ConfigInv, ConfigInv', [Next]_vars, Again
      PROVE  last'.values = last.values /\ last'.domain = last.domain
  <2>1. RunOK(last) /\ RunInv(last)
    BY <1>1, LastOK DEF ConfigInv, LastInv
  <2>2. last' # NoRun
    BY <1>1 DEF NoRun
  <2>3. (RunOK(last) /\ RunInv(last))'
    <3>1. (last # NoRun => RunInv(last))' /\ TypeOK' /\ (last # NoRun)'
      BY <1>1, <2>2 DEF ConfigInv, LastInv, NoRun
    <3>2. (TypeOK /\ last # NoRun => RunOK(last))'
      BY LastOK, PTL
    <3> QED
      BY <3>1, <3>2
  <2>4. RunOK(last') /\ RunInv(last')
    BY <2>3 DEF RunOK, RunInv, Rederived, HeadlessInv, FromFile, Known
  <2>5. \A f \in Field \ DOMAIN last.file :
            ~ IsDerived(last.manifest, f) => last'.values[f] = last.values[f]
    <3> SUFFICES ASSUME NEW f \in Field \ DOMAIN last.file, ~ IsDerived(last.manifest, f)
                 PROVE  last'.values[f] = last.values[f]
      OBVIOUS
    <3>1. f \in DOMAIN cache
      BY <1>1, <2>1 DEF ConfigInv, CacheInv, RunInv, HeadlessInv
    <3> QED
      BY <1>1, <3>1, KeptStep
  <2> QED
    BY <1>1, <2>1, <2>4, <2>5, SameRun
<1>2. ConfigInv /\ ConfigInv' /\ [Next]_vars =>
          [Again => last'.values = last.values /\ last'.domain = last.domain]_vars
  BY <1>1
<1> QED
  BY <1>2, ConfigIsSettled, PTL DEF Spec, Repeats
=============================================================================
