----------------------- MODULE PlaygroundChatProofs -----------------------
(***************************************************************************)
(* Proofs about PlaygroundChat, for every number of requests, chunks and   *)
(* lives of the page, and for every user and network.                      *)
(***************************************************************************)
EXTENDS PlaygroundChat, SequenceTheorems, WellFoundedInduction, TLAPS

(***************************************************************************)
(* The inductive invariant.                                                *)
(***************************************************************************)
Edits == "edit" \in setup.acts

\* The user may drop text, or the stream's wording may.
Loses == setup.acts \cap {"stop", "edit", "leave", "crash"} # {} \/ setup.stream = "any"

\* What waits for the render.
Updates ==
    [kind : {"value"}, list : Seq(Messages)]
    \cup [kind : {"chunk"}, gen : Nat, by : Nat, text : Texts]
    \cup [kind : {"complete", "error", "response"}, gen : Nat, by : Nat]

\* The messages once React has run the queue, if the generation is g by then.
View(g) == ApplyAll(queue, list, g)

\* The request of the newest generation is still to be answered.
LiveIn(rs, g) == g \in Gens /\ rs[g].pc \in {"headers", "open", "silent"}

Live == LiveIn(reqs, gen)

\* Every message is of a request made so far, and untouched by any other.
Pure(l, g) ==
    /\ l \in Seq(Messages)
    /\ \A i \in 1 .. Len(l) : ~l[i].foreign /\ l[i].of <= g

\* Only the last message may be unfinished.
Tidy(l) == \A i \in 1 .. Len(l) : IsPending(l[i]) => i = Len(l)

Finished(l) == \A i \in 1 .. Len(l) : ~IsPending(l[i])

\* The answers of streams that reached [DONE] are complete.
Full(l, rs) ==
    \A i \in 1 .. Len(l) :
        l[i].from = "assistant" /\ rs[l[i].of].done => l[i].text = rs[l[i].of].received

\* Request g is a stream that reached [DONE].
Done(rs, g) == rs[g].done

\* If so, u completes the last message, which has all its text.
DoneWith(u, l, rs, g) == Done(rs, g) => u.kind = "complete" /\ l[Len(l)].text = rs[g].received

\* The last message is the answer that request g writes.
Answering(l, g) ==
    /\ Len(l) > 0
    /\ l[Len(l)].from = "assistant"
    /\ l[Len(l)].of = g
    /\ l[Len(l)].status \in Pending
    /\ \A i \in 1 .. Len(l) : l[i].from = "assistant" /\ l[i].of = g => i = Len(l)

\* Generations of the page, of the stream controller and of the buffer go together.
Generations ==
    /\ sgen = gen
    /\ buf.gen = gen
    /\ source \in {NoGen, gen}
    /\ \A g \in Gens : /\ reqs[g].pc # "idle" => reqs[g].sgen = g
                       /\ g > gen => reqs[g] = NoRequest

\* The page shows that it generates while a request is live or updates wait.
Generating ==
    /\ busy.requesting = Live
    /\ busy.streaming => Live
    /\ buf.text # <<>> => Live
    /\ Live \/ queue # <<>> => busy.shown
    /\ Live => ~reqs[gen].done

Lists ==
    /\ Pure(list, gen) /\ Pure(latest, gen) /\ Pure(stored, gen)
    /\ Pure(View(gen), gen) /\ Pure(View(gen + 1), gen)
    /\ Live => /\ Answering(list, gen)
               /\ Answering(View(gen), gen)

\* Without edits.
Settling ==
    /\ editing = NotEditing
    /\ Tidy(list) /\ Tidy(latest) /\ Tidy(stored) /\ Tidy(View(gen)) /\ Tidy(View(gen + 1))
    /\ ~Live => Finished(View(gen))

\* The text c shown, the buffered text b and the text r that arrived fit together.  Deltas that
\* carry the whole text so far: c is the start of r, and b is r or nothing is missing from c.
\* Deltas of new text that repeats nothing: c and b make up r, whose pieces are numbered.
Agree(stream, c, b, r) ==
    IF stream = "whole"
    THEN /\ Len(c) <= Len(r) /\ \A i \in 1 .. Len(c) : c[i] = r[i]
         /\ b = r \/ (b = <<>> /\ c = r)
    ELSE c \o b = r /\ \A i \in 1 .. Len(r) : r[i] = i

\* Without edits, stops and reloads, and with a stream that repeats nothing by chance.
Whole ==
    /\ Full(View(gen), reqs)
    /\ Live => Agree(setup.stream, View(gen)[Len(View(gen))].text, buf.text, reqs[gen].received)

Sound ==
    /\ TypeOK
    /\ queue \in Seq(Updates)
    /\ Generations
    /\ Generating
    /\ Lists
    /\ ~Edits => Settling
    /\ ~Loses => Whole

(***************************************************************************)
(* Running updaters.                                                       *)
(***************************************************************************)
(* Induction over the naturals, about a set: no predicate to instantiate.    *)
LEMMA Induction ==
    ASSUME NEW S, 0 \in S, \A n \in Nat : n \in S => n + 1 \in S
    PROVE  Nat \subseteq S
  <1> DEFINE T == Nat \ S
  <1> SUFFICES ASSUME T # {} PROVE FALSE
    OBVIOUS
  <1>1. PICK x \in T : \A y \in T : ~(<<y, x>> \in OpToRel(<, Nat))
    BY NatLessThanWellFounded, WFMin, T \subseteq Nat
  <1>2. x # 0 /\ x \in Nat
    OBVIOUS
  <1>3. x - 1 \in Nat /\ x - 1 < x
    BY <1>2
  <1>4. <<x - 1, x>> \in OpToRel(<, Nat)
    BY <1>2, <1>3 DEF OpToRel
  <1>5. x - 1 \in S
    BY <1>1, <1>3, <1>4
  <1>6. (x - 1) + 1 \in S
    BY <1>3, <1>5
  <1> QED
    BY <1>2, <1>6

\* f records the lists that running us on msgs goes through.
IsRun(f, us, msgs, g, n) ==
    f = [i \in 0 .. n |-> IF i = 0 THEN msgs ELSE Apply(us[i], f[i - 1], g)]

(* A run of any length exists.                                               *)
LEMMA RunExists ==
    ASSUME NEW us, NEW msgs, NEW g
    PROVE  \A n \in Nat : \E f : IsRun(f, us, msgs, g, n)
  <1> DEFINE S == {n \in Nat : \E f : IsRun(f, us, msgs, g, n)}
  <1>1. 0 \in S
    <2> DEFINE f == [i \in 0 .. 0 |-> msgs]
    <2>1. IsRun(f, us, msgs, g, 0)
      BY DEF IsRun
    <2> QED
      BY <2>1
  <1>2. ASSUME NEW n \in Nat, n \in S PROVE n + 1 \in S
    <2>1. PICK f : IsRun(f, us, msgs, g, n)
      BY <1>2
    <2> DEFINE h ==
                   [i \in 0 .. (n + 1) |-> IF i = n + 1 THEN Apply(us[n + 1], f[n], g) ELSE f[i]]
    <2>2. \A i \in 0 .. n : f[i] = IF i = 0 THEN msgs ELSE Apply(us[i], f[i - 1], g)
      BY <2>1 DEF IsRun
    <2>3. ASSUME NEW i \in 0 .. (n + 1)
          PROVE  h[i] = IF i = 0 THEN msgs ELSE Apply(us[i], h[i - 1], g)
      <3>1. CASE i = n + 1
        BY <3>1
      <3>2. CASE i # n + 1
        <4>1. i \in 0 .. n /\ h[i] = f[i] /\ (i # 0 => h[i - 1] = f[i - 1])
          BY <3>2
        <4> QED
          BY <4>1, <2>2
      <3> QED
        BY <3>1, <3>2
    <2>4. IsRun(h, us, msgs, g, n + 1)
      <3> DEFINE k == [i \in 0 .. (n + 1) |-> IF i = 0 THEN msgs ELSE Apply(us[i], h[i - 1], g)]
      <3>1. h = k
        <4>1. \A i \in 0 .. (n + 1) : h[i] = k[i]
          BY <2>3
        <4> HIDE DEF h
        <4> QED
          BY <4>1 DEF h
      <3> QED
        BY <3>1 DEF IsRun
    <2> QED
      BY <2>4
  <1> QED
    <2> HIDE DEF S
    <2>1. Nat \subseteq S
      BY <1>1, <1>2, Induction
    <2> QED
      BY <2>1 DEF S

(* Runs of updaters with a common start agree on it.                         *)
LEMMA RunUnique ==
    ASSUME NEW us, NEW vs, NEW msgs, NEW g, NEW n \in Nat, NEW m \in Nat, n <= m,
           \A i \in 1 .. n : us[i] = vs[i],
           NEW f, NEW h, IsRun(f, us, msgs, g, n), IsRun(h, vs, msgs, g, m)
    PROVE  \A i \in 0 .. n : f[i] = h[i]
  <1> DEFINE S == {i \in Nat : i <= n => f[i] = h[i]}
  <1>1. \A i \in 0 .. n : f[i] = IF i = 0 THEN msgs ELSE Apply(us[i], f[i - 1], g)
    BY DEF IsRun
  <1>2. \A i \in 0 .. m : h[i] = IF i = 0 THEN msgs ELSE Apply(vs[i], h[i - 1], g)
    BY DEF IsRun
  <1>3. 0 \in S
    BY <1>1, <1>2
  <1>4. ASSUME NEW i \in Nat, i \in S PROVE i + 1 \in S
    <2> SUFFICES ASSUME i + 1 <= n PROVE f[i + 1] = h[i + 1]
      OBVIOUS
    <2>1. f[i + 1] = Apply(us[i + 1], f[i], g) /\ h[i + 1] = Apply(vs[i + 1], h[i], g)
      BY <1>1, <1>2
    <2> QED
      BY <1>4, <2>1
  <1>5. Nat \subseteq S
    <2> HIDE DEF S
    <2> QED
      BY <1>3, <1>4, Induction
  <1> QED
    BY <1>5

(* ApplyAll is the end of the run.                                           *)
LEMMA ApplyAllIs ==
    ASSUME NEW S, NEW us \in Seq(S), NEW msgs, NEW g
    PROVE  \E f : IsRun(f, us, msgs, g, Len(us)) /\ ApplyAll(us, msgs, g) = f[Len(us)]
  <1> DEFINE f == CHOOSE f : IsRun(f, us, msgs, g, Len(us))
  <1>1. IsRun(f, us, msgs, g, Len(us))
    BY RunExists, LenProperties
  <1>2. ApplyAll(us, msgs, g) = f[Len(us)]
    BY DEF ApplyAll, IsRun
  <1> QED
    BY <1>1, <1>2

(* Running nothing.                                                          *)
LEMMA ApplyNone ==
    ASSUME NEW msgs, NEW g
    PROVE  ApplyAll(<<>>, msgs, g) = msgs
  <1>1. PICK f : IsRun(f, <<>>, msgs, g, 0) /\ ApplyAll(<<>>, msgs, g) = f[0]
    BY ApplyAllIs, EmptySeq
  <1> QED
    BY <1>1 DEF IsRun

(* One updater more.                                                         *)
LEMMA ApplyMore ==
    ASSUME NEW S, NEW us \in Seq(S), NEW u, NEW msgs, NEW g
    PROVE  ApplyAll(Append(us, u), msgs, g) = Apply(u, ApplyAll(us, msgs, g), g)
  <1> DEFINE vs == Append(us, u)
             n == Len(us)
  <1>1. /\ us \in Seq(S \cup {u}) /\ vs \in Seq(S \cup {u}) /\ n \in Nat /\ Len(vs) = n + 1
        /\ vs[n + 1] = u /\ \A i \in 1 .. n : us[i] = vs[i]
    <2>1. us \in Seq(S \cup {u})
      BY SeqMonotonic
    <2> QED
      BY <2>1, AppendProperties, LenProperties
  <1>2. PICK f : IsRun(f, us, msgs, g, n) /\ ApplyAll(us, msgs, g) = f[n]
    BY ApplyAllIs
  <1>3. PICK h : IsRun(h, vs, msgs, g, n + 1) /\ ApplyAll(vs, msgs, g) = h[n + 1]
    BY <1>1, ApplyAllIs
  <1> HIDE DEF vs, n
  <1>4. f[n] = h[n]
    <2>1. n + 1 \in Nat /\ n <= n + 1 /\ n \in 0 .. n
      BY <1>1
    <2> QED
      BY <1>1, <1>2, <1>3, <2>1, RunUnique, SMTT(30)
  <1>5. h[n + 1] = Apply(vs[n + 1], h[n], g)
    <2>1. h = [i \in 0 .. (n + 1) |-> IF i = 0 THEN msgs ELSE Apply(vs[i], h[i - 1], g)]
      BY <1>3 DEF IsRun
    <2>2. n + 1 \in 0 .. (n + 1) /\ n + 1 # 0 /\ (n + 1) - 1 = n
      BY <1>1
    <2>3. \A i \in 0 .. (n + 1) : h[i] = IF i = 0 THEN msgs ELSE Apply(vs[i], h[i - 1], g)
      BY <2>1
    <2> QED
      BY <2>2, <2>3
  <1> QED
    BY <1>1, <1>2, <1>3, <1>4, <1>5 DEF vs, n

(* One updater.                                                              *)
LEMMA ApplyOne ==
    ASSUME NEW u, NEW msgs, NEW g
    PROVE  ApplyAll(<<u>>, msgs, g) = Apply(u, msgs, g)
  <1>1. <<u>> = Append(<<>>, u)
    OBVIOUS
  <1>2. <<>> \in Seq({u})
    BY EmptySeq
  <1>3. ApplyAll(Append(<<>>, u), msgs, g) = Apply(u, ApplyAll(<<>>, msgs, g), g)
    BY <1>2, ApplyMore, ZenonT(60)
  <1> QED
    BY <1>1, <1>3, ApplyNone

(* Two updaters.                                                             *)
LEMMA ApplyTwo ==
    ASSUME NEW u, NEW v, NEW msgs, NEW g
    PROVE  ApplyAll(<<u, v>>, msgs, g) = Apply(v, Apply(u, msgs, g), g)
  <1>1. <<u, v>> = Append(<<u>>, v)
    OBVIOUS
  <1>2. <<u>> \in Seq({u})
    OBVIOUS
  <1>3. ApplyAll(Append(<<u>>, v), msgs, g) = Apply(v, ApplyAll(<<u>>, msgs, g), g)
    BY <1>2, ApplyMore, ZenonT(60)
  <1> QED
    BY <1>1, <1>3, ApplyOne

(***************************************************************************)
(* Texts.                                                                  *)
(***************************************************************************)
(* One text begins with another.                                             *)
LEMMA PrefixIs ==
    ASSUME NEW s \in Texts, NEW t \in Texts
    PROVE  IsPrefix(s, t) <=> Len(s) <= Len(t) /\ \A i \in 1 .. Len(s) : s[i] = t[i]
  <1>1. Len(s) \in Nat /\ Len(t) \in Nat /\ s \in Seq(Pieces) /\ t \in Seq(Pieces)
    BY LenProperties DEF Texts
  <1>2. CASE ~(Len(s) <= Len(t))
    BY <1>2 DEF IsPrefix
  <1>3. CASE Len(s) <= Len(t)
    <2> DEFINE p == SubSeq(s, 1, Len(s))
               q == SubSeq(t, 1, Len(s))
    <2>1. p \in Seq(Pieces) /\ Len(p) = Len(s) /\ \A i \in 1 .. Len(s) : p[i] = s[i]
      <3>1. \A i \in 1 .. Len(s) : s[i] \in Pieces
        BY <1>1, ElementOfSeq
      <3> QED
        BY <1>1, <3>1, SubSeqProperties
    <2>2. q \in Seq(Pieces) /\ Len(q) = Len(s) /\ \A i \in 1 .. Len(s) : q[i] = t[i]
      <3>1. \A i \in 1 .. Len(t) : t[i] \in Pieces
        BY <1>1, ElementOfSeq
      <3>2. \A i \in 1 .. Len(s) : t[i] \in Pieces
        BY <1>1, <1>3, <3>1
      <3> QED
        BY <1>1, <3>2, SubSeqProperties
    <2>3. IsPrefix(s, t) <=> p = q
      BY <1>3 DEF IsPrefix
    <2> HIDE DEF p, q
    <2>4. (\A i \in 1 .. Len(s) : p[i] = q[i]) => p = q
      BY <2>1, <2>2, SeqEqual
    <2> QED
      BY <1>3, <2>1, <2>2, <2>3, <2>4
  <1> QED
    BY <1>2, <1>3

(* What is left of a text that begins with another.                          *)
LEMMA RestIs ==
    ASSUME NEW s \in Texts, NEW t \in Texts, Len(s) <= Len(t), \A i \in 1 .. Len(s) : s[i] = t[i]
    PROVE  LET rest == SubSeq(t, Len(s) + 1, Len(t)) IN rest \in Texts /\ s \o rest = t
  <1> DEFINE rest == SubSeq(t, Len(s) + 1, Len(t))
             n == Len(t) - Len(s)
  <1>1. /\ Len(s) \in Nat /\ Len(t) \in Nat /\ s \in Seq(Pieces) /\ t \in Seq(Pieces)
        /\ n \in Nat
    BY LenProperties DEF Texts
  <1>2. \A i \in 1 .. Len(t) : t[i] \in Pieces
    BY <1>1, ElementOfSeq
  <1>3. rest \in Seq(Pieces) /\ Len(rest) = n /\ \A i \in 1 .. n : rest[i] = t[Len(s) + i]
    <2>1. \A i \in (Len(s) + 1) .. Len(t) : t[i] \in Pieces
      BY <1>1, <1>2
    <2>2. /\ rest \in Seq(Pieces)
          /\ Len(rest) = IF Len(s) + 1 <= Len(t) THEN Len(t) - (Len(s) + 1) + 1 ELSE 0
          /\ \A i \in 1 .. Len(t) - (Len(s) + 1) + 1 : rest[i] = t[(Len(s) + 1) + i - 1]
      <3>1. Len(s) + 1 \in Int /\ Len(t) \in Int
        BY <1>1
      <3> QED
        BY <2>1, <3>1, SubSeqProperties
    <2> HIDE DEF rest
    <2>3. Len(rest) = n
      BY <1>1, <2>2
    <2>4. ASSUME NEW i \in 1 .. n PROVE rest[i] = t[Len(s) + i]
      <3>1. i \in 1 .. Len(t) - (Len(s) + 1) + 1 /\ (Len(s) + 1) + i - 1 = Len(s) + i
        BY <1>1
      <3> QED
        BY <2>2, <3>1
    <2> QED
      BY <2>2, <2>3, <2>4
  <1> HIDE DEF rest
  <1>4. s \o rest \in Seq(Pieces) /\ Len(s \o rest) = Len(t)
        /\ \A i \in 1 .. Len(t) : (s \o rest)[i] = IF i <= Len(s) THEN s[i] ELSE rest[i - Len(s)]
    <2>1. /\ s \o rest \in Seq(Pieces) /\ Len(s \o rest) = Len(s) + Len(rest)
          /\ \A i \in 1 .. Len(s) + Len(rest) :
                (s \o rest)[i] = IF i <= Len(s) THEN s[i] ELSE rest[i - Len(s)]
      BY <1>1, <1>3, ConcatProperties
    <2>2. Len(s) + Len(rest) = Len(t)
      BY <1>1, <1>3
    <2> QED
      BY <2>1, <2>2
  <1>5. ASSUME NEW i \in 1 .. Len(t) PROVE (s \o rest)[i] = t[i]
    <2>1. CASE i <= Len(s)
      BY <1>1, <1>4, <2>1
    <2>2. CASE ~(i <= Len(s))
      <3>1. i - Len(s) \in 1 .. n /\ Len(s) + (i - Len(s)) = i
        BY <1>1, <2>2
      <3> QED
        BY <1>3, <1>4, <2>2, <3>1
    <2> QED
      BY <2>1, <2>2
  <1>6. s \o rest = t
    BY <1>1, <1>4, <1>5, SeqEqual
  <1> QED
    BY <1>3, <1>6 DEF rest, Texts

(* Both merges of texts give texts.                                          *)
LEMMA MergesTyped ==
    ASSUME NEW s \in Texts, NEW t \in Texts
    PROVE  /\ MergePendingStreamChunk(s, t) \in Texts
           /\ GetAppendableChunk(s, t) \in Texts
           /\ s \o GetAppendableChunk(s, t) \in Texts
  <1>1. \A x, y \in Texts : x \o y \in Texts
    BY ConcatProperties DEF Texts
  <1>2. GetAppendableChunk(s, t) \in Texts
    <2>1. CASE s = <<>> \/ ~IsPrefix(s, t)
      BY <2>1 DEF GetAppendableChunk
    <2>2. CASE s # <<>> /\ IsPrefix(s, t)
      BY <2>2, PrefixIs, RestIs DEF GetAppendableChunk
    <2> QED
      BY <2>1, <2>2
  <1> QED
    BY <1>1, <1>2 DEF MergePendingStreamChunk

(* Nothing has arrived.                                                      *)
LEMMA AgreeEmpty ==
    ASSUME NEW stream
    PROVE  Agree(stream, <<>>, <<>>, <<>>) /\ <<>> \in Texts
  <1>1. <<>> \o <<>> = <<>> /\ <<>> \in Texts
    BY EmptySeq, ConcatEmptySeq DEF Texts
  <1> QED
    BY <1>1 DEF Agree

(* With an empty buffer all the text that arrived is shown.                  *)
LEMMA AgreeShown ==
    ASSUME NEW stream, NEW c \in Texts, NEW r, Agree(stream, c, <<>>, r)
    PROVE  c = r
  <1>1. c \o <<>> = c
    BY ConcatEmptySeq DEF Texts
  <1>2. r = <<>> /\ Len(c) <= Len(r) => c = <<>>
    BY EmptySeq, LenProperties DEF Texts
  <1> QED
    BY <1>1, <1>2 DEF Agree

(* A flush shows what was buffered.                                          *)
LEMMA AgreeFlushed ==
    ASSUME NEW stream, NEW c \in Texts, NEW b \in Texts, NEW r \in Texts, b # <<>>,
           Agree(stream, c, b, r)
    PROVE  Agree(stream, c \o GetAppendableChunk(c, b), <<>>, r)
  <1>1. /\ Len(c) \in Nat /\ Len(b) \in Nat \ {0} /\ Len(r) \in Nat
        /\ c # <<>> => Len(c) # 0
    BY LenProperties, EmptySeq DEF Texts
  <1> DEFINE d == GetAppendableChunk(c, b)
  <1>2. ASSUME c \o d = r, stream = "whole" \/ \A i \in 1 .. Len(r) : r[i] = i
        PROVE  Agree(stream, c \o d, <<>>, r)
    <2>1. r \o <<>> = r
      BY ConcatEmptySeq DEF Texts
    <2> HIDE DEF d
    <2> QED
      BY <1>1, <1>2, <2>1 DEF Agree
  <1>3. CASE stream = "whole"
    <2>1. b = r /\ Len(c) <= Len(r) /\ \A i \in 1 .. Len(c) : c[i] = r[i]
      BY <1>3 DEF Agree
    <2>2. CASE c = <<>>
      <3>1. d = r /\ <<>> \o r = r
        BY <2>1, <2>2, ConcatEmptySeq DEF GetAppendableChunk, Texts
      <3> QED
        BY <1>2, <1>3, <2>2, <3>1
    <2>3. CASE c # <<>>
      <3>1. d = SubSeq(r, Len(c) + 1, Len(r))
        BY <2>1, <2>3, PrefixIs DEF GetAppendableChunk
      <3> HIDE DEF d
      <3>2. c \o d = r
        BY <2>1, <3>1, RestIs
      <3> QED
        BY <1>2, <1>3, <3>2 DEF d
    <2> QED
      BY <2>2, <2>3
  <1>4. CASE stream # "whole"
    <2>1. c \o b = r /\ \A i \in 1 .. Len(r) : r[i] = i
      BY <1>4 DEF Agree
    <2>2. c # <<>> => ~IsPrefix(c, b)
      <3> SUFFICES ASSUME c # <<>>, IsPrefix(c, b) PROVE FALSE
        OBVIOUS
      <3>1. c[1] = b[1]
        BY <1>1, PrefixIs
      <3>2. /\ Len(r) = Len(c) + Len(b)
            /\ \A i \in 1 .. Len(c) + Len(b) : r[i] = IF i <= Len(c) THEN c[i] ELSE b[i - Len(c)]
        BY <2>1, ConcatProperties DEF Texts
      <3>3. r[1] = c[1] /\ r[Len(c) + 1] = b[1] /\ 1 \in 1 .. Len(r) /\ Len(c) + 1 \in 1 .. Len(r)
        <4>1. 1 \in 1 .. Len(c) + Len(b) /\ Len(c) + 1 \in 1 .. Len(c) + Len(b) /\ 1 <= Len(c)
              /\ ~(Len(c) + 1 <= Len(c)) /\ (Len(c) + 1) - Len(c) = 1
          BY <1>1
        <4> QED
          BY <3>2, <4>1
      <3>4. r[1] = 1 /\ r[Len(c) + 1] = Len(c) + 1
        BY <2>1, <3>3
      <3> QED
        BY <1>1, <3>1, <3>3, <3>4
    <2>3. d = b
      BY <2>2 DEF GetAppendableChunk
    <2> HIDE DEF d
    <2> QED
      BY <1>2, <2>1, <2>3 DEF d
  <1> QED
    BY <1>3, <1>4

(* A delta adds its text to the buffer.                                      *)
LEMMA AgreeArrived ==
    ASSUME NEW c \in Texts, NEW b \in Texts, NEW r \in Texts, setup.stream # "any",
           setup.stream \in Streams,
           NEW delta \in Deltas(r), delta \in Texts, Agree(setup.stream, c, b, r)
    PROVE  Agree(setup.stream, c, MergePendingStreamChunk(b, delta), Extended(r, delta))
  <1> DEFINE n == Len(r) + 1
             m == MergePendingStreamChunk(b, delta)
             e == Extended(r, delta)
  <1>1. /\ Len(c) \in Nat /\ Len(b) \in Nat /\ Len(r) \in Nat /\ n \in Nat
        /\ b # <<>> => Len(b) # 0
    BY LenProperties, EmptySeq DEF Texts
  <1>2. CASE setup.stream = "whole"
    <2>1. delta = Append(r, n) /\ e = delta
      BY <1>2 DEF Deltas, Extended
    <2>2. Len(delta) = n /\ \A i \in 1 .. Len(r) : delta[i] = r[i]
      BY <2>1, AppendProperties DEF Texts
    <2>3. /\ Len(c) <= Len(r) /\ \A i \in 1 .. Len(c) : c[i] = r[i]
          /\ b = r \/ b = <<>>
      BY <1>2 DEF Agree
    <2>4. m = delta
      <3>1. CASE b = <<>>
        BY <3>1, ConcatEmptySeq DEF MergePendingStreamChunk, Texts
      <3>2. CASE b = r
        <4>1. IsPrefix(b, delta)
          BY <1>1, <2>2, <3>2, PrefixIs
        <4> QED
          BY <3>1, <4>1 DEF MergePendingStreamChunk
      <3> QED
        BY <2>3, <3>1, <3>2
    <2> HIDE DEF m, e, n
    <2>5. Len(c) <= Len(delta) /\ \A i \in 1 .. Len(c) : c[i] = delta[i]
      BY <1>1, <2>2, <2>3 DEF n
    <2> QED
      BY <1>2, <2>1, <2>4, <2>5 DEF Agree, m, e
  <1>3. CASE setup.stream = "new"
    <2>1. delta = <<n>> /\ e = r \o delta
      BY <1>3 DEF Deltas, Extended
    <2>2. c \o b = r /\ \A i \in 1 .. Len(r) : r[i] = i
      BY <1>3 DEF Agree
    <2>3. b # <<>> => ~IsPrefix(b, delta)
      <3> SUFFICES ASSUME b # <<>>, IsPrefix(b, delta) PROVE FALSE
        OBVIOUS
      <3>1. b[1] = delta[1] /\ delta[1] = n
        BY <1>1, <2>1, PrefixIs
      <3>2. /\ Len(r) = Len(c) + Len(b)
            /\ \A i \in 1 .. Len(c) + Len(b) : r[i] = IF i <= Len(c) THEN c[i] ELSE b[i - Len(c)]
        BY <2>2, ConcatProperties DEF Texts
      <3>3. Len(c) + 1 \in 1 .. Len(c) + Len(b) /\ ~(Len(c) + 1 <= Len(c))
            /\ (Len(c) + 1) - Len(c) = 1
        BY <1>1
      <3>4. r[Len(c) + 1] = b[1] /\ r[Len(c) + 1] = Len(c) + 1
        BY <2>2, <3>2, <3>3
      <3> QED
        BY <1>1, <3>1, <3>2, <3>4
    <2>4. m = b \o delta
      <3>1. b = <<>> \/ ~IsPrefix(b, delta)
        BY <2>3
      <3> QED
        BY <3>1 DEF MergePendingStreamChunk
    <2>5. c \o m = e
      <3>1. (c \o b) \o delta = c \o (b \o delta)
        BY ConcatAssociative DEF Texts
      <3> HIDE DEF m, e
      <3> QED
        BY <2>1, <2>2, <2>4, <3>1
    <2>6. \A i \in 1 .. Len(e) : e[i] = i
      <3>1. e = Append(r, n) /\ Len(e) = n /\ e[n] = n /\ \A i \in 1 .. Len(r) : e[i] = r[i]
        <4>1. r \in Seq(Pieces \cup {n}) /\ n \in Pieces \cup {n}
          BY SeqMonotonic DEF Texts
        <4>2. Append(r, n) = r \o <<n>>
          BY <4>1, AppendIsConcat
        <4>3. /\ Len(Append(r, n)) = n /\ Append(r, n)[n] = n
              /\ \A i \in 1 .. Len(r) : Append(r, n)[i] = r[i]
          BY <4>1, AppendProperties
        <4> QED
          BY <2>1, <4>2, <4>3
      <3>2. \A i \in 1 .. n : i = n \/ i \in 1 .. Len(r)
        BY <1>1
      <3> HIDE DEF e, n
      <3> QED
        BY <2>2, <3>1, <3>2
    <2> HIDE DEF m, e
    <2> QED
      BY <1>3, <2>5, <2>6 DEF Agree, m, e
  <1> QED
    BY <1>2, <1>3 DEF Streams

(* The text of a delta.                                                      *)
LEMMA DeltaTyped ==
    ASSUME NEW r \in Texts, setup \in Setups, Len(r) < setup.chunks, NEW delta \in Deltas(r)
    PROVE  delta \in Texts /\ Extended(r, delta) \in Texts
  <1> DEFINE n == Len(r) + 1
  <1>1. Len(r) \in Nat /\ setup.chunks \in 1 .. MaxChunks /\ MaxChunks \in Nat
    BY LenProperties, ConstantsAssumption DEF Texts
  <1>2. n \in Pieces /\ \A p \in 1 .. n : p \in Pieces
    BY <1>1 DEF Pieces
  <1>3. \A p \in Pieces : <<p>> \in Texts
    BY DEF Texts
  <1>4. Append(r, n) \in Texts
    BY <1>2, AppendProperties DEF Texts
  <1>5. delta \in Texts
    <2>1. delta = <<n>> \/ delta = Append(r, n) \/ \E p \in 1 .. n : delta = <<p>>
      BY DEF Deltas
    <2> HIDE DEF n
    <2> QED
      BY <1>2, <1>3, <1>4, <2>1 DEF n
  <1>6. r \o delta \in Texts
    BY <1>5, ConcatProperties DEF Texts
  <1> QED
    BY <1>5, <1>6 DEF Extended

(***************************************************************************)
(* Updaters and lists.                                                     *)
(***************************************************************************)
(* What the constants and a setup say.                                       *)
LEMMA BoundsTyped ==
    ASSUME setup \in Setups
    PROVE  /\ MaxGens \in Nat \ {0} /\ MaxChunks \in Nat \ {0} /\ MaxLives \in Nat \ {0}
           /\ setup.gens \in 1 .. MaxGens
           /\ setup.chunks \in 1 .. MaxChunks
           /\ setup.lives \in 1 .. MaxLives
  BY ConstantsAssumption

(* A flushed chunk on the answer it belongs to.                              *)
LEMMA ChunkMessage ==
    ASSUME NEW m \in Messages, NEW b \in Texts, m.status \in Pending, ~m.foreign
    PROVE  LET r == UpdateMessage(Chunk(m.of, b), m) IN
           /\ r \in Messages /\ ~r.foreign /\ r.from = m.from /\ r.of = m.of
           /\ r.status = "streaming" /\ r.text = m.text \o GetAppendableChunk(m.text, b)
  <1> DEFINE u == Chunk(m.of, b)
             text == m.text \o GetAppendableChunk(m.text, b)
             touched == [m EXCEPT !.foreign = @ \/ u.by \notin {m.of, NoGen}]
             r == [touched EXCEPT !.status = "streaming",
                                  !.text = @ \o GetAppendableChunk(@, u.text)]
  <1>1. u.kind = "chunk" /\ u.by = m.of /\ u.text = b
    BY DEF Chunk
  <1>2. m.status # "error"
    BY DEF Pending
  <1>3. UpdateMessage(u, m) = r
    BY <1>1, <1>2 DEF UpdateMessage
  <1>4. touched = [m EXCEPT !.foreign = FALSE]
    BY <1>1 DEF Messages
  <1>5. r = [m EXCEPT !.foreign = FALSE, !.status = "streaming", !.text = text]
    BY <1>1, <1>4 DEF Messages
  <1>6. text \in Texts
    BY MergesTyped DEF Messages
  <1> HIDE DEF u, touched, r, text
  <1> QED
    BY <1>3, <1>5, <1>6, ZenonT(60) DEF Messages, Pending, u, text

\* The updaters that end the request g.
Endings(g) == {Complete(g, g), Fail(g), Response(g)}

(* The end of a request on the answer it belongs to.                         *)
LEMMA EndedMessage ==
    ASSUME NEW m \in Messages, m.status \in Pending, m.from = "assistant", ~m.foreign,
           MaxChunks \in Nat \ {0}, NEW u \in Endings(m.of)
    PROVE  LET r == UpdateMessage(u, m) IN
           /\ r \in Messages /\ ~r.foreign /\ r.from = m.from /\ r.of = m.of
           /\ ~IsPending(r)
           /\ u.kind = "complete" => r.text = m.text
  <1> DEFINE touched == [m EXCEPT !.foreign = @ \/ u.by \notin {m.of, NoGen}]
  <1>1. u.by = m.of
    BY DEF Endings, Complete, Fail, Response
  <1>2. touched = [m EXCEPT !.foreign = FALSE]
    BY <1>1 DEF Messages
  <1>3. touched \in Messages /\ ~touched.foreign /\ touched.from = m.from /\ touched.of = m.of
        /\ touched.text = m.text
    BY <1>2 DEF Messages
  <1> HIDE DEF touched
  <1>4. CASE u = Complete(m.of, m.of)
    <2>1. u.kind = "complete" /\ IsPending(m)
      BY <1>4 DEF Complete, IsPending
    <2>2. UpdateMessage(u, m) = [touched EXCEPT !.status = "complete"]
      BY <2>1 DEF UpdateMessage, touched
    <2> QED
      BY <1>3, <2>1, <2>2 DEF Messages, IsPending, Pending
  <1>5. CASE u = Fail(m.of)
    <2>1. u.kind = "error"
      BY <1>5 DEF Fail
    <2>2. UpdateMessage(u, m) = [touched EXCEPT !.status = "error", !.text = <<>>]
      BY <2>1 DEF UpdateMessage, touched
    <2>3. <<>> \in Texts
      BY AgreeEmpty
    <2> QED
      BY <1>3, <2>1, <2>2, <2>3 DEF Messages, IsPending, Pending
  <1>6. CASE u = Response(m.of)
    <2>1. u.kind = "response"
      BY <1>6 DEF Response
    <2>2. UpdateMessage(u, m) = [touched EXCEPT !.status = "complete", !.text = <<1>>]
      BY <2>1 DEF UpdateMessage, touched
    <2>3. <<1>> \in Texts
      BY DEF Texts, Pieces
    <2> QED
      BY <1>3, <2>1, <2>2, <2>3 DEF Messages, IsPending, Pending
  <1> QED
    BY <1>4, <1>5, <1>6 DEF Endings

(* Stop on any message.                                                      *)
LEMMA StoppedMessage ==
    ASSUME NEW m \in Messages, NEW g, ~m.foreign
    PROVE  LET r == UpdateMessage(Complete(g, NoGen), m) IN
           /\ r \in Messages /\ ~r.foreign /\ r.from = m.from /\ r.of = m.of
           /\ ~IsPending(r)
  <1> DEFINE u == Complete(g, NoGen)
             touched == [m EXCEPT !.foreign = @ \/ u.by \notin {m.of, NoGen}]
  <1>1. u.by = NoGen /\ u.kind = "complete"
    BY DEF Complete
  <1>2. touched = [m EXCEPT !.foreign = FALSE]
    BY <1>1 DEF Messages
  <1>3. touched \in Messages /\ ~touched.foreign /\ touched.from = m.from /\ touched.of = m.of
    BY <1>2 DEF Messages
  <1>4. UpdateMessage(u, m) = IF ~IsPending(m) THEN m ELSE [touched EXCEPT !.status = "complete"]
    BY <1>1 DEF UpdateMessage
  <1> HIDE DEF u, touched
  <1> QED
    BY <1>3, <1>4 DEF Messages, IsPending, Pending, u

(* An updater of a superseded request leaves the list alone.                 *)
LEMMA ApplySkips ==
    ASSUME NEW u, NEW l, NEW g, u.kind \notin {"value", "delete"}, u.gen # g
    PROVE  Apply(u, l, g) = l
  BY DEF Apply

(* An updater of the newest request changes the last message.                *)
LEMMA ApplyLast ==
    ASSUME NEW u, NEW g, NEW l \in Seq(Messages), u.kind \notin {"value", "delete"}, u.gen = g,
           Len(l) > 0, l[Len(l)].from = "assistant", UpdateMessage(u, l[Len(l)]) \in Messages
    PROVE  LET r == Apply(u, l, g) IN
           /\ r \in Seq(Messages) /\ Len(r) = Len(l)
           /\ r[Len(l)] = UpdateMessage(u, l[Len(l)])
           /\ \A i \in 1 .. Len(l) : i # Len(l) => r[i] = l[i]
  <1> DEFINE n == Len(l)
             e == UpdateMessage(u, l[n])
             r == [l EXCEPT ![n] = e]
  <1>1. n \in 1 .. Len(l)
    BY LenProperties
  <1>2. Apply(u, l, g) = r
    <2>1. l # <<>> /\ Last(l).from = "assistant"
      BY DEF Last
    <2> QED
      BY <2>1 DEF Apply
  <1>3. e \in Messages
    OBVIOUS
  <1> HIDE DEF e
  <1> QED
    BY <1>1, <1>2, <1>3, ExceptSeq DEF e

(* A flush: the answer grows by what was in the buffer.                      *)
LEMMA ChunkApplied ==
    ASSUME NEW g \in Nat, NEW b \in Texts, NEW l, Pure(l, g), Answering(l, g), NEW rs
    PROVE  LET r == Apply(Chunk(g, b), l, g) IN
           /\ Pure(r, g) /\ Answering(r, g)
           /\ l[Len(l)].text \in Texts
           /\ r[Len(r)].text = l[Len(l)].text \o GetAppendableChunk(l[Len(l)].text, b)
           /\ Tidy(l) => Tidy(r)
           /\ Full(l, rs) /\ ~Done(rs, g) => Full(r, rs)
  <1> DEFINE k == Len(l)
             u == Chunk(g, b)
             m == l[k]
             r == Apply(u, l, g)
  <1>1. l \in Seq(Messages) /\ k \in Nat /\ k > 0 /\ k \in 1 .. k
    BY LenProperties DEF Pure, Answering
  <1>2. m \in Messages /\ ~m.foreign /\ m.of = g /\ m.status \in Pending
        /\ m.from = "assistant"
    BY <1>1, ElementOfSeq DEF Pure, Answering
  <1>3. m.text \in Texts
    BY <1>2 DEF Messages
  <1>4. LET e == UpdateMessage(u, m) IN
        /\ e \in Messages /\ ~e.foreign /\ e.from = m.from /\ e.of = g
        /\ e.status = "streaming" /\ e.text = m.text \o GetAppendableChunk(m.text, b)
    BY <1>2, ChunkMessage
  <1>5. u.kind = "chunk" /\ u.gen = g
    BY DEF Chunk
  <1> HIDE DEF u
  <1>6. /\ r \in Seq(Messages) /\ Len(r) = k /\ r[k] = UpdateMessage(u, m)
        /\ \A i \in 1 .. k : i # k => r[i] = l[i]
    BY <1>1, <1>2, <1>4, <1>5, ApplyLast, SMTT(30)
  <1> DEFINE e == UpdateMessage(u, m)
  <1> HIDE DEF r, e, m
  <1>7. Pure(r, g)
    BY <1>1, <1>4, <1>6 DEF Pure, e
  <1>8. Answering(r, g)
    <2>2. e.status \in Pending
      BY <1>4 DEF Pending, e
    <2>3. \A i \in 1 .. k : r[i].from = "assistant" /\ r[i].of = g => i = k
      BY <1>6 DEF Answering
    <2> QED
      BY <1>1, <1>2, <1>4, <1>6, <2>2, <2>3 DEF Answering, e
  <1>9. Tidy(l) => Tidy(r)
    BY <1>6 DEF Tidy
  <1>10. ASSUME Full(l, rs), ~Done(rs, g) PROVE Full(r, rs)
    BY <1>4, <1>6, <1>10 DEF Full, Done, e
  <1> QED
    BY <1>3, <1>4, <1>6, <1>7, <1>8, <1>9, <1>10 DEF r, e, u, m

(* The end of a request: its answer is settled.                              *)
LEMMA EndApplied ==
    ASSUME NEW g \in Nat, MaxChunks \in Nat \ {0},
           NEW u \in Endings(g), NEW l, Pure(l, g), Answering(l, g),
           NEW rs, NEW rs2, \A h \in Gens : h # g => rs2[h] = rs[h]
    PROVE  LET r == Apply(u, l, g) IN
           /\ Pure(r, g)
           /\ Tidy(l) => Finished(r) /\ Tidy(r)
           /\ Full(l, rs) /\ DoneWith(u, l, rs2, g) => Full(r, rs2)
  <1> DEFINE k == Len(l)
             m == l[k]
             r == Apply(u, l, g)
  <1>1. l \in Seq(Messages) /\ k \in Nat /\ k > 0 /\ k \in 1 .. k
    BY LenProperties DEF Pure, Answering
  <1>2. m \in Messages /\ ~m.foreign /\ m.of = g /\ m.status \in Pending
        /\ m.from = "assistant"
    BY <1>1, ElementOfSeq DEF Pure, Answering
  <1> DEFINE e == UpdateMessage(u, m)
  <1>3. /\ e \in Messages /\ ~e.foreign /\ e.from = m.from /\ e.of = g
        /\ ~IsPending(e) /\ (u.kind = "complete" => e.text = m.text)
    BY <1>2, EndedMessage
  <1>4. u.kind \notin {"value", "delete"} /\ u.gen = g
    BY DEF Endings, Complete, Fail, Response
  <1>5. /\ r \in Seq(Messages) /\ Len(r) = k /\ r[k] = e
        /\ \A i \in 1 .. k : i # k => r[i] = l[i]
    BY <1>1, <1>2, <1>3, <1>4, ApplyLast
  <1>6. \A i \in 1 .. k : l[i] \in Messages /\ (l[i].from = "assistant" /\ l[i].of = g => i = k)
    BY <1>1, ElementOfSeq DEF Answering
  <1> HIDE DEF r, e, m
  <1>7. Pure(r, g)
    BY <1>1, <1>3, <1>5 DEF Pure
  <1>8. Tidy(l) => Finished(r) /\ Tidy(r)
    BY <1>3, <1>5 DEF Tidy, Finished
  <1>9. ASSUME Full(l, rs), DoneWith(u, l, rs2, g)
        PROVE  Full(r, rs2)
    <2> SUFFICES ASSUME NEW i \in 1 .. k, r[i].from = "assistant", rs2[r[i].of].done
                 PROVE  r[i].text = rs2[r[i].of].received
      BY <1>5 DEF Full
    <2>1. CASE i = k
      BY <1>3, <1>5, <1>9, <2>1 DEF DoneWith, Done, m
    <2>2. CASE i # k
      <3>1. r[i] = l[i] /\ l[i].of # g /\ l[i].of \in Gens
        BY <1>5, <1>6, <2>2 DEF Messages
      <3> QED
        BY <1>9, <3>1 DEF Full
    <2> QED
      BY <2>1, <2>2
  <1> QED
    BY <1>7, <1>8, <1>9 DEF r, m

(* Stop settles the last message, whatever it is.                            *)
LEMMA StopApplied ==
    ASSUME NEW g, NEW h, NEW l, Pure(l, g)
    PROVE  LET r == Apply(Complete(h, NoGen), l, h) IN
           /\ Pure(r, g)
           /\ Tidy(l) => Finished(r)
  <1> DEFINE k == Len(l)
             u == Complete(h, NoGen)
             r == Apply(u, l, h)
  <1>1. l \in Seq(Messages) /\ k \in Nat /\ (l # <<>> => k > 0) /\ u.gen = h
        /\ u.kind = "complete"
    BY LenProperties, EmptySeq DEF Pure, Complete
  <1>2. CASE l = <<>> \/ l[k].from # "assistant"
    <2>1. r = l
      BY <1>1, <1>2 DEF Apply, Last
    <2> QED
      BY <1>1, <1>2, <2>1 DEF Tidy, Finished, IsPending
  <1>3. CASE l # <<>> /\ l[k].from = "assistant"
    <2> DEFINE e == UpdateMessage(u, l[k])
    <2>1. l[k] \in Messages /\ ~l[k].foreign /\ l[k].of <= g
      BY <1>1, <1>3, ElementOfSeq DEF Pure
    <2>2. e \in Messages /\ ~e.foreign /\ e.of = l[k].of /\ ~IsPending(e)
      BY <2>1, StoppedMessage
    <2> HIDE DEF u
    <2>3. /\ r \in Seq(Messages) /\ Len(r) = k /\ r[k] = e
          /\ \A i \in 1 .. k : i # k => r[i] = l[i]
      BY <1>1, <1>3, <2>2, ApplyLast
    <2> HIDE DEF r, e
    <2> QED
      BY <2>1, <2>2, <2>3 DEF Pure, Tidy, Finished, r, u
  <1> QED
    BY <1>2, <1>3

(***************************************************************************)
(* Queueing updaters.                                                      *)
(***************************************************************************)
(* Nothing is flushed: nothing is queued.                                    *)
LEMMA QueueNone ==
    ASSUME queue \in Seq(Updates), Queue(<<>>)
    PROVE  UNCHANGED <<queue, list, latest, saving, stored>>
  <1>1. queue \o <<>> = queue
    BY ConcatEmptySeq
  <1> QED
    BY <1>1 DEF Queue, disk

(* One updater of the newest request.                                        *)
LEMMA QueueOne ==
    ASSUME queue \in Seq(Updates), NEW u \in Updates, u.kind # "value", u.gen = gen,
           gen \in Nat, saving \in BOOLEAN, Apply(u, list, gen) \in Seq(Messages), Queue(<<u>>)
    PROVE  /\ queue' \in Seq(Updates) /\ queue' # <<>>
           /\ list' = list /\ stored' = stored /\ saving' \in BOOLEAN
           /\ latest' \in {latest, Apply(u, list, gen)}
           /\ ApplyAll(queue', list, gen) = Apply(u, View(gen), gen)
           /\ ApplyAll(queue', list, gen + 1) \in {View(gen + 1), Apply(u, list, gen)}
  <1>1. u.kind \notin {"value", "delete"} /\ u.gen # gen + 1
    BY DEF Updates
  <1>2. CASE queue' = queue \o <<u>> /\ UNCHANGED <<list, disk>>
    <2>1. queue \o <<u>> = Append(queue, u)
      BY AppendIsConcat
    <2>2. queue' \in Seq(Updates) /\ queue' # <<>>
      BY <1>2, <2>1, AppendProperties
    <2>3. \A g : ApplyAll(Append(queue, u), list, g) = Apply(u, View(g), g)
      BY ApplyMore DEF View
    <2>4. \A g : ApplyAll(queue', list, g) = Apply(u, View(g), g)
      BY <1>2, <2>1, <2>3
    <2>5. ApplyAll(queue', list, gen + 1) = View(gen + 1)
      BY <1>1, <2>4, ApplySkips
    <2> QED
      BY <1>2, <2>2, <2>4, <2>5 DEF disk
  <1>3. CASE /\ queue = <<>>
             /\ LET now == Apply(Head(<<u>>), list, gen)
                IN  /\ queue' = <<Value(now)>> \o Tail(<<u>>)
                    /\ latest' = now
                    /\ saving' = TRUE
             /\ UNCHANGED <<list, stored>>
    <2> DEFINE now == Apply(u, list, gen)
    <2>1. Head(<<u>>) = u /\ Tail(<<u>>) = <<>>
      OBVIOUS
    <2>2. queue' = <<Value(now)>> /\ latest' = now /\ saving' = TRUE
      BY <1>3, <2>1
    <2>3. Value(now) \in Updates
      BY DEF Value, Updates
    <2>4. \A g : Apply(Value(now), list, g) = now
      BY DEF Apply, Value
    <2>5. \A g : ApplyAll(queue', list, g) = now
      BY <2>2, <2>4, ApplyOne
    <2>6. View(gen) = list
      BY <1>3, ApplyNone DEF View
    <2> HIDE DEF now
    <2>7. queue' \in Seq(Updates) /\ queue' # <<>>
      BY <2>2, <2>3
    <2> QED
      BY <1>3, <2>2, <2>5, <2>6, <2>7 DEF now
  <1> QED
    BY <1>2, <1>3 DEF Queue

(* The flush and the end of the newest request.                              *)
LEMMA QueueTwo ==
    ASSUME queue \in Seq(Updates), NEW u \in Updates, u.kind # "value", u.gen = gen,
           NEW v \in Updates, v.kind # "value", v.gen = gen,
           gen \in Nat, saving \in BOOLEAN, Apply(u, list, gen) \in Seq(Messages),
           Queue(<<u, v>>)
    PROVE  /\ queue' \in Seq(Updates) /\ queue' # <<>>
           /\ list' = list /\ stored' = stored /\ saving' \in BOOLEAN
           /\ latest' \in {latest, Apply(u, list, gen)}
           /\ ApplyAll(queue', list, gen) = Apply(v, Apply(u, View(gen), gen), gen)
           /\ ApplyAll(queue', list, gen + 1) \in {View(gen + 1), Apply(u, list, gen)}
  <1>1. /\ u.kind \notin {"value", "delete"} /\ u.gen # gen + 1
        /\ v.kind \notin {"value", "delete"} /\ v.gen # gen + 1
    BY DEF Updates
  <1>2. CASE queue' = queue \o <<u, v>> /\ UNCHANGED <<list, disk>>
    <2> DEFINE q == Append(queue, u)
    <2>1. q \in Seq(Updates) /\ Append(q, v) \in Seq(Updates) /\ Append(q, v) # <<>>
      BY AppendProperties
    <2>2. queue \o <<u, v>> = Append(q, v)
      OBVIOUS
    <2>3. \A g : ApplyAll(q, list, g) = Apply(u, View(g), g)
      BY ApplyMore DEF View
    <2> HIDE DEF q
    <2>4. \A g : ApplyAll(queue', list, g) = Apply(v, ApplyAll(q, list, g), g)
      <3>1. \A g : ApplyAll(Append(q, v), list, g) = Apply(v, ApplyAll(q, list, g), g)
        BY <2>1, ApplyMore
      <3> QED
        BY <1>2, <2>2, <3>1
    <2>5. ApplyAll(queue', list, gen) = Apply(v, Apply(u, View(gen), gen), gen)
      BY <2>3, <2>4
    <2>6. ApplyAll(queue', list, gen + 1) = Apply(v, Apply(u, View(gen + 1), gen + 1), gen + 1)
      BY <2>3, <2>4
    <2>7. ApplyAll(queue', list, gen + 1) = View(gen + 1)
      BY <1>1, <2>6, ApplySkips
    <2> QED
      BY <1>2, <2>1, <2>2, <2>5, <2>7 DEF disk
  <1>3. CASE /\ queue = <<>>
             /\ LET now == Apply(Head(<<u, v>>), list, gen)
                IN  /\ queue' = <<Value(now)>> \o Tail(<<u, v>>)
                    /\ latest' = now
                    /\ saving' = TRUE
             /\ UNCHANGED <<list, stored>>
    <2> DEFINE now == Apply(u, list, gen)
    <2>1. Head(<<u, v>>) = u /\ Tail(<<u, v>>) = <<v>>
      OBVIOUS
    <2>2. queue' = <<Value(now), v>> /\ latest' = now /\ saving' = TRUE
      <3>1. ASSUME NEW e PROVE <<e>> \o <<v>> = <<e, v>>
        <4>1. <<e>> \in Seq({e, v}) /\ v \in {e, v}
          OBVIOUS
        <4>2. Append(<<e>>, v) = <<e>> \o <<v>>
          BY <4>1, AppendIsConcat
        <4>3. <<e, v>> = Append(<<e>>, v)
          OBVIOUS
        <4> QED
          BY <4>2, <4>3
      <3> QED
        BY <1>3, <2>1, <3>1
    <2>3. Value(now) \in Updates
      BY DEF Value, Updates
    <2>4. \A g : Apply(Value(now), list, g) = now
      BY DEF Apply, Value
    <2>5. \A g : ApplyAll(queue', list, g) = Apply(v, now, g)
      BY <2>2, <2>4, ApplyTwo
    <2>6. ApplyAll(queue', list, gen + 1) = now
      BY <1>1, <2>5, ApplySkips
    <2>7. View(gen) = list
      BY <1>3, ApplyNone DEF View
    <2> HIDE DEF now
    <2>8. queue' \in Seq(Updates) /\ queue' # <<>>
      BY <2>2, <2>3
    <2> QED
      BY <1>3, <2>2, <2>5, <2>6, <2>7, <2>8 DEF now
  <1> QED
    BY <1>2, <1>3 DEF Queue

(* What the updaters of the newest request are.                              *)
LEMMA UpdatesOf ==
    ASSUME NEW g \in Nat, NEW b \in Texts, NEW u \in Endings(g)
    PROVE  /\ Chunk(g, b) \in Updates /\ Chunk(g, b).kind = "chunk" /\ Chunk(g, b).gen = g
           /\ u \in Updates /\ u.kind # "value" /\ u.gen = g
  BY DEF Endings, Chunk, Complete, Fail, Response, Updates

(* What the live request has written so far.                                 *)
LEMMA LiveFacts ==
    ASSUME Sound, Live
    PROVE  /\ gen \in Gens /\ gen \in Nat /\ buf.text \in Texts /\ MaxChunks \in Nat \ {0}
           /\ buf.gen = gen /\ reqs[gen].received \in Texts
           /\ queue \in Seq(Updates) /\ saving \in BOOLEAN
           /\ Pure(list, gen) /\ Answering(list, gen)
           /\ Pure(View(gen), gen) /\ Answering(View(gen), gen)
           /\ ~reqs[gen].done
  <1>1. setup \in Setups /\ gen \in Gens
    BY DEF Sound, TypeOK, Live, LiveIn
  <1>2. MaxChunks \in Nat \ {0} /\ MaxGens \in Nat
    BY <1>1, BoundsTyped
  <1>3. gen \in Nat /\ buf.text \in Texts /\ reqs[gen] \in Requests
    BY <1>1, <1>2 DEF Sound, TypeOK, Gens
  <1>4. reqs[gen].received \in Texts
    BY <1>3 DEF Requests
  <1> QED
    BY <1>1, <1>2, <1>3, <1>4 DEF Sound, TypeOK, Generations, Generating, Lists

(* A flush alone.                                                            *)
LEMMA FlushQueued ==
    ASSUME Sound, Live, buf.text # <<>>, Queue(<<Chunk(gen, buf.text)>>)
    PROVE  LET now == ApplyAll(queue', list, gen)
               next == ApplyAll(queue', list, gen + 1) IN
           /\ queue' \in Seq(Updates) /\ queue' # <<>>
           /\ list' = list /\ stored' = stored /\ saving' \in BOOLEAN
           /\ Pure(latest', gen) /\ Pure(now, gen) /\ Pure(next, gen)
           /\ Answering(now, gen)
           /\ ~Edits => Tidy(latest') /\ Tidy(now) /\ Tidy(next)
           /\ ~Loses => /\ Full(now, reqs)
                        /\ Agree(setup.stream, now[Len(now)].text, <<>>, reqs[gen].received)
  <1> DEFINE c == Chunk(gen, buf.text)
             was == View(gen)
             first == Apply(c, list, gen)
             now == Apply(c, was, gen)
  <1>1. /\ gen \in Nat /\ buf.text \in Texts /\ reqs[gen].received \in Texts
        /\ queue \in Seq(Updates) /\ saving \in BOOLEAN
        /\ Pure(list, gen) /\ Answering(list, gen)
        /\ Pure(was, gen) /\ Answering(was, gen)
        /\ ~Done(reqs, gen)
    BY LiveFacts DEF Done
  <1>2. Pure(first, gen) /\ (Tidy(list) => Tidy(first))
    BY <1>1, ChunkApplied
  <1>3. /\ Pure(now, gen) /\ Answering(now, gen)
        /\ was[Len(was)].text \in Texts
        /\ now[Len(now)].text =
               was[Len(was)].text \o GetAppendableChunk(was[Len(was)].text, buf.text)
        /\ Tidy(was) => Tidy(now)
        /\ Full(was, reqs) => Full(now, reqs)
    BY <1>1, ChunkApplied
  <1>4. c \in Updates /\ c.kind = "chunk" /\ c.gen = gen
    BY <1>1 DEF Chunk, Updates
  <1>5. first \in Seq(Messages)
    BY <1>2 DEF Pure
  <1> HIDE DEF c
  <1>6. /\ queue' \in Seq(Updates) /\ queue' # <<>>
        /\ list' = list /\ stored' = stored /\ saving' \in BOOLEAN
        /\ latest' \in {latest, first}
        /\ ApplyAll(queue', list, gen) = now
        /\ ApplyAll(queue', list, gen + 1) \in {View(gen + 1), first}
    <2>1. Queue(<<c>>) /\ c.kind # "value"
      BY <1>4 DEF c
    <2> QED
      BY <1>1, <1>4, <1>5, <2>1, QueueOne
  <1> HIDE DEF first, now
  <1>7. /\ Pure(latest, gen) /\ Pure(View(gen + 1), gen)
        /\ ~Edits => Tidy(list) /\ Tidy(latest) /\ Tidy(was) /\ Tidy(View(gen + 1))
        /\ ~Loses => Full(was, reqs) /\ Agree(setup.stream, was[Len(was)].text, buf.text, reqs[gen].received)
    BY DEF Sound, Lists, Settling, Whole
  <1>8. ~Loses => Agree(setup.stream, now[Len(now)].text, <<>>, reqs[gen].received)
    BY <1>1, <1>3, <1>7, AgreeFlushed
  <1> QED
    BY <1>1, <1>2, <1>3, <1>6, <1>7, <1>8

(* The flush, if there is something to flush, and the end of the request.    *)
LEMMA EndQueued ==
    ASSUME Sound, Live, NEW u \in Endings(gen), Queue(Append(Flushed(gen), u)),
           NEW rs, \A h \in Gens : h # gen => rs[h] = reqs[h]
    PROVE  LET now == ApplyAll(queue', list, gen)
               next == ApplyAll(queue', list, gen + 1) IN
           /\ queue' \in Seq(Updates) /\ queue' # <<>>
           /\ list' = list /\ stored' = stored /\ saving' \in BOOLEAN
           /\ Pure(latest', gen) /\ Pure(now, gen) /\ Pure(next, gen)
           /\ ~Edits => Tidy(latest') /\ Finished(now) /\ Tidy(now) /\ Tidy(next)
           /\ ~Loses /\ (rs[gen].done => /\ u.kind = "complete"
                                         /\ rs[gen].received = reqs[gen].received)
              => Full(now, rs)
  <1> DEFINE was == View(gen)
  <1>1. /\ gen \in Nat /\ buf.text \in Texts /\ MaxChunks \in Nat \ {0} /\ buf.gen = gen
        /\ reqs[gen].received \in Texts
        /\ queue \in Seq(Updates) /\ saving \in BOOLEAN
        /\ Pure(list, gen) /\ Answering(list, gen)
        /\ Pure(was, gen) /\ Answering(was, gen)
        /\ ~Done(reqs, gen)
    BY LiveFacts DEF Done
  <1>2. /\ Pure(latest, gen) /\ Pure(View(gen + 1), gen)
        /\ ~Edits => Tidy(list) /\ Tidy(latest) /\ Tidy(was) /\ Tidy(View(gen + 1))
        /\ ~Loses => Full(was, reqs) /\ Agree(setup.stream, was[Len(was)].text, buf.text, reqs[gen].received)
    BY DEF Sound, Lists, Settling, Whole
  <1>3. u \in Updates /\ u.kind # "value" /\ u.gen = gen
    BY <1>1, UpdatesOf
  <1> HIDE DEF was
  <1>4. CASE buf.text # <<>>
    <2> DEFINE c == Chunk(gen, buf.text)
               first == Apply(c, list, gen)
               mid == Apply(c, was, gen)
               now == Apply(u, mid, gen)
    <2>1. Pure(first, gen) /\ (Tidy(list) => Tidy(first)) /\ first \in Seq(Messages)
      BY <1>1, ChunkApplied DEF Pure
    <2>2. /\ Pure(mid, gen) /\ Answering(mid, gen)
          /\ was[Len(was)].text \in Texts
          /\ mid[Len(mid)].text =
                 was[Len(was)].text \o GetAppendableChunk(was[Len(was)].text, buf.text)
          /\ Tidy(was) => Tidy(mid)
          /\ Full(was, reqs) => Full(mid, reqs)
      <3>1. /\ gen \in Nat /\ buf.text \in Texts /\ Pure(was, gen) /\ Answering(was, gen)
            /\ ~Done(reqs, gen)
        BY <1>1
      <3> QED
        BY <3>1, ChunkApplied, ZenonT(60)
    <2>3. c \in Updates /\ c.kind # "value" /\ c.gen = gen
      BY <1>1, UpdatesOf
    <2>4. Append(Flushed(gen), u) = <<c, u>>
      <3>1. Flushed(gen) = <<c>>
        BY <1>1, <1>4 DEF Flushed
      <3> HIDE DEF c
      <3>2. <<c, u>> = Append(<<c>>, u)
        OBVIOUS
      <3> QED
        BY <3>1, <3>2
    <2> HIDE DEF c, mid
    <2>5. /\ Pure(now, gen)
          /\ Tidy(mid) => Finished(now) /\ Tidy(now)
          /\ Full(mid, reqs) /\ DoneWith(u, mid, rs, gen) => Full(now, rs)
      <3>1. Answering(mid, gen) /\ Pure(mid, gen) /\ gen \in Nat /\ MaxChunks \in Nat \ {0}
        BY <1>1, <2>2
      <3> QED
        BY <3>1, EndApplied
    <2>6. /\ queue' \in Seq(Updates) /\ queue' # <<>>
          /\ list' = list /\ stored' = stored /\ saving' \in BOOLEAN
          /\ latest' \in {latest, first}
          /\ ApplyAll(queue', list, gen) = now
          /\ ApplyAll(queue', list, gen + 1) \in {View(gen + 1), first}
      <3>1. Queue(<<c, u>>)
        BY <2>4
      <3> QED
        BY <1>1, <1>3, <2>1, <2>3, <3>1, QueueTwo DEF mid, was
    <2> HIDE DEF first, now
    <2>7. ~Loses => mid[Len(mid)].text = reqs[gen].received
      <3> SUFFICES ASSUME ~Loses PROVE mid[Len(mid)].text = reqs[gen].received
        OBVIOUS
      <3>1. Agree(setup.stream, mid[Len(mid)].text, <<>>, reqs[gen].received)
        BY <1>1, <1>2, <1>4, <2>2, AgreeFlushed
      <3>2. mid[Len(mid)].text \in Texts
        BY <1>1, <2>2, MergesTyped
      <3> QED
        BY <3>1, <3>2, AgreeShown
    <2> QED
      BY <1>1, <1>2, <2>1, <2>2, <2>5, <2>6, <2>7 DEF DoneWith, Done
  <1>5. CASE buf.text = <<>>
    <2> DEFINE first == Apply(u, list, gen)
               now == Apply(u, was, gen)
    <2>1. /\ Pure(first, gen) /\ first \in Seq(Messages)
          /\ Tidy(list) => Tidy(first)
      BY <1>1, EndApplied DEF Pure
    <2>2. /\ Pure(now, gen)
          /\ Tidy(was) => Finished(now) /\ Tidy(now)
          /\ Full(was, reqs) /\ DoneWith(u, was, rs, gen) => Full(now, rs)
      BY <1>1, EndApplied
    <2>3. Append(Flushed(gen), u) = <<u>>
      <3>1. Flushed(gen) = <<>>
        BY <1>5 DEF Flushed
      <3> QED
        BY <3>1
    <2>4. /\ queue' \in Seq(Updates) /\ queue' # <<>>
          /\ list' = list /\ stored' = stored /\ saving' \in BOOLEAN
          /\ latest' \in {latest, first}
          /\ ApplyAll(queue', list, gen) = now
          /\ ApplyAll(queue', list, gen + 1) \in {View(gen + 1), first}
      <3>1. Queue(<<u>>)
        BY <2>3
      <3> QED
        BY <1>1, <1>3, <2>1, <3>1, QueueOne DEF was
    <2>5. ~Loses => was[Len(was)].text = reqs[gen].received
      <3>2. was[Len(was)].text \in Texts
        <4>1. Len(was) \in 1 .. Len(was) /\ was \in Seq(Messages)
          BY <1>1, LenProperties DEF Pure, Answering
        <4>2. was[Len(was)] \in Messages
          BY <4>1, ElementOfSeq
        <4> QED
          BY <4>2 DEF Messages
      <3> QED
        BY <1>2, <1>5, <3>2, AgreeShown
    <2> HIDE DEF first, now
    <2> QED
      BY <1>2, <2>1, <2>2, <2>4, <2>5 DEF DoneWith, Done
  <1> QED
    BY <1>4, <1>5

(***************************************************************************)
(* New lists.                                                              *)
(***************************************************************************)
(* Messages stay of requests made so far.                                    *)
LEMMA PureMore ==
    ASSUME NEW g \in Nat, NEW h \in Nat, g <= h, MaxGens \in Nat, NEW l, Pure(l, g)
    PROVE  Pure(l, h)
  <1>1. \A i \in 1 .. Len(l) : l[i] \in Messages
    BY ElementOfSeq DEF Pure
  <1>2. \A i \in 1 .. Len(l) : l[i].of \in Nat
    BY <1>1 DEF Messages, Gens
  <1> QED
    BY <1>2 DEF Pure

(* An empty list.                                                            *)
LEMMA EmptyList ==
    ASSUME NEW g, NEW rs
    PROVE  Pure(<<>>, g) /\ Tidy(<<>>) /\ Finished(<<>>) /\ Full(<<>>, rs)
  BY DEF Pure, Tidy, Finished, Full

(* A list with messages of another one only.                                 *)
LEMMA Sublist ==
    ASSUME NEW l, NEW g, Pure(l, g), NEW s \in Seq(Messages), NEW rs,
           \A i \in 1 .. Len(s) : \E j \in 1 .. Len(l) : s[i] = l[j]
    PROVE  /\ Pure(s, g)
           /\ Finished(l) => Finished(s) /\ Tidy(s)
           /\ Full(l, rs) => Full(s, rs)
  <1>1. Pure(s, g)
    BY DEF Pure
  <1>2. Finished(l) => Finished(s) /\ Tidy(s)
    BY DEF Finished, Tidy
  <1>3. Full(l, rs) => Full(s, rs)
    BY DEF Full
  <1> QED
    BY <1>1, <1>2, <1>3

(* A prefix.                                                                 *)
LEMMA Prefix ==
    ASSUME NEW l, NEW g, Pure(l, g), NEW n \in 0 .. Len(l), NEW rs
    PROVE  LET s == SubSeq(l, 1, n) IN
           /\ Pure(s, g)
           /\ Finished(l) => Finished(s) /\ Tidy(s)
           /\ Full(l, rs) => Full(s, rs)
  <1> DEFINE s == SubSeq(l, 1, n)
  <1>1. l \in Seq(Messages) /\ Len(l) \in Nat /\ n \in Nat
    BY LenProperties DEF Pure
  <1>2. s \in Seq(Messages) /\ Len(s) = n /\ \A i \in 1 .. n : s[i] = l[i]
    BY <1>1, SubSeqProperties
  <1>3. \A i \in 1 .. Len(s) : \E j \in 1 .. Len(l) : s[i] = l[j]
    BY <1>1, <1>2
  <1> HIDE DEF s
  <1> QED
    BY <1>2, <1>3, Sublist DEF s

\* f records what removeMessageByKey keeps of the first n messages of l.
IsKept(f, key, l, n) ==
    f = [i \in 0 .. n |-> IF i = 0 THEN <<>>
                          ELSE IF Key(l[i]) = key THEN f[i - 1]
                          ELSE Append(f[i - 1], l[i])]

(* Any number of messages can be gone through.                               *)
LEMMA KeptExists ==
    ASSUME NEW key, NEW l
    PROVE  \A n \in Nat : \E f : IsKept(f, key, l, n)
  <1> DEFINE S == {n \in Nat : \E f : IsKept(f, key, l, n)}
             step(i, s) == IF Key(l[i]) = key THEN s ELSE Append(s, l[i])
  <1>1. 0 \in S
    <2> DEFINE f == [i \in 0 .. 0 |-> <<>>]
    <2>1. IsKept(f, key, l, 0)
      BY DEF IsKept
    <2> QED
      BY <2>1
  <1>2. ASSUME NEW n \in Nat, n \in S PROVE n + 1 \in S
    <2>1. PICK f : IsKept(f, key, l, n)
      BY <1>2
    <2> DEFINE h == [i \in 0 .. (n + 1) |-> IF i = n + 1 THEN step(n + 1, f[n]) ELSE f[i]]
    <2>2. \A i \in 0 .. n : f[i] = IF i = 0 THEN <<>> ELSE step(i, f[i - 1])
      BY <2>1 DEF IsKept
    <2> HIDE DEF step
    <2>3. ASSUME NEW i \in 0 .. (n + 1)
          PROVE  h[i] = IF i = 0 THEN <<>> ELSE step(i, h[i - 1])
      <3>1. CASE i = n + 1
        BY <3>1
      <3>2. CASE i # n + 1
        <4>1. i \in 0 .. n /\ h[i] = f[i] /\ (i # 0 => h[i - 1] = f[i - 1])
          BY <3>2
        <4> QED
          BY <4>1, <2>2
      <3> QED
        BY <3>1, <3>2
    <2>4. IsKept(h, key, l, n + 1)
      <3> DEFINE k == [i \in 0 .. (n + 1) |-> IF i = 0 THEN <<>> ELSE step(i, h[i - 1])]
      <3>1. h = k
        <4>1. \A i \in 0 .. (n + 1) : h[i] = k[i]
          BY <2>3
        <4> HIDE DEF h
        <4> QED
          BY <4>1 DEF h
      <3> QED
        BY <3>1 DEF IsKept, step
    <2> QED
      BY <2>4
  <1> QED
    <2> HIDE DEF S
    <2>1. Nat \subseteq S
      BY <1>1, <1>2, Induction
    <2> QED
      BY <2>1 DEF S

(* Removing a key leaves messages of the list.                               *)
LEMMA KeptFrom ==
    ASSUME NEW l \in Seq(Messages), NEW key
    PROVE  LET s == Without(key, l) IN
           /\ s \in Seq(Messages)
           /\ \A i \in 1 .. Len(s) : \E j \in 1 .. Len(l) : s[i] = l[j]
  <1> DEFINE n == Len(l)
             f == CHOOSE f : IsKept(f, key, l, n)
             From(s) == s \in Seq(Messages) /\ \A i \in 1 .. Len(s) : \E j \in 1 .. n : s[i] = l[j]
             S == {i \in Nat : i <= n => From(f[i])}
  <1>1. n \in Nat
    BY LenProperties
  <1>2. IsKept(f, key, l, n)
    BY <1>1, KeptExists
  <1>3. Without(key, l) = f[n]
    BY DEF Without, IsKept
  <1> HIDE DEF f
  <1>4. \A i \in 0 .. n : f[i] = IF i = 0 THEN <<>>
                                 ELSE IF Key(l[i]) = key THEN f[i - 1]
                                 ELSE Append(f[i - 1], l[i])
    BY <1>2 DEF IsKept
  <1>5. 0 \in S
    <2>1. f[0] = <<>>
      BY <1>1, <1>4
    <2>2. From(<<>>)
      OBVIOUS
    <2> HIDE DEF From
    <2> QED
      BY <2>1, <2>2
  <1>6. ASSUME NEW i \in Nat, i \in S PROVE i + 1 \in S
    <2> SUFFICES ASSUME i + 1 <= n PROVE From(f[i + 1])
      OBVIOUS
    <2> DEFINE s == f[i]
               m == l[i + 1]
    <2>1. From(s) /\ i + 1 \in 1 .. n /\ i + 1 \in 0 .. n /\ i + 1 # 0 /\ (i + 1) - 1 = i
      BY <1>1, <1>6
    <2>2. f[i + 1] = s \/ f[i + 1] = Append(s, m)
      BY <1>4, <2>1
    <2>3. m \in Messages
      BY <2>1, ElementOfSeq
    <2>4. From(Append(s, m))
      <3> DEFINE t == Append(s, m)
      <3>1. /\ t \in Seq(Messages) /\ Len(t) = Len(s) + 1 /\ t[Len(s) + 1] = m
            /\ \A k \in 1 .. Len(s) : t[k] = s[k]
        BY <2>1, <2>3, AppendProperties
      <3>2. \A k \in 1 .. (Len(s) + 1) : k \in 1 .. Len(s) \/ k = Len(s) + 1
        BY <2>1, LenProperties
      <3> HIDE DEF t
      <3>3. \A k \in 1 .. Len(t) : \E j \in 1 .. n : t[k] = l[j]
        BY <2>1, <3>1, <3>2
      <3> QED
        BY <3>1, <3>3 DEF t
    <2> HIDE DEF From
    <2> QED
      BY <2>1, <2>2, <2>4
  <1>7. Nat \subseteq S
    <2> HIDE DEF S
    <2> QED
      BY <1>5, <1>6, Induction
  <1>8. From(f[n])
    <2> HIDE DEF From
    <2> QED
      BY <1>1, <1>7
  <1> QED
    BY <1>3, <1>8

(* A list without the messages that have a key.                              *)
LEMMA Removed ==
    ASSUME NEW l, NEW g, Pure(l, g), NEW key, NEW rs
    PROVE  LET s == Without(key, l) IN
           /\ Pure(s, g)
           /\ Finished(l) => Finished(s) /\ Tidy(s)
           /\ Full(l, rs) => Full(s, rs)
  <1>1. l \in Seq(Messages)
    BY DEF Pure
  <1> QED
    BY <1>1, KeptFrom, Sublist

(* A list with a new answer to be written.                                   *)
LEMMA NewAnswer ==
    ASSUME NEW g \in Gens, MaxGens \in Nat, MaxChunks \in Nat \ {0}, NEW base \in Seq(Messages),
           \A i \in 1 .. Len(base) :
                /\ ~base[i].foreign /\ base[i].of <= g
                /\ base[i].from = "assistant" => base[i].of < g,
           NEW rs, NEW rs2, \A h \in Gens : h # g => rs2[h] = rs[h], ~Done(rs2, g)
    PROVE  LET l == Append(base, LoadingMessage(g)) IN
           /\ Pure(l, g) /\ Answering(l, g) /\ l[Len(l)].text = <<>>
           /\ Finished(base) => Tidy(l)
           /\ Full(base, rs) => Full(l, rs2)
  <1> DEFINE m == LoadingMessage(g)
             l == Append(base, m)
             k == Len(base)
  <1>0. <<>> \in Texts /\ g \in Nat /\ k \in Nat
    BY AgreeEmpty, LenProperties DEF Gens
  <1>1. /\ m \in Messages /\ m.from = "assistant" /\ m.of = g /\ m.text = <<>> /\ ~m.foreign
        /\ m.status \in Pending
    BY <1>0 DEF LoadingMessage, Messages, Pending
  <1> HIDE DEF m
  <1>2. l \in Seq(Messages) /\ Len(l) = k + 1 /\ l[k + 1] = m /\ \A i \in 1 .. k : l[i] = base[i]
    BY <1>1, AppendProperties
  <1>3. \A i \in 1 .. (k + 1) : i = k + 1 \/ i \in 1 .. k
    BY <1>0
  <1>4. \A i \in 1 .. k : base[i] \in Messages
    BY ElementOfSeq
  <1> HIDE DEF l, k
  <1>5. Pure(l, g)
    BY <1>0, <1>1, <1>2, <1>3 DEF Pure, k
  <1>6. Answering(l, g)
    <2>1. \A i \in 1 .. k : base[i].from = "assistant" => base[i].of # g
      BY <1>0, <1>4 DEF k, Messages, Gens
    <2> QED
      BY <1>0, <1>1, <1>2, <1>3, <2>1 DEF Answering
  <1>7. Finished(base) => Tidy(l)
    BY <1>2, <1>3 DEF Finished, Tidy, k
  <1>8. ASSUME Full(base, rs) PROVE Full(l, rs2)
    <2> SUFFICES ASSUME NEW i \in 1 .. (k + 1), l[i].from = "assistant", rs2[l[i].of].done
                 PROVE  l[i].text = rs2[l[i].of].received
      BY <1>2 DEF Full
    <2>1. i \in 1 .. k /\ l[i] = base[i]
      BY <1>1, <1>2, <1>3 DEF Done
    <2>2. base[i].of \in Gens /\ base[i].of # g
      BY <1>0, <1>4, <2>1 DEF k, Messages, Gens
    <2> QED
      BY <1>8, <2>1, <2>2 DEF Full, k
  <1> QED
    BY <1>1, <1>2, <1>5, <1>6, <1>7, <1>8 DEF l, m

(* What loadMessages makes of a saved list.                                  *)
LEMMA Sanitized ==
    ASSUME NEW l, NEW g, Pure(l, g)
    PROVE  LET s == Sanitize(l) IN
           /\ Pure(s, g)
           /\ Tidy(l) => Finished(s) /\ Tidy(s)
  <1> DEFINE empty == {i \in DOMAIN l : IsPending(l[i]) /\ l[i].text = <<>>}
             new(i) == IF ~IsPending(l[i]) THEN l[i]
                       ELSE IF i \notin empty THEN [l[i] EXCEPT !.status = "complete"]
                       ELSE IF \A j \in empty : j <= i THEN [l[i] EXCEPT !.status = "error"]
                       ELSE l[i]
             s == [i \in 1 .. Len(l) |-> new(i)]
  <1>1. l \in Seq(Messages) /\ Len(l) \in Nat /\ DOMAIN l = 1 .. Len(l)
    BY LenProperties DEF Pure
  <1>2. Sanitize(l) = s
    BY <1>1 DEF Sanitize
  <1>3. \A i \in 1 .. Len(l) : l[i] \in Messages /\ ~l[i].foreign /\ l[i].of <= g
    BY <1>1, ElementOfSeq DEF Pure
  <1>4. ASSUME NEW i \in 1 .. Len(l)
        PROVE  /\ new(i) \in Messages /\ ~new(i).foreign /\ new(i).of <= g
               /\ Tidy(l) => ~IsPending(new(i))
    <2> DEFINE m == l[i]
    <2>1. m \in Messages /\ ~m.foreign /\ m.of <= g
      BY <1>3
    <2>2. CASE ~IsPending(m)
      BY <2>1, <2>2
    <2>3. CASE IsPending(m) /\ i \notin empty
      <3>1. new(i) = [m EXCEPT !.status = "complete"]
        BY <2>3
      <3> HIDE DEF new, m
      <3> QED
        BY <2>1, <3>1 DEF Messages, IsPending, Pending
    <2>4. CASE i \in empty /\ \A j \in empty : j <= i
      <3>1. new(i) = [m EXCEPT !.status = "error"]
        BY <2>4
      <3> HIDE DEF new, m
      <3> QED
        BY <2>1, <3>1 DEF Messages, IsPending, Pending
    <2>5. CASE i \in empty /\ ~ \A j \in empty : j <= i
      <3>1. new(i) = m
        BY <2>5
      <3>2. ~Tidy(l)
        <4>1. PICK j \in empty : ~(j <= i)
          BY <2>5
        <4>2. j \in 1 .. Len(l) /\ IsPending(l[j]) /\ IsPending(l[i])
          BY <1>1, <2>5, <4>1
        <4>3. i # j
          BY <1>1, <4>1, <4>2
        <4> QED
          BY <4>2, <4>3 DEF Tidy
      <3> QED
        BY <2>1, <3>1, <3>2
    <2> QED
      BY <2>2, <2>3, <2>4, <2>5
  <1> HIDE DEF new
  <1>5. s \in Seq(Messages) /\ Len(s) = Len(l) /\ \A i \in 1 .. Len(l) : s[i] = new(i)
    <2>1. s \in [1 .. Len(l) -> Messages]
      BY <1>4
    <2> QED
      BY <1>1, <2>1, SeqDef
  <1> HIDE DEF s
  <1> QED
    BY <1>2, <1>4, <1>5 DEF Pure, Finished, Tidy

(***************************************************************************)
(* Renders and new requests.                                               *)
(***************************************************************************)
(* A render with nothing left to run.                                        *)
LEMMA Emptied ==
    ASSUME queue' = <<>>
    PROVE  \A g : ApplyAll(queue', list', g) = list'
  BY ApplyNone

(* The bounds.                                                               *)
LEMMA SoundBounds ==
    ASSUME Sound
    PROVE  /\ gen \in Nat /\ setup \in Setups /\ MaxGens \in Nat /\ MaxChunks \in Nat \ {0}
           /\ setup.gens \in Nat /\ setup.gens <= MaxGens /\ sgen = gen
           /\ setup.chunks \in Nat /\ setup.chunks <= MaxChunks /\ setup.lives \in Nat
           /\ life \in Nat /\ buf.text \in Texts /\ buf.gen = gen /\ queue \in Seq(Updates)
  <1>1. setup \in Setups
    BY DEF Sound, TypeOK
  <1>2. MaxGens \in Nat /\ MaxChunks \in Nat \ {0} /\ setup.gens \in 1 .. MaxGens
        /\ setup.chunks \in 1 .. MaxChunks /\ setup.lives \in 1 .. MaxLives /\ MaxLives \in Nat
    BY <1>1, BoundsTyped
  <1> QED
    BY <1>1, <1>2, SMTT(30) DEF Sound, TypeOK, Generations

(* A new request for the list base.                                          *)
LEMMA SendSound ==
    ASSUME Sound, NEW kind \in {"stream", "plain"}, gen < setup.gens,
           NEW base \in Seq(Messages), SendChat(kind, Append(base, LoadingMessage(gen + 1))),
           \A i \in 1 .. Len(base) :
                /\ ~base[i].foreign /\ base[i].of <= gen + 1
                /\ base[i].from = "assistant" => base[i].of < gen + 1,
           ~Edits => Finished(base) /\ editing' = NotEditing,
           ~Loses => Full(base, reqs),
           editing' \in [from : {"user", "assistant"}, of : 0 .. MaxGens],
           life' = life, setup' = setup
    PROVE  Sound'
  <1> DEFINE g == gen + 1
             l == Append(base, LoadingMessage(g))
             new == [NoRequest EXCEPT !.kind = kind, !.sgen = g,
                                      !.pc = IF kind = "stream" THEN "headers" ELSE "open"]
  <1>1. /\ gen \in Nat /\ setup \in Setups /\ MaxGens \in Nat /\ MaxChunks \in Nat \ {0}
        /\ setup.gens \in Nat /\ setup.gens <= MaxGens /\ sgen = gen /\ setup.chunks \in Nat
    BY SoundBounds
  <1>2. g \in Gens /\ g \in Nat /\ g \in 0 .. MaxGens
    BY <1>1 DEF Gens
  <1>3. /\ gen' = g /\ sgen' = g /\ source' = NoGen /\ buf' = [gen |-> g, text |-> <<>>]
        /\ timer' = FALSE /\ reqs' = [reqs EXCEPT ![g] = new]
        /\ busy' = Show([busy EXCEPT !.requesting = TRUE, !.streaming = FALSE])
        /\ list' = l /\ queue' = <<>> /\ latest' = l /\ saving' = TRUE /\ stored' = stored
    BY <1>1 DEF SendChat, DiscardPendingStreamUpdates, Rendered
  <1>4. /\ new \in Requests /\ new.pc \in {"headers", "open"} /\ new.sgen = g
        /\ new.received = <<>> /\ new.done = FALSE
    <2>1. <<>> \in Texts
      BY AgreeEmpty
    <2> QED
      BY <1>2, <2>1 DEF NoRequest, Requests
  <1> HIDE DEF new
  <1>5. reqs \in [Gens -> Requests]
    BY DEF Sound, TypeOK
  <1>6. reqs' \in [Gens -> Requests] /\ reqs'[g] = new /\ \A h \in Gens : h # g => reqs'[h] = reqs[h]
    BY <1>2, <1>3, <1>4, <1>5
  <1>7. /\ Pure(l, g) /\ Answering(l, g) /\ l[Len(l)].text = <<>>
        /\ Finished(base) => Tidy(l)
        /\ Full(base, reqs) => Full(l, reqs')
    <2>1. ~Done(reqs', g)
      BY <1>4, <1>6 DEF Done
    <2> HIDE DEF g
    <2> QED
      BY <1>1, <1>2, <1>6, <2>1, NewAnswer DEF g
  <1>8. l \in Seq(Messages)
    BY <1>7 DEF Pure
  <1>9. Live' /\ reqs'[gen'] = new
    BY <1>2, <1>3, <1>4, <1>6 DEF Live, LiveIn
  <1>10. View(gen)' = l /\ View(gen + 1)' = l
    BY <1>3, Emptied DEF View
  <1>11. Pure(stored, g) /\ (~Edits => Tidy(stored))
    <2>1. Pure(stored, gen) /\ (~Edits => Tidy(stored))
      BY DEF Sound, Lists, Settling
    <2> QED
      BY <1>1, <1>2, <2>1, PureMore
  <1> HIDE DEF l
  <1>12. TypeOK'
    <2>1. buf' \in [gen : 0 .. MaxGens, text : Texts] /\ source' \in 0 .. MaxGens
      BY <1>1, <1>2, <1>3, AgreeEmpty DEF NoGen
    <2>2. busy' \in [requesting : BOOLEAN, streaming : BOOLEAN, shown : BOOLEAN]
      BY <1>3 DEF Show, Sound, TypeOK
    <2>3. \A i \in DOMAIN queue' : queue'[i].kind \in Updaters
      BY <1>3
    <2>4. /\ life \in 1 .. setup.lives /\ setup \in Setups /\ stored \in Seq(Messages)
      BY DEF Sound, TypeOK
    <2> QED
      BY <1>2, <1>3, <1>6, <1>8, <2>1, <2>2, <2>3, <2>4 DEF TypeOK
  <1>13. Generations'
    <2>1. \A h \in Gens : /\ reqs[h].pc # "idle" => reqs[h].sgen = h
                          /\ h > gen => reqs[h] = NoRequest
      BY DEF Sound, Generations
    <2>2. \A h \in Gens : h > g => h > gen /\ h # g
      BY <1>1 DEF Gens
    <2>3. ~(g > g)
      BY <1>2
    <2> QED
      BY <1>3, <1>4, <1>6, <2>1, <2>2, <2>3 DEF Generations
  <1>14. Generating'
    <2>1. busy \in [requesting : BOOLEAN, streaming : BOOLEAN, shown : BOOLEAN]
      BY DEF Sound, TypeOK
    <2>2. busy'.requesting /\ ~busy'.streaming /\ busy'.shown
      BY <1>3, <2>1 DEF Show
    <2>3. busy'.requesting = TRUE /\ Live' = TRUE
      BY <1>3, <1>9, <2>1 DEF Show, Live, LiveIn
    <2> QED
      BY <1>3, <1>4, <1>9, <2>2, <2>3 DEF Generating
  <1>15. Lists'
    <2>1. Pure(View(gen), gen)' /\ Pure(View(gen + 1), gen)'
      BY <1>3, <1>7, <1>10
    <2>2. buf'.text = <<>> /\ reqs'[gen'].received = <<>>
      BY <1>3, <1>4, <1>9
    <2> QED
      BY <1>3, <1>7, <1>10, <1>11, <2>1, <2>2 DEF Lists
  <1>16. ASSUME ~Edits' PROVE Settling'
    <2>1. ~Edits
      BY <1>16 DEF Edits
    <2>2. editing' = NotEditing /\ Tidy(l) /\ Tidy(stored)
      BY <1>7, <1>11, <2>1
    <2> QED
      BY <1>3, <1>9, <1>10, <2>2 DEF Settling
  <1>17. ASSUME ~Loses' PROVE Whole'
    <2>1. ~Loses
      BY <1>17 DEF Loses
    <2>2. buf'.text = <<>> /\ reqs'[gen'].received = <<>>
      BY <1>3, <1>4, <1>9
    <2> QED
      BY <1>7, <1>10, <2>1, <2>2, AgreeEmpty DEF Whole
  <1>18. queue' \in Seq(Updates)
    BY <1>3
  <1> QED
    BY <1>12, <1>13, <1>14, <1>15, <1>16, <1>17, <1>18 DEF Sound

(* A render that leaves the requests alone.                                  *)
LEMMA RenderSound ==
    ASSUME Sound, NEW msgs, Rendered(msgs),
           UNCHANGED <<gen, reqs, sgen, source, buf, timer, life, setup>>, busy' = Show(busy),
           editing' \in [from : {"user", "assistant"}, of : 0 .. MaxGens],
           Pure(msgs, gen), Live => Answering(msgs, gen),
           ~Edits => editing' = NotEditing /\ Tidy(msgs) /\ (~Live => Finished(msgs)),
           ~Loses => /\ Full(msgs, reqs)
                     /\ Live => Agree(setup.stream, msgs[Len(msgs)].text, buf.text, reqs[gen].received)
    PROVE  Sound'
  <1>1. list' = msgs /\ queue' = <<>> /\ latest' = msgs /\ saving' = TRUE /\ stored' = stored
    BY DEF Rendered
  <1>2. View(gen)' = msgs /\ View(gen + 1)' = msgs
    BY <1>1, Emptied DEF View
  <1>3. Live' = Live
    BY DEF Live
  <1>4. msgs \in Seq(Messages)
    BY DEF Pure
  <1>5. TypeOK'
    <2>1. \A i \in DOMAIN queue' : queue'[i].kind \in Updaters
      BY <1>1
    <2>2. busy' \in [requesting : BOOLEAN, streaming : BOOLEAN, shown : BOOLEAN]
      BY DEF Show, Sound, TypeOK
    <2>3. /\ gen \in 0 .. MaxGens /\ reqs \in [Gens -> Requests] /\ sgen \in Nat
          /\ source \in 0 .. MaxGens /\ buf \in [gen : 0 .. MaxGens, text : Texts]
          /\ timer \in BOOLEAN /\ stored \in Seq(Messages) /\ life \in 1 .. setup.lives
          /\ setup \in Setups
      BY DEF Sound, TypeOK
    <2> QED
      BY <1>1, <1>4, <2>1, <2>2, <2>3 DEF TypeOK
  <1>6. Generations'
    BY DEF Sound, Generations
  <1>7. Generating'
    <2>1. busy \in [requesting : BOOLEAN, streaming : BOOLEAN, shown : BOOLEAN]
      BY DEF Sound, TypeOK
    <2>2. /\ busy'.requesting = busy.requesting /\ busy'.streaming = busy.streaming
          /\ busy'.shown = (busy.requesting \/ busy.streaming)
      BY <2>1 DEF Show
    <2>3. /\ busy.requesting = Live /\ (busy.streaming => Live) /\ (buf.text # <<>> => Live)
          /\ Live => ~reqs[gen].done
      BY DEF Sound, Generating
    <2> QED
      BY <1>1, <1>3, <2>2, <2>3 DEF Generating
  <1>8. Lists'
    <2>1. Pure(stored, gen)
      BY DEF Sound, Lists
    <2>2. Pure(View(gen), gen)' /\ Pure(View(gen + 1), gen)'
      BY <1>2
    <2> QED
      BY <1>1, <1>2, <1>3, <2>1, <2>2 DEF Lists
  <1>9. ASSUME ~Edits' PROVE Settling'
    <2>1. ~Edits
      BY <1>9 DEF Edits
    <2>2. Tidy(stored)
      BY <2>1 DEF Sound, Settling
    <2> QED
      BY <1>1, <1>2, <1>3, <2>1, <2>2 DEF Settling
  <1>10. ASSUME ~Loses' PROVE Whole'
    <2>1. ~Loses
      BY <1>10 DEF Loses
    <2> QED
      BY <1>2, <1>3, <2>1 DEF Whole
  <1>11. queue' \in Seq(Updates)
    BY <1>1
  <1> QED
    BY <1>5, <1>6, <1>7, <1>8, <1>9, <1>10, <1>11 DEF Sound

(* A new generation without a request: Stop, or a new life of the page.      *)
LEMMA RestartSound ==
    ASSUME Sound, gen < setup.gens,
           gen' = gen + 1, sgen' = sgen + 1, source' = NoGen, buf' = [gen |-> gen + 1, text |-> <<>>],
           timer' = FALSE, busy' = Idle, queue' = <<>>, setup' = setup,
           reqs' \in [Gens -> Requests],
           \A g \in Gens : /\ reqs[g].pc = "idle" => reqs'[g] = reqs[g]
                           /\ reqs'[g].sgen = reqs[g].sgen,
           NEW msgs, list' = msgs, latest' = msgs, saving' \in BOOLEAN,
           Pure(msgs, gen), Pure(stored', gen),
           editing' \in [from : {"user", "assistant"}, of : 0 .. MaxGens],
           life' \in 1 .. setup.lives,
           ~Edits => editing' = NotEditing /\ Finished(msgs) /\ Tidy(stored'),
           Loses
    PROVE  Sound'
  <1> DEFINE g == gen + 1
  <1>1. /\ gen \in Nat /\ setup \in Setups /\ MaxGens \in Nat /\ MaxChunks \in Nat \ {0}
        /\ setup.gens \in Nat /\ setup.gens <= MaxGens /\ sgen = gen /\ setup.chunks \in Nat
    BY SoundBounds
  <1>2. g \in Gens /\ g \in Nat /\ g \in 0 .. MaxGens /\ g > gen /\ gen <= g
    BY <1>1 DEF Gens
  <1>3. View(gen)' = msgs /\ View(gen + 1)' = msgs
    BY Emptied DEF View
  <1>4. Pure(msgs, g) /\ Pure(stored', g)
    <2> HIDE DEF g
    <2> QED
      BY <1>1, <1>2, PureMore
  <1>5. \A h \in Gens : /\ reqs[h].pc # "idle" => reqs[h].sgen = h
                        /\ h > gen => reqs[h] = NoRequest
    BY DEF Sound, Generations
  <1>6. reqs'[g].pc = "idle"
    BY <1>2, <1>5 DEF NoRequest
  <1>7. ~Live'
    BY <1>6 DEF Live, LiveIn
  <1>8. msgs \in Seq(Messages) /\ stored' \in Seq(Messages)
    BY DEF Pure
  <1>9. TypeOK'
    <2>1. \A i \in DOMAIN queue' : queue'[i].kind \in Updaters
      OBVIOUS
    <2>2. busy' \in [requesting : BOOLEAN, streaming : BOOLEAN, shown : BOOLEAN]
      BY DEF Idle
    <2>3. buf' \in [gen : 0 .. MaxGens, text : Texts] /\ source' \in 0 .. MaxGens
      BY <1>1, <1>2, AgreeEmpty DEF NoGen
    <2>4. setup \in Setups /\ gen' \in 0 .. MaxGens /\ sgen' \in Nat
      BY <1>1, <1>2
    <2> QED
      BY <1>8, <2>1, <2>2, <2>3, <2>4 DEF TypeOK
  <1>10. Generations'
    <2>1. ASSUME NEW h \in Gens
          PROVE  /\ reqs'[h].pc # "idle" => reqs'[h].sgen = h
                 /\ h > g => reqs'[h] = NoRequest
      <3>1. h > g => h > gen
        BY <1>1 DEF Gens
      <3>2. NoRequest.pc = "idle"
        BY DEF NoRequest
      <3> QED
        BY <1>5, <3>1, <3>2
    <2> QED
      BY <1>1, <2>1 DEF Generations
  <1>11. Generating'
    <2>1. busy'.requesting = FALSE /\ busy'.streaming = FALSE
      BY DEF Idle
    <2>2. Live' = FALSE
      BY <1>7 DEF Live, LiveIn
    <2>3. buf'.text = <<>>
      OBVIOUS
    <2> QED
      BY <1>7, <2>1, <2>2, <2>3 DEF Generating
  <1>12. Lists'
    <2>1. Pure(View(gen), gen)' /\ Pure(View(gen + 1), gen)'
      BY <1>3, <1>4
    <2> QED
      BY <1>4, <1>7, <2>1 DEF Lists
  <1>13. ASSUME ~Edits' PROVE Settling'
    <2>1. ~Edits
      BY <1>13 DEF Edits
    <2>2. Tidy(msgs)
      BY <2>1 DEF Tidy, Finished
    <2> QED
      BY <1>3, <2>1, <2>2 DEF Settling
  <1>14. Loses'
    BY DEF Loses
  <1>15. queue' \in Seq(Updates)
    OBVIOUS
  <1> QED
    BY <1>9, <1>10, <1>11, <1>12, <1>13, <1>14, <1>15 DEF Sound

(***************************************************************************)
(* The user's steps.                                                       *)
(***************************************************************************)
(* A page that does not show that it generates has nothing to run.           *)
LEMMA IdlePage ==
    ASSUME Sound, ~busy.shown
    PROVE  /\ queue = <<>> /\ ~Live /\ View(gen) = list
           /\ Pure(list, gen)
           /\ ~Edits => editing = NotEditing /\ Finished(list)
           /\ ~Loses => Full(list, reqs)
  <1>1. queue = <<>> /\ ~Live
    BY DEF Sound, Generating
  <1>2. View(gen) = list
    BY <1>1, ApplyNone DEF View
  <1> QED
    BY <1>1, <1>2 DEF Sound, Lists, Settling, Whole

(* An editor is open.                                                        *)
LEMMA EditorOpen ==
    ASSUME Sound, NEW i \in 1 .. Len(list), editing = Key(list[i])
    PROVE  Edits /\ Loses
  <1>1. list \in Seq(Messages) /\ MaxGens \in Nat
    BY SoundBounds DEF Sound, TypeOK
  <1>2. list[i].of \in Gens
    <2>1. list[i] \in Messages
      BY <1>1, ElementOfSeq
    <2> QED
      BY <2>1 DEF Messages
  <1>3. editing # NotEditing
    BY <1>1, <1>2 DEF Key, NotEditing, NoGen, Gens
  <1>4. Edits
    BY <1>3 DEF Sound, Settling
  <1> QED
    BY <1>4 DEF Edits, Loses

(* The type of the editor's message.                                         *)
LEMMA EditingTyped ==
    ASSUME Sound
    PROVE  /\ editing \in [from : {"user", "assistant"}, of : 0 .. MaxGens]
           /\ NotEditing \in [from : {"user", "assistant"}, of : 0 .. MaxGens]
           /\ list \in Seq(Messages) /\ DOMAIN list = 1 .. Len(list) /\ Len(list) \in Nat
           /\ \A i \in 1 .. Len(list) :
                 Key(list[i]) \in [from : {"user", "assistant"}, of : 0 .. MaxGens]
  <1>1. list \in Seq(Messages) /\ MaxGens \in Nat
    BY SoundBounds DEF Sound, TypeOK
  <1>2. \A i \in 1 .. Len(list) : list[i] \in Messages
    BY <1>1, ElementOfSeq
  <1>3. \A m \in Messages : Key(m) \in [from : {"user", "assistant"}, of : 0 .. MaxGens]
    BY <1>1 DEF Messages, Key, Gens
  <1>4. NotEditing \in [from : {"user", "assistant"}, of : 0 .. MaxGens]
    BY <1>1 DEF NotEditing, NoGen
  <1> QED
    BY <1>1, <1>2, <1>3, <1>4, LenProperties DEF Sound, TypeOK

(* Send.                                                                     *)
LEMMA SendStep ==
    ASSUME Sound, NEW kind \in {"stream", "plain"}, Send(kind), setup' = setup
    PROVE  Sound'
  <1> DEFINE g == gen + 1
             m == UserMessage(g)
             base == Append(list, m)
             k == Len(list)
  <1>1. /\ gen \in Nat /\ MaxGens \in Nat /\ MaxChunks \in Nat \ {0}
        /\ setup.gens \in Nat /\ setup.gens <= MaxGens
    BY SoundBounds
  <1>2. g \in Gens /\ <<1>> \in Texts /\ g <= g
    BY <1>1 DEF Gens, Send, Texts, Pieces
  <1>3. /\ m \in Messages /\ ~m.foreign /\ m.of = g /\ m.from = "user" /\ ~IsPending(m)
    BY <1>2 DEF UserMessage, Messages, IsPending, Pending
  <1>4. /\ Pure(list, gen) /\ list \in Seq(Messages) /\ k \in Nat
        /\ ~Edits => editing = NotEditing /\ Finished(list)
        /\ ~Loses => Full(list, reqs)
    BY IdlePage, LenProperties DEF Send, Pure
  <1> HIDE DEF m
  <1>5. base \in Seq(Messages) /\ Len(base) = k + 1 /\ base[k + 1] = m
        /\ \A i \in 1 .. k : base[i] = list[i]
    BY <1>3, <1>4, AppendProperties
  <1>6. SendChat(kind, Append(base, LoadingMessage(g)))
    <2>1. list \o <<m, LoadingMessage(g)>> = Append(Append(list, m), LoadingMessage(g))
      <3>1. LoadingMessage(g) \in Messages
        <4>1. <<>> \in Texts
          BY AgreeEmpty
        <4> QED
          BY <1>2, <4>1 DEF LoadingMessage, Messages, Pending
      <3> HIDE DEF g
      <3> QED
        BY <1>3, <1>4, <3>1
    <2> QED
      BY <2>1 DEF Send, m
  <1>7. \A i \in 1 .. (k + 1) : i = k + 1 \/ i \in 1 .. k
    BY <1>4
  <1>8. \A i \in 1 .. k : list[i] \in Messages /\ ~list[i].foreign /\ list[i].of <= gen
    BY <1>4, ElementOfSeq DEF Pure
  <1>9. \A i \in 1 .. k : list[i].of < g /\ list[i].of <= g
    BY <1>1, <1>8 DEF Messages, Gens
  <1> HIDE DEF base, k
  <1>10. \A i \in 1 .. Len(base) :
                /\ ~base[i].foreign /\ base[i].of <= g
                /\ base[i].from = "assistant" => base[i].of < g
    BY <1>2, <1>3, <1>5, <1>7, <1>8, <1>9
  <1>11. Finished(list) => Finished(base)
    BY <1>3, <1>5, <1>7 DEF Finished, k
  <1>12. Full(list, reqs) => Full(base, reqs)
    BY <1>3, <1>5, <1>7 DEF Full, k
  <1>13. editing' = editing /\ life' = life /\ gen < setup.gens
    BY DEF Send
  <1> QED
    BY <1>4, <1>5, <1>6, <1>10, <1>11, <1>12, <1>13, EditingTyped, SendSound

(* A request for the start of the list.                                      *)
LEMMA ResendSound ==
    ASSUME Sound, NEW kind \in {"stream", "plain"}, gen < setup.gens, NEW n \in 0 .. Len(list),
           SendChat(kind, Append(SubSeq(list, 1, n), LoadingMessage(gen + 1))),
           ~Edits => editing' = NotEditing /\ Finished(list),
           ~Loses => Full(list, reqs),
           editing' \in [from : {"user", "assistant"}, of : 0 .. MaxGens],
           life' = life, setup' = setup
    PROVE  Sound'
  <1> DEFINE base == SubSeq(list, 1, n)
  <1>1. gen \in Nat /\ MaxGens \in Nat /\ Pure(list, gen)
    BY SoundBounds DEF Sound, Lists
  <1>2. /\ Pure(base, gen)
        /\ Finished(list) => Finished(base)
        /\ Full(list, reqs) => Full(base, reqs)
    BY <1>1, Prefix
  <1> HIDE DEF base
  <1>3. base \in Seq(Messages)
    BY <1>2 DEF Pure
  <1>4. \A i \in 1 .. Len(base) : base[i] \in Messages /\ ~base[i].foreign /\ base[i].of <= gen
    BY <1>2, <1>3, ElementOfSeq DEF Pure
  <1>5. \A i \in 1 .. Len(base) : ~base[i].foreign /\ base[i].of <= gen + 1 /\ base[i].of < gen + 1
    BY <1>1, <1>4 DEF Messages, Gens
  <1>6. SendChat(kind, Append(base, LoadingMessage(gen + 1)))
    BY DEF base
  <1> QED
    BY <1>2, <1>3, <1>5, <1>6, SendSound

(* Regenerate.                                                               *)
LEMMA RegenerateStep ==
    ASSUME Sound, NEW kind \in {"stream", "plain"}, NEW i \in DOMAIN list, Regenerate(kind, i),
           setup' = setup
    PROVE  Sound'
  <1> DEFINE n == IF list[i].from = "user" THEN i ELSE i - 1
  <1>1. n \in 0 .. Len(list)
    BY EditingTyped
  <1>2. SendChat(kind, Append(SubSeq(list, 1, n), LoadingMessage(gen + 1)))
    BY DEF Regenerate
  <1>3. editing' = editing /\ life' = life /\ gen < setup.gens /\ ~busy.shown
    BY DEF Regenerate
  <1> HIDE DEF n
  <1> QED
    BY <1>1, <1>2, <1>3, IdlePage, EditingTyped, ResendSound

(* SubmitEdit.                                                               *)
LEMMA SubmitEditStep ==
    ASSUME Sound, NEW kind \in {"stream", "plain"}, NEW i \in DOMAIN list, SubmitEdit(kind, i),
           setup' = setup
    PROVE  Sound'
  <1>1. i \in 1 .. Len(list) /\ i \in 0 .. Len(list)
    BY EditingTyped
  <1>2. Edits /\ Loses
    BY <1>1, EditorOpen DEF SubmitEdit
  <1>3. editing' = NotEditing /\ life' = life /\ gen < setup.gens
        /\ SendChat(kind, Append(SubSeq(list, 1, i), LoadingMessage(gen + 1)))
    BY DEF SubmitEdit
  <1> QED
    BY <1>1, <1>2, <1>3, EditingTyped, ResendSound

(* The editor opens or closes.                                               *)
LEMMA EditorSound ==
    ASSUME Sound, UNCHANGED <<chat, list, queue, disk, life, setup>>,
           editing' \in [from : {"user", "assistant"}, of : 0 .. MaxGens],
           ~Edits => editing' = NotEditing
    PROVE  Sound'
  <1>1. UNCHANGED <<gen, reqs, sgen, source, buf, timer, busy, list, queue, latest, saving,
                    stored, life, setup>>
    BY DEF chat, disk
  <1>2. /\ View(gen)' = View(gen) /\ View(gen + 1)' = View(gen + 1) /\ Live' = Live
        /\ Edits' = Edits /\ Loses' = Loses
    BY <1>1 DEF View, Live, Edits, Loses
  <1>3. TypeOK'
    BY <1>1 DEF Sound, TypeOK
  <1>4. Generations'
    BY <1>1 DEF Sound, Generations
  <1>5. Generating'
    BY <1>1, <1>2 DEF Sound, Generating
  <1>6. Lists'
    <2>1. Pure(View(gen), gen)' /\ Pure(View(gen + 1), gen)'
      BY <1>1, <1>2 DEF Sound, Lists
    <2> QED
      BY <1>1, <1>2, <2>1 DEF Sound, Lists
  <1>7. ~Edits' => Settling'
    BY <1>1, <1>2 DEF Sound, Settling
  <1>8. ~Loses' => Whole'
    BY <1>1, <1>2 DEF Sound, Whole
  <1>9. queue' \in Seq(Updates)
    BY <1>1 DEF Sound
  <1> QED
    BY <1>3, <1>4, <1>5, <1>6, <1>7, <1>8, <1>9 DEF Sound

(* OpenEditor and CloseEditor.                                               *)
LEMMA EditorSteps ==
    ASSUME Sound, CloseEditor \/ \E i \in DOMAIN list : OpenEditor(i), setup' = setup
    PROVE  Sound'
  <1>1. ASSUME CloseEditor PROVE Sound'
    BY <1>1, EditingTyped, EditorSound DEF CloseEditor
  <1>2. ASSUME NEW i \in DOMAIN list, OpenEditor(i) PROVE Sound'
    <2>1. i \in 1 .. Len(list) /\ Edits /\ editing' = Key(list[i])
      BY <1>2, EditingTyped DEF OpenEditor, Edits
    <2>2. UNCHANGED <<chat, list, queue, disk, life>>
      BY <1>2 DEF OpenEditor
    <2> QED
      BY <2>1, <2>2, EditingTyped, EditorSound
  <1> QED
    BY <1>1, <1>2

(* SaveEdit.                                                                 *)
LEMMA SaveEditStep ==
    ASSUME Sound, NEW i \in DOMAIN list, SaveEdit(i), setup' = setup
    PROVE  Sound'
  <1>1. i \in 1 .. Len(list)
    BY EditingTyped
  <1>2. Edits /\ Loses
    BY <1>1, EditorOpen DEF SaveEdit
  <1>3. Pure(list, gen) /\ (Live => Answering(list, gen))
    BY DEF Sound, Lists
  <1>4. /\ editing' = NotEditing /\ Rendered(list) /\ busy' = Show(busy)
        /\ UNCHANGED <<gen, reqs, sgen, source, buf, timer, life>>
    BY DEF SaveEdit
  <1> QED
    BY <1>2, <1>3, <1>4, EditingTyped, RenderSound

(* Delete.                                                                   *)
LEMMA DeleteStep ==
    ASSUME Sound, NEW i \in DOMAIN list, Delete(i), setup' = setup
    PROVE  Sound'
  <1> DEFINE key == Key(list[i])
             u == [kind |-> "delete", key |-> key]
             msgs == Without(key, list)
  <1>1. /\ queue = <<>> /\ ~Live /\ Pure(list, gen)
        /\ ~Edits => editing = NotEditing /\ Finished(list)
        /\ ~Loses => Full(list, reqs)
    BY IdlePage DEF Delete
  <1>2. ApplyAll(Append(queue, u), list, gen) = msgs
    <2>1. <<u>> = Append(<<>>, u)
      OBVIOUS
    <2>2. Apply(u, list, gen) = msgs
      BY DEF Apply
    <2> HIDE DEF u, msgs
    <2>3. ApplyAll(<<u>>, list, gen) = msgs
      BY <2>2, ApplyOne
    <2> QED
      BY <1>1, <2>1, <2>3
  <1>3. Rendered(msgs)
    BY <1>2 DEF Delete
  <1>4. /\ Pure(msgs, gen)
        /\ Finished(list) => Finished(msgs) /\ Tidy(msgs)
        /\ Full(list, reqs) => Full(msgs, reqs)
    BY <1>1, Removed
  <1>5. busy' = Show(busy) /\ UNCHANGED <<gen, reqs, sgen, source, buf, timer, editing, life>>
    BY DEF Delete
  <1> HIDE DEF msgs
  <1> QED
    BY <1>1, <1>3, <1>4, <1>5, EditingTyped, RenderSound

(* Clear.                                                                    *)
LEMMA ClearStep ==
    ASSUME Sound, Clear, setup' = setup
    PROVE  Sound'
  <1>1. ~Live
    BY IdlePage DEF Clear
  <1>2. Pure(<<>>, gen) /\ Tidy(<<>>) /\ Finished(<<>>) /\ Full(<<>>, reqs)
    BY EmptyList
  <1>3. /\ Rendered(<<>>) /\ editing' = NotEditing /\ busy' = Show(busy)
        /\ UNCHANGED <<gen, reqs, sgen, source, buf, timer, life>>
    BY DEF Clear
  <1> QED
    BY <1>1, <1>2, <1>3, EditingTyped, RenderSound

(* StopGeneration.                                                           *)
LEMMA StopStep ==
    ASSUME Sound, StopGeneration, setup' = setup
    PROVE  Sound'
  <1> DEFINE idle == gen + 1
             u == Complete(idle, NoGen)
  <1>1. PICK base \in {list} \cup (IF queue = <<>> THEN {ApplyAll(Flushed(gen), list, gen)} ELSE {}) :
            Rendered(ApplyAll(Append(queue, u), base, idle))
    BY DEF StopGeneration
  <1> DEFINE l == ApplyAll(queue, base, idle)
             msgs == Apply(u, l, idle)
  <1>2. queue \in Seq(Updates) /\ Pure(list, gen) /\ Pure(View(idle), gen)
        /\ (~Edits => Tidy(list) /\ Tidy(View(idle)) /\ editing = NotEditing)
    BY DEF Sound, Lists, Settling
  <1>3. Pure(l, gen) /\ (~Edits => Tidy(l))
    <2>1. CASE base = list
      BY <1>2, <2>1 DEF View
    <2>2. CASE queue = <<>> /\ base = ApplyAll(Flushed(gen), list, gen)
      <3>1. l = base
        BY <2>2, ApplyNone
      <3>2. CASE Flushed(gen) = <<>>
        BY <1>2, <2>2, <3>1, <3>2, ApplyNone
      <3>3. CASE Flushed(gen) = <<Chunk(gen, buf.text)>> /\ buf.text # <<>>
        <4>1. Live
          BY <3>3 DEF Sound, Generating
        <4>2. gen \in Nat /\ buf.text \in Texts /\ Answering(list, gen)
          BY <4>1, LiveFacts
        <4> DEFINE c == Chunk(gen, buf.text)
        <4>3. Pure(Apply(c, list, gen), gen) /\ (Tidy(list) => Tidy(Apply(c, list, gen)))
          BY <1>2, <4>2, ChunkApplied
        <4> HIDE DEF c
        <4>4. base = Apply(c, list, gen)
          BY <2>2, <3>3, ApplyOne DEF c
        <4> QED
          BY <1>2, <3>1, <4>3, <4>4
      <3> QED
        BY <3>2, <3>3 DEF Flushed
    <2> QED
      BY <2>1, <2>2
  <1>4. ApplyAll(Append(queue, u), base, idle) = msgs
    <2> HIDE DEF u, idle
    <2> QED
      BY <1>2, ApplyMore
  <1>5. Pure(msgs, gen) /\ (~Edits => Finished(msgs))
    <2> HIDE DEF l, idle
    <2> QED
      BY <1>3, StopApplied
  <1>6. /\ list' = msgs /\ latest' = msgs /\ queue' = <<>> /\ saving' = TRUE /\ stored' = stored
    BY <1>1, <1>4 DEF Rendered
  <1>7. /\ gen < setup.gens /\ gen' = gen + 1 /\ sgen' = sgen + 1 /\ source' = NoGen
        /\ buf' = [gen |-> gen + 1, text |-> <<>>] /\ timer' = FALSE /\ busy' = Idle
        /\ reqs' = reqs /\ editing' = editing /\ life' = life
    BY DEF StopGeneration, DiscardPendingStreamUpdates
  <1>8. Loses
    BY DEF StopGeneration, Loses
  <1>9. /\ reqs' \in [Gens -> Requests] /\ life' \in 1 .. setup.lives /\ Pure(stored', gen)
        /\ (~Edits => Tidy(stored'))
    BY <1>6, <1>7 DEF Sound, TypeOK, Lists, Settling
  <1> HIDE DEF msgs
  <1> QED
    BY <1>2, <1>5, <1>6, <1>7, <1>8, <1>9, EditingTyped, RestartSound

(* Leave and Crash.                                                          *)
LEMMA ReloadStep ==
    ASSUME Sound, Leave \/ Crash, setup' = setup
    PROVE  Sound'
  <1>1. PICK saved \in {latest, stored} : Reload(saved)
    BY DEF Leave, Crash
  <1> DEFINE msgs == Sanitize(saved)
  <1>2. Loses
    BY DEF Leave, Crash, Loses
  <1>3. Pure(saved, gen) /\ (~Edits => Tidy(saved))
    BY DEF Sound, Lists, Settling
  <1>4. Pure(msgs, gen) /\ (~Edits => Finished(msgs) /\ Tidy(msgs))
    BY <1>3, Sanitized
  <1> HIDE DEF msgs
  <1>5. /\ gen < setup.gens /\ gen' = gen + 1 /\ sgen' = sgen + 1 /\ source' = NoGen
        /\ buf' = [gen |-> gen + 1, text |-> <<>>] /\ timer' = FALSE /\ busy' = Idle
        /\ list' = msgs /\ latest' = msgs /\ stored' = msgs /\ queue' = <<>> /\ saving' = FALSE
        /\ editing' = NotEditing /\ life' = life + 1 /\ life < setup.lives
        /\ reqs' = [g \in Gens |-> IF reqs[g].pc = "idle" THEN reqs[g]
                                   ELSE [reqs[g] EXCEPT !.pc = "over"]]
    BY <1>1 DEF Reload, msgs
  <1>6. reqs \in [Gens -> Requests] /\ life \in 1 .. setup.lives /\ setup.lives \in Nat
    BY SoundBounds DEF Sound, TypeOK
  <1>7. ASSUME NEW g \in Gens
        PROVE  /\ reqs'[g] \in Requests
               /\ reqs[g].pc = "idle" => reqs'[g] = reqs[g]
               /\ reqs'[g].sgen = reqs[g].sgen
    <2>1. reqs[g] \in Requests
      BY <1>6
    <2>2. reqs'[g] = IF reqs[g].pc = "idle" THEN reqs[g] ELSE [reqs[g] EXCEPT !.pc = "over"]
      BY <1>5
    <2> QED
      BY <2>1, <2>2 DEF Requests
  <1>8. reqs' \in [Gens -> Requests]
    BY <1>5, <1>7
  <1>9. life' \in 1 .. setup.lives
    BY <1>5, <1>6
  <1> QED
    BY <1>2, <1>4, <1>5, <1>7, <1>8, <1>9, EditingTyped, RestartSound

(***************************************************************************)
(* The network's steps.                                                    *)
(***************************************************************************)
(* A request that has started is of the past or the newest.                  *)
LEMMA Started ==
    ASSUME Sound, NEW g \in Gens, reqs[g].pc # "idle"
    PROVE  /\ reqs[g].sgen = g /\ g \in Nat /\ ~(g > gen) /\ reqs[g] \in Requests
           /\ reqs[g].sgen = sgen => g = gen
  <1>1. MaxGens \in Nat /\ sgen = gen
    BY SoundBounds
  <1>2. reqs[g].sgen = g /\ (g > gen => reqs[g] = NoRequest)
    BY DEF Sound, Generations
  <1>3. NoRequest.pc = "idle"
    BY DEF NoRequest
  <1>4. reqs[g] \in Requests /\ g \in Nat
    BY <1>1 DEF Sound, TypeOK, Gens
  <1> QED
    BY <1>1, <1>2, <1>3, <1>4

(* A step of the requests that queues nothing: text arrives at the newest    *)
(* one and is merged into the buffer, or none arrives.                       *)
LEMMA RequestSound ==
    ASSUME Sound, NEW g \in Gens, reqs[g].pc # "idle", NEW r \in Requests, NEW b \in Texts,
           UNCHANGED <<gen, sgen, list, queue, disk, editing, life, setup>>,
           reqs' = [reqs EXCEPT ![g] = r], buf' = [gen |-> gen, text |-> b],
           r.sgen = reqs[g].sgen, r.done = reqs[g].done,
           \/ b = buf.text /\ r.received = reqs[g].received
           \/ /\ g = gen /\ Live
              /\ ~Loses => \A c \in Texts :
                              Agree(setup.stream, c, buf.text, reqs[g].received)
                                  => Agree(setup.stream, c, b, r.received),
           g = gen => (r.pc \in {"headers", "open", "silent"} <=> Live),
           source' \in {NoGen, gen}, timer' \in BOOLEAN,
           busy' \in [requesting : BOOLEAN, streaming : BOOLEAN, shown : BOOLEAN],
           busy'.requesting = busy.requesting, busy'.shown = busy.shown,
           busy'.streaming => busy.streaming \/ Live
    PROVE  Sound'
  <1> DEFINE Same == b = buf.text /\ r.received = reqs[g].received
             Kept == \A c \in Texts : Agree(setup.stream, c, buf.text, reqs[g].received)
                                          => Agree(setup.stream, c, b, r.received)
  <1>0. Same \/ (g = gen /\ Live /\ (~Loses => Kept))
    OBVIOUS
  <1> HIDE DEF Same, Kept
  <1>1. gen \in Nat /\ setup \in Setups /\ MaxGens \in Nat /\ sgen = gen
    BY SoundBounds
  <1>2. /\ reqs[g].sgen = g /\ g \in Nat /\ ~(g > gen) /\ reqs[g] \in Requests
    BY Started
  <1>3. reqs \in [Gens -> Requests]
    BY DEF Sound, TypeOK
  <1>4. reqs' \in [Gens -> Requests] /\ reqs'[g] = r /\ \A h \in Gens : h # g => reqs'[h] = reqs[h]
    BY <1>3
  <1>5. /\ View(gen)' = View(gen) /\ View(gen + 1)' = View(gen + 1)
        /\ Edits' = Edits /\ Loses' = Loses /\ latest' = latest /\ saving' = saving
        /\ stored' = stored
    BY DEF View, Edits, Loses, disk
  <1>6. Live' <=> Live
    BY <1>4 DEF Live, LiveIn
  <1>7. buf'.gen = gen /\ buf'.text = b
    OBVIOUS
  <1>8. /\ Pure(list, gen) /\ Pure(latest, gen) /\ Pure(stored, gen)
        /\ Pure(View(gen), gen) /\ Pure(View(gen + 1), gen)
        /\ Live => Answering(list, gen) /\ Answering(View(gen), gen)
    BY DEF Sound, Lists
  <1>9. TypeOK'
    <2>1. buf' \in [gen : 0 .. MaxGens, text : Texts]
      BY DEF Sound, TypeOK
    <2>2. source' \in 0 .. MaxGens
      BY <1>1 DEF NoGen, Sound, TypeOK
    <2> QED
      BY <1>4, <1>5, <2>1, <2>2 DEF Sound, TypeOK
  <1>10. Generations'
    <2>1. \A h \in Gens : /\ reqs[h].pc # "idle" => reqs[h].sgen = h
                          /\ h > gen => reqs[h] = NoRequest
      BY DEF Sound, Generations
    <2> QED
      BY <1>1, <1>2, <1>4, <1>7, <2>1 DEF Generations
  <1>11. Generating'
    <2>1. /\ busy.requesting = Live /\ (busy.streaming => Live) /\ (buf.text # <<>> => Live)
          /\ (Live \/ queue # <<>> => busy.shown) /\ (Live => ~reqs[gen].done)
      BY DEF Sound, Generating
    <2>2. Live' = Live
      BY <1>6 DEF Live, LiveIn
    <2>3. buf'.text # <<>> => Live
      BY <1>0, <1>7, <2>1 DEF Same
    <2>4. Live => ~reqs'[gen].done
      BY <1>4, <2>1 DEF Live, LiveIn
    <2> QED
      BY <2>1, <2>2, <2>3, <2>4 DEF Generating
  <1>12. Lists'
    <2>1. Pure(View(gen), gen)' /\ Pure(View(gen + 1), gen)'
      BY <1>5, <1>8
    <2>2. Live' => Answering(list, gen) /\ Answering(View(gen), gen)
      BY <1>6, <1>8
    <2> QED
      BY <1>5, <1>8, <2>1, <2>2 DEF Lists
  <1>13. ~Edits' => Settling'
    BY <1>5, <1>6 DEF Sound, Settling
  <1>14. ASSUME ~Loses' PROVE Whole'
    <2> DEFINE l == View(gen)
    <2>1. /\ Full(l, reqs)
          /\ Live => Agree(setup.stream, l[Len(l)].text, buf.text, reqs[gen].received)
      BY <1>5, <1>14 DEF Sound, Whole
    <2>2. l \in Seq(Messages)
      BY <1>8 DEF Pure
    <2>3. \A i \in 1 .. Len(l) : l[i].of \in Gens /\ l[i].text \in Texts
      <3>1. \A i \in 1 .. Len(l) : l[i] \in Messages
        BY <2>2, ElementOfSeq
      <3> QED
        BY <3>1 DEF Messages
    <2>4. \A h \in Gens : reqs'[h].done => reqs[h].done /\ reqs'[h].received = reqs[h].received
      <3>1. g = gen /\ Live => ~reqs[g].done
        BY DEF Sound, Generating
      <3> QED
        BY <1>0, <1>4, <3>1 DEF Same
    <2> HIDE DEF l
    <2>5. Full(l, reqs')
      BY <2>1, <2>3, <2>4 DEF Full, l
    <2>6. ASSUME Live PROVE Agree(setup.stream, l[Len(l)].text, b, reqs'[gen].received)
      <3>1. l[Len(l)].text \in Texts /\ gen \in Gens
        <4>1. Len(l) \in 1 .. Len(l)
          BY <1>8, <2>2, <2>6, LenProperties DEF Answering, l
        <4> QED
          BY <2>3, <2>6, <4>1 DEF Live, LiveIn
      <3>2. Agree(setup.stream, l[Len(l)].text, buf.text, reqs[gen].received)
        BY <2>1, <2>6
      <3>3. CASE g # gen
        BY <1>0, <1>4, <3>1, <3>2, <3>3 DEF Same
      <3>4. CASE g = gen /\ Same
        BY <1>4, <3>2, <3>4 DEF Same
      <3>5. CASE g = gen /\ Kept
        BY <1>4, <3>1, <3>2, <3>5 DEF Kept
      <3> QED
        BY <1>0, <1>5, <1>14, <3>3, <3>4, <3>5
    <2> QED
      BY <1>5, <1>6, <1>7, <2>5, <2>6 DEF Whole, l
  <1>15. queue' \in Seq(Updates)
    BY DEF Sound
  <1> QED
    BY <1>9, <1>10, <1>11, <1>12, <1>13, <1>14, <1>15 DEF Sound

(* The end of the newest request.                                            *)
LEMMA EndSound ==
    ASSUME Sound, Live, NEW u \in Endings(gen), Finish(gen, u), NEW r \in Requests,
           UNCHANGED <<gen, sgen, editing, life, setup>>, source' \in {NoGen, gen},
           reqs' = [reqs EXCEPT ![gen] = r], r.pc = "over", r.sgen = reqs[gen].sgen,
           r.received = reqs[gen].received, r.done => u.kind = "complete"
    PROVE  Sound'
  <1>1. /\ gen \in Nat /\ setup \in Setups /\ MaxGens \in Nat /\ MaxChunks \in Nat \ {0}
        /\ setup.chunks \in Nat /\ sgen = gen
    BY SoundBounds
  <1>2. gen \in Gens /\ reqs \in [Gens -> Requests]
    BY LiveFacts DEF Sound, TypeOK
  <1>3. reqs' \in [Gens -> Requests] /\ reqs'[gen] = r
        /\ \A h \in Gens : h # gen => reqs'[h] = reqs[h]
    BY <1>2
  <1>4. /\ Queue(Append(Flushed(gen), u)) /\ buf' = [gen |-> gen, text |-> <<>>] /\ timer' = FALSE
        /\ busy' = [busy EXCEPT !.requesting = FALSE, !.streaming = FALSE]
    BY DEF Finish
  <1> DEFINE now == ApplyAll(queue', list, gen)
             next == ApplyAll(queue', list, gen + 1)
  <1>5. /\ queue' \in Seq(Updates) /\ queue' # <<>>
        /\ list' = list /\ stored' = stored /\ saving' \in BOOLEAN
        /\ Pure(latest', gen) /\ Pure(now, gen) /\ Pure(next, gen)
        /\ ~Edits => Tidy(latest') /\ Finished(now) /\ Tidy(now) /\ Tidy(next)
        /\ ~Loses /\ (reqs'[gen].done => /\ u.kind = "complete"
                                         /\ reqs'[gen].received = reqs[gen].received)
           => Full(now, reqs')
    BY <1>3, <1>4, EndQueued
  <1>6. View(gen)' = now /\ View(gen + 1)' = next
    BY <1>5 DEF View
  <1> HIDE DEF now, next
  <1>7. ~Live'
    BY <1>3 DEF Live, LiveIn
  <1>8. latest' \in Seq(Messages) /\ DOMAIN queue' = 1 .. Len(queue')
    BY <1>5, LenProperties DEF Pure
  <1>9. busy \in [requesting : BOOLEAN, streaming : BOOLEAN, shown : BOOLEAN] /\ busy.shown
    BY DEF Sound, TypeOK, Generating
  <1>10. /\ busy' \in [requesting : BOOLEAN, streaming : BOOLEAN, shown : BOOLEAN]
         /\ busy'.requesting = FALSE /\ busy'.streaming = FALSE /\ busy'.shown
    BY <1>4, <1>9
  <1>11. TypeOK'
    <2>1. \A i \in DOMAIN queue' : queue'[i].kind \in Updaters
      <3>1. \A i \in DOMAIN queue' : queue'[i] \in Updates
        BY <1>5, <1>8, ElementOfSeq
      <3> QED
        BY <3>1 DEF Updates, Updaters
    <2>2. buf' \in [gen : 0 .. MaxGens, text : Texts]
      <3>1. <<>> \in Texts /\ gen \in 0 .. MaxGens
        BY AgreeEmpty DEF Sound, TypeOK
      <3> QED
        BY <1>4, <3>1
    <2>3. source' \in 0 .. MaxGens
      BY <1>1 DEF NoGen, Sound, TypeOK
    <2> QED
      BY <1>3, <1>4, <1>5, <1>8, <1>10, <2>1, <2>2, <2>3 DEF Sound, TypeOK
  <1>12. Generations'
    <2>1. \A h \in Gens : /\ reqs[h].pc # "idle" => reqs[h].sgen = h
                          /\ h > gen => reqs[h] = NoRequest
      BY DEF Sound, Generations
    <2>2. reqs[gen].pc # "idle" /\ ~(gen > gen)
      BY <1>1 DEF Live, LiveIn
    <2> QED
      BY <1>1, <1>2, <1>3, <1>4, <2>1, <2>2 DEF Generations
  <1>13. Generating'
    <2>1. Live' = FALSE /\ buf'.text = <<>>
      BY <1>4, <1>7 DEF Live, LiveIn
    <2> QED
      BY <1>10, <2>1 DEF Generating
  <1>14. Lists'
    <2>1. Pure(View(gen), gen)' /\ Pure(View(gen + 1), gen)'
      BY <1>5, <1>6
    <2>2. Pure(list, gen) /\ Pure(stored, gen)
      BY DEF Sound, Lists
    <2> QED
      BY <1>5, <1>7, <2>1, <2>2 DEF Lists
  <1>15. ASSUME ~Edits' PROVE Settling'
    <2>1. ~Edits
      BY <1>15 DEF Edits
    <2>2. editing = NotEditing /\ Tidy(list) /\ Tidy(stored)
      BY <2>1 DEF Sound, Settling
    <2> QED
      BY <1>5, <1>6, <2>1, <2>2 DEF Settling
  <1>16. ASSUME ~Loses' PROVE Whole'
    <2>1. ~Loses
      BY <1>16 DEF Loses
    <2>2. Full(now, reqs')
      BY <1>3, <1>5, <2>1
    <2> QED
      BY <1>6, <1>7, <2>2 DEF Whole
  <1> QED
    BY <1>5, <1>11, <1>12, <1>13, <1>14, <1>15, <1>16 DEF Sound

(* A request goes on, or ends when it is superseded, and nothing arrives.    *)
LEMMA QuietSound ==
    ASSUME Sound, NEW g \in Gens, reqs[g].pc # "idle", NEW p \in {"open", "silent", "over"},
           reqs' = [reqs EXCEPT ![g].pc = p],
           g = gen => (p \in {"headers", "open", "silent"} <=> Live),
           UNCHANGED <<gen, sgen, buf, timer, list, queue, disk, editing, life, setup>>,
           source' \in {NoGen, gen},
           busy' \in [requesting : BOOLEAN, streaming : BOOLEAN, shown : BOOLEAN],
           busy'.requesting = busy.requesting, busy'.shown = busy.shown,
           busy'.streaming => busy.streaming \/ Live
    PROVE  Sound'
  <1> DEFINE r == [reqs[g] EXCEPT !.pc = p]
  <1>1. /\ reqs \in [Gens -> Requests] /\ timer \in BOOLEAN
        /\ buf \in [gen : 0 .. MaxGens, text : Texts]
    BY DEF Sound, TypeOK
  <1>2. reqs[g] \in Requests
    BY Started
  <1>3. buf.text \in Texts /\ buf.gen = gen
    BY SoundBounds
  <1>4. reqs' = [reqs EXCEPT ![g] = r]
    BY <1>1
  <1>5. /\ r \in Requests /\ r.pc = p /\ r.sgen = reqs[g].sgen /\ r.done = reqs[g].done
        /\ r.received = reqs[g].received
    BY <1>2 DEF Requests
  <1> HIDE DEF r
  <1>6. buf' = [gen |-> gen, text |-> buf.text] /\ timer' \in BOOLEAN
    BY <1>1, <1>3
  <1>7. g = gen => (r.pc \in {"headers", "open", "silent"} <=> Live)
    BY <1>5
  <1> QED
    BY <1>3, <1>4, <1>5, <1>6, <1>7, RequestSound

(* HeadersReady.                                                             *)
LEMMA HeadersReadyStep ==
    ASSUME Sound, NEW g \in Gens, HeadersReady(g), setup' = setup
    PROVE  Sound'
  <1>1. /\ reqs[g].pc = "headers" /\ source \in {NoGen, gen}
        /\ busy \in [requesting : BOOLEAN, streaming : BOOLEAN, shown : BOOLEAN]
    BY DEF HeadersReady, Sound, TypeOK, Generations
  <1>2. reqs[g].sgen = sgen <=> g = gen
    BY <1>1, Started, SoundBounds
  <1>3. UNCHANGED <<gen, sgen, buf, timer, list, queue, editing, disk, life>>
    BY DEF HeadersReady
  <1>4. CASE reqs[g].sgen = sgen
    <2>1. g = gen /\ Live
      BY <1>1, <1>2, <1>4 DEF Live, LiveIn
    <2>2. /\ source' = g /\ reqs' = [reqs EXCEPT ![g].pc = "open"]
          /\ busy' = [busy EXCEPT !.streaming = TRUE]
      BY <1>4 DEF HeadersReady
    <2>3. /\ busy' \in [requesting : BOOLEAN, streaming : BOOLEAN, shown : BOOLEAN]
          /\ busy'.requesting = busy.requesting /\ busy'.shown = busy.shown
      BY <1>1, <2>2
    <2> QED
      BY <1>1, <1>3, <2>1, <2>2, <2>3, QuietSound
  <1>5. CASE reqs[g].sgen # sgen
    <2>1. source' = source /\ reqs' = [reqs EXCEPT ![g].pc = "over"] /\ busy' = busy
      BY <1>5 DEF HeadersReady
    <2> QED
      BY <1>1, <1>2, <1>3, <1>5, <2>1, QuietSound
  <1> QED
    BY <1>4, <1>5

(* StreamCloses.                                                             *)
LEMMA StreamClosesStep ==
    ASSUME Sound, NEW g \in Gens, StreamCloses(g), setup' = setup
    PROVE  Sound'
  <1>1. /\ reqs[g].pc = "open" /\ reqs' = [reqs EXCEPT ![g].pc = "silent"]
        /\ UNCHANGED <<gen, sgen, source, buf, timer, busy, list, queue, editing, disk, life>>
    BY DEF StreamCloses
  <1>2. /\ source \in {NoGen, gen}
        /\ busy \in [requesting : BOOLEAN, streaming : BOOLEAN, shown : BOOLEAN]
    BY DEF Sound, TypeOK, Generations
  <1>3. g = gen => Live
    BY <1>1 DEF Live, LiveIn
  <1> QED
    BY <1>1, <1>2, <1>3, QuietSound

(* A superseded request ends.                                                *)
LEMMA SupersededStep ==
    ASSUME Sound, NEW g \in Gens, reqs[g].pc # "idle", g # gen, setup' = setup,
           reqs' = [reqs EXCEPT ![g].pc = "over"],
           UNCHANGED <<gen, sgen, source, buf, timer, busy, list, queue, disk, editing, life>>
    PROVE  Sound'
  <1>1. /\ source \in {NoGen, gen}
        /\ busy \in [requesting : BOOLEAN, streaming : BOOLEAN, shown : BOOLEAN]
    BY DEF Sound, TypeOK, Generations
  <1> QED
    BY <1>1, QuietSound

(* ChunkArrives.                                                             *)
LEMMA ChunkArrivesStep ==
    ASSUME Sound, NEW g \in Gens, ChunkArrives(g), setup' = setup
    PROVE  Sound'
  <1>1. /\ reqs[g].pc = "open" /\ Len(reqs[g].received) < setup.chunks /\ reqs[g].sgen = sgen
        /\ UNCHANGED <<gen, sgen, source, busy, list, queue, editing, disk, life>>
    BY DEF ChunkArrives, Current
  <1>2. g = gen /\ reqs[g] \in Requests /\ reqs[g].received \in Texts
    BY <1>1, Started DEF Requests
  <1>3. Live
    BY <1>1, <1>2 DEF Live, LiveIn
  <1>4. /\ reqs \in [Gens -> Requests] /\ source \in {NoGen, gen}
        /\ buf \in [gen : 0 .. MaxGens, text : Texts]
        /\ busy \in [requesting : BOOLEAN, streaming : BOOLEAN, shown : BOOLEAN]
    BY DEF Sound, TypeOK, Generations
  <1>5. setup \in Setups /\ setup.stream \in Streams /\ buf.gen = gen /\ buf.text \in Texts
    BY SoundBounds, ConstantsAssumption
  <1>6. PICK delta \in Deltas(reqs[g].received) :
            /\ reqs' = [reqs EXCEPT ![g].received = Extended(@, delta)]
            /\ buf' = [buf EXCEPT !.text = MergePendingStreamChunk(@, delta)]
            /\ timer' = TRUE
    BY <1>2, <1>5 DEF ChunkArrives
  <1> DEFINE e == Extended(reqs[g].received, delta)
             b == MergePendingStreamChunk(buf.text, delta)
             r == [reqs[g] EXCEPT !.received = e]
  <1>7. delta \in Texts /\ e \in Texts
    BY <1>1, <1>2, <1>5, DeltaTyped
  <1>8. b \in Texts
    BY <1>5, <1>7, MergesTyped
  <1>9. ~Loses => \A c \in Texts : Agree(setup.stream, c, buf.text, reqs[g].received)
                                        => Agree(setup.stream, c, b, e)
    <2>1. ~Loses => setup.stream # "any"
      BY DEF Loses
    <2> QED
      BY <1>2, <1>5, <1>7, <2>1, AgreeArrived
  <1> HIDE DEF e, b
  <1>10. reqs' = [reqs EXCEPT ![g] = r] /\ buf' = [gen |-> gen, text |-> b]
    BY <1>4, <1>5, <1>6 DEF e, b
  <1>11. /\ r \in Requests /\ r.pc = "open" /\ r.sgen = reqs[g].sgen /\ r.done = reqs[g].done
         /\ r.received = e
    BY <1>1, <1>2, <1>7 DEF Requests
  <1> HIDE DEF r
  <1>12. /\ reqs[g].pc # "idle" /\ timer' \in BOOLEAN /\ source' \in {NoGen, gen}
         /\ busy' \in [requesting : BOOLEAN, streaming : BOOLEAN, shown : BOOLEAN]
         /\ busy'.requesting = busy.requesting /\ busy'.shown = busy.shown
         /\ r.pc \in {"headers", "open", "silent"}
    BY <1>1, <1>4, <1>6, <1>11
  <1>13. UNCHANGED <<gen, sgen, list, queue, disk, editing, life, setup>>
    BY <1>1
  <1> QED
    BY <1>2, <1>3, <1>8, <1>9, <1>10, <1>11, <1>12, <1>13, RequestSound

(* The end of a request that has not been superseded.                        *)
LEMMA EndStep ==
    ASSUME Sound, NEW g \in Gens, reqs[g].pc \in {"headers", "open"}, g = gen, setup' = setup,
           NEW u \in Endings(g), Finish(g, u), NEW done \in BOOLEAN,
           reqs' = [reqs EXCEPT ![g].pc = "over", ![g].done = done],
           done => reqs[g].done \/ u.kind = "complete",
           source' \in {source, NoGen}, UNCHANGED <<gen, sgen, editing, life>>
    PROVE  Sound'
  <1> DEFINE r == [reqs[g] EXCEPT !.pc = "over", !.done = done]
  <1>1. Live
    BY DEF Live, LiveIn
  <1>2. ~reqs[gen].done /\ reqs \in [Gens -> Requests] /\ source \in {NoGen, gen}
    BY <1>1 DEF Sound, TypeOK, Generating, Generations
  <1>3. reqs[g] \in Requests
    BY <1>2
  <1>4. /\ r \in Requests /\ r.pc = "over" /\ r.sgen = reqs[g].sgen
        /\ r.received = reqs[g].received /\ r.done = done
    BY <1>3 DEF Requests
  <1>5. reqs' = [reqs EXCEPT ![g] = r]
    BY <1>2
  <1> HIDE DEF r
  <1> QED
    BY <1>1, <1>2, <1>4, <1>5, EndSound, ZenonT(60)

(* StreamDone and StreamFails.                                               *)
LEMMA StreamEndsStep ==
    ASSUME Sound, NEW g \in Gens, StreamDone(g) \/ StreamFails(g), setup' = setup
    PROVE  Sound'
  <1>1. /\ reqs[g].pc = "open" /\ reqs[g].sgen = sgen /\ source' = NoGen
        /\ UNCHANGED <<gen, sgen, editing, life>>
    BY DEF StreamDone, StreamFails, Current
  <1>2. g = gen /\ reqs[g] \in Requests /\ reqs \in [Gens -> Requests]
    BY <1>1, Started DEF Sound, TypeOK
  <1>3. CASE StreamDone(g)
    <2>1. /\ reqs' = [reqs EXCEPT ![g].pc = "over", ![g].done = TRUE]
          /\ Finish(g, Complete(g, g))
      BY <1>3 DEF StreamDone
    <2>2. Complete(g, g) \in Endings(g) /\ Complete(g, g).kind = "complete"
      BY DEF Endings, Complete
    <2> QED
      BY <1>1, <1>2, <2>1, <2>2, EndStep
  <1>4. CASE StreamFails(g)
    <2>1. /\ reqs' = [reqs EXCEPT ![g].pc = "over"] /\ Finish(g, Fail(g))
      BY <1>4 DEF StreamFails
    <2>2. Fail(g) \in Endings(g)
      BY DEF Endings
    <2>3. reqs' = [reqs EXCEPT ![g].pc = "over", ![g].done = reqs[g].done]
          /\ reqs[g].done \in BOOLEAN
      BY <1>2, <2>1 DEF Requests
    <2> QED
      BY <1>1, <1>2, <2>1, <2>2, <2>3, EndStep
  <1> QED
    BY <1>3, <1>4

(* HeadersFail and PlainAnswered.                                            *)
LEMMA RequestEndsStep ==
    ASSUME Sound, NEW g \in Gens, HeadersFail(g) \/ PlainAnswered(g), setup' = setup
    PROVE  Sound'
  <1>1. /\ reqs[g].pc \in {"headers", "open"} /\ reqs' = [reqs EXCEPT ![g].pc = "over"]
        /\ UNCHANGED <<gen, sgen, source, editing, life>>
    BY DEF HeadersFail, PlainAnswered
  <1>2. reqs[g] \in Requests /\ reqs \in [Gens -> Requests] /\ (reqs[g].sgen = sgen <=> g = gen)
    BY <1>1, Started, SoundBounds DEF Sound, TypeOK
  <1>3. CASE g # gen
    <2>1. UNCHANGED <<buf, timer, list, queue, disk, busy>>
      BY <1>2, <1>3 DEF HeadersFail, PlainAnswered
    <2> QED
      BY <1>1, <1>3, <2>1, SupersededStep
  <1>4. CASE g = gen
    <2>1. PICK u \in {Fail(g), Response(g)} : Finish(g, u)
      BY <1>2, <1>4 DEF HeadersFail, PlainAnswered
    <2>2. u \in Endings(g)
      BY DEF Endings
    <2>3. reqs' = [reqs EXCEPT ![g].pc = "over", ![g].done = reqs[g].done]
          /\ reqs[g].done \in BOOLEAN
      BY <1>1, <1>2 DEF Requests
    <2> QED
      BY <1>1, <1>4, <2>1, <2>2, <2>3, EndStep
  <1> QED
    BY <1>3, <1>4

(***************************************************************************)
(* Timers and renders.                                                     *)
(***************************************************************************)
(* FlushTimer.                                                               *)
LEMMA FlushTimerStep ==
    ASSUME Sound, FlushTimer, setup' = setup
    PROVE  Sound'
  <1>1. /\ gen \in Nat /\ setup \in Setups /\ MaxGens \in Nat /\ setup.chunks \in Nat
        /\ buf.gen = gen /\ buf.text \in Texts /\ queue \in Seq(Updates)
    BY SoundBounds
  <1>2. /\ timer' = FALSE /\ Queue(Flushed(gen)) /\ buf' = [buf EXCEPT !.text = <<>>]
        /\ UNCHANGED <<gen, reqs, sgen, source, busy, editing, life>>
    BY <1>1 DEF FlushTimer
  <1>3. buf \in [gen : 0 .. MaxGens, text : Texts]
    BY DEF Sound, TypeOK
  <1>4. /\ buf' \in [gen : 0 .. MaxGens, text : Texts] /\ buf'.gen = gen /\ buf'.text = <<>>
    BY <1>1, <1>2, <1>3, AgreeEmpty
  <1>5. Live' = Live /\ Edits' = Edits /\ Loses' = Loses
    BY <1>2 DEF Live, Edits, Loses
  <1>6. Generations'
    BY <1>2, <1>4 DEF Sound, Generations
  <1>7. CASE buf.text = <<>>
    <2>1. Flushed(gen) = <<>>
      BY <1>7 DEF Flushed
    <2>2. UNCHANGED <<queue, list, latest, saving, stored>>
      BY <1>1, <1>2, <2>1, QueueNone
    <2>3. buf' = buf
      BY <1>1, <1>2, <1>3, <1>7
    <2>4. View(gen)' = View(gen) /\ View(gen + 1)' = View(gen + 1)
      BY <1>2, <2>2 DEF View
    <2>5. TypeOK'
      BY <1>2, <2>2, <2>3 DEF Sound, TypeOK
    <2>6. Generating'
      BY <1>2, <1>5, <2>2, <2>3 DEF Sound, Generating
    <2>7. Lists'
      <3>1. Pure(View(gen), gen)' /\ Pure(View(gen + 1), gen)'
        BY <1>2, <2>4 DEF Sound, Lists
      <3> QED
        BY <1>2, <1>5, <2>2, <2>3, <2>4, <3>1 DEF Sound, Lists
    <2>8. ~Edits' => Settling'
      BY <1>2, <1>5, <2>2, <2>4 DEF Sound, Settling
    <2>9. ~Loses' => Whole'
      BY <1>2, <1>5, <2>3, <2>4 DEF Sound, Whole
    <2>10. queue' \in Seq(Updates)
      BY <1>1, <2>2
    <2> QED
      BY <1>6, <2>5, <2>6, <2>7, <2>8, <2>9, <2>10 DEF Sound
  <1>8. CASE buf.text # <<>>
    <2>1. Flushed(gen) = <<Chunk(gen, buf.text)>> /\ Live
      BY <1>1, <1>8 DEF Flushed, Sound, Generating
    <2> DEFINE now == ApplyAll(queue', list, gen)
               next == ApplyAll(queue', list, gen + 1)
    <2>2. /\ queue' \in Seq(Updates) /\ queue' # <<>>
          /\ list' = list /\ stored' = stored /\ saving' \in BOOLEAN
          /\ Pure(latest', gen) /\ Pure(now, gen) /\ Pure(next, gen)
          /\ Answering(now, gen)
          /\ ~Edits => Tidy(latest') /\ Tidy(now) /\ Tidy(next)
          /\ ~Loses => /\ Full(now, reqs)
                       /\ Agree(setup.stream, now[Len(now)].text, <<>>, reqs[gen].received)
      BY <1>2, <1>8, <2>1, FlushQueued
    <2>3. View(gen)' = now /\ View(gen + 1)' = next
      BY <1>2, <2>2 DEF View
    <2> HIDE DEF now, next
    <2>4. TypeOK'
      <3>1. \A i \in DOMAIN queue' : queue'[i].kind \in Updaters
        <4>1. \A i \in DOMAIN queue' : queue'[i] \in Updates
          BY <2>2, ElementOfSeq, LenProperties
        <4> QED
          BY <4>1 DEF Updates, Updaters
      <3>2. latest' \in Seq(Messages)
        BY <2>2 DEF Pure
      <3> QED
        BY <1>2, <1>4, <2>2, <3>1, <3>2 DEF Sound, TypeOK
    <2>5. Generating'
      <3>1. buf'.text = <<>>
        BY <1>4
      <3> QED
        BY <1>2, <1>5, <2>1, <3>1 DEF Sound, Generating
    <2>6. Lists'
      <3>1. Pure(View(gen), gen)' /\ Pure(View(gen + 1), gen)'
        BY <1>2, <2>2, <2>3
      <3>2. Answering(list, gen)
        BY <2>1, LiveFacts
      <3>3. Pure(list, gen) /\ Pure(stored, gen)
        BY DEF Sound, Lists
      <3> QED
        BY <1>2, <1>4, <2>2, <2>3, <3>1, <3>2, <3>3 DEF Lists
    <2>7. ASSUME ~Edits' PROVE Settling'
      <3>1. editing = NotEditing /\ Tidy(list) /\ Tidy(stored)
        BY <1>5, <2>7 DEF Sound, Settling
      <3> QED
        BY <1>2, <1>5, <2>1, <2>2, <2>3, <2>7, <3>1 DEF Settling
    <2>8. ASSUME ~Loses' PROVE Whole'
      <3>1. /\ Full(now, reqs)
            /\ Agree(setup.stream, now[Len(now)].text, buf'.text, reqs[gen].received)
        BY <1>4, <1>5, <2>2, <2>8
      <3> QED
        BY <1>2, <2>3, <3>1 DEF Whole
    <2> QED
      BY <1>6, <2>2, <2>4, <2>5, <2>6, <2>7, <2>8 DEF Sound
  <1> QED
    BY <1>7, <1>8

(* Render.                                                                   *)
LEMMA RenderStep ==
    ASSUME Sound, Render, setup' = setup
    PROVE  Sound'
  <1>1. busy' = Show(busy) /\ UNCHANGED <<gen, reqs, sgen, source, buf, timer, editing, life>>
    BY DEF Render
  <1>2. CASE queue # <<>>
    <2> DEFINE l == View(gen)
    <2>1. Rendered(l)
      BY <1>2 DEF Render, View
    <2>2. /\ Pure(l, gen) /\ (Live => Answering(l, gen))
          /\ ~Edits => editing = NotEditing /\ Tidy(l) /\ (~Live => Finished(l))
          /\ ~Loses => /\ Full(l, reqs)
                       /\ Live => Agree(setup.stream, l[Len(l)].text, buf.text, reqs[gen].received)
      BY DEF Sound, Lists, Settling, Whole
    <2> HIDE DEF l
    <2> QED
      BY <1>1, <2>1, <2>2, EditingTyped, RenderSound
  <1>3. CASE queue = <<>>
    <2>1. UNCHANGED <<list, queue, latest, saving, stored>>
      BY <1>3 DEF Render, disk
    <2>2. /\ View(gen)' = View(gen) /\ View(gen + 1)' = View(gen + 1) /\ Live' = Live
          /\ Edits' = Edits /\ Loses' = Loses
      BY <1>1, <2>1 DEF View, Live, Edits, Loses
    <2>3. busy \in [requesting : BOOLEAN, streaming : BOOLEAN, shown : BOOLEAN]
      BY DEF Sound, TypeOK
    <2>4. /\ busy' \in [requesting : BOOLEAN, streaming : BOOLEAN, shown : BOOLEAN]
          /\ busy'.requesting = busy.requesting /\ busy'.streaming = busy.streaming
          /\ busy'.shown = (busy.requesting \/ busy.streaming)
      BY <1>1, <2>3 DEF Show
    <2>5. TypeOK'
      BY <1>1, <2>1, <2>4 DEF Sound, TypeOK
    <2>6. Generations'
      BY <1>1 DEF Sound, Generations
    <2>7. Generating'
      BY <1>1, <1>3, <2>1, <2>2, <2>4 DEF Sound, Generating
    <2>8. Lists'
      <3>1. Pure(View(gen), gen)' /\ Pure(View(gen + 1), gen)'
        BY <1>1, <2>2 DEF Sound, Lists
      <3> QED
        BY <1>1, <2>1, <2>2, <3>1 DEF Sound, Lists
    <2>9. ~Edits' => Settling'
      BY <1>1, <2>1, <2>2 DEF Sound, Settling
    <2>10. ~Loses' => Whole'
      BY <1>1, <2>2 DEF Sound, Whole
    <2>11. queue' \in Seq(Updates)
      BY <2>1 DEF Sound
    <2> QED
      BY <2>5, <2>6, <2>7, <2>8, <2>9, <2>10, <2>11 DEF Sound
  <1> QED
    BY <1>2, <1>3

(* SaveTimer.                                                                *)
LEMMA SaveTimerStep ==
    ASSUME Sound, SaveTimer, setup' = setup
    PROVE  Sound'
  <1>1. /\ saving' = FALSE /\ stored' = latest
        /\ UNCHANGED <<gen, reqs, sgen, source, buf, timer, busy, list, queue, editing, latest, life>>
    BY DEF SaveTimer, chat
  <1>2. /\ View(gen)' = View(gen) /\ View(gen + 1)' = View(gen + 1) /\ Live' = Live
        /\ Edits' = Edits /\ Loses' = Loses
    BY <1>1 DEF View, Live, Edits, Loses
  <1>3. TypeOK'
    BY <1>1 DEF Sound, TypeOK
  <1>4. Generations'
    BY <1>1 DEF Sound, Generations
  <1>5. Generating'
    BY <1>1, <1>2 DEF Sound, Generating
  <1>6. Lists'
    <2>1. Pure(View(gen), gen)' /\ Pure(View(gen + 1), gen)'
      BY <1>1, <1>2 DEF Sound, Lists
    <2> QED
      BY <1>1, <1>2, <2>1 DEF Sound, Lists
  <1>7. ~Edits' => Settling'
    BY <1>1, <1>2 DEF Sound, Settling
  <1>8. ~Loses' => Whole'
    BY <1>1, <1>2 DEF Sound, Whole
  <1>9. queue' \in Seq(Updates)
    BY <1>1 DEF Sound
  <1> QED
    BY <1>3, <1>4, <1>5, <1>6, <1>7, <1>8, <1>9 DEF Sound

(***************************************************************************)
(* The theorems.                                                           *)
(***************************************************************************)
(* The page as it is opened.                                                 *)
LEMMA InitSound == Init => Sound
  <1> SUFFICES ASSUME Init PROVE Sound
    OBVIOUS
  <1>1. setup \in Setups
    BY DEF Init
  <1>2. MaxGens \in Nat /\ MaxChunks \in Nat \ {0} /\ setup.chunks \in Nat /\ setup.lives \in Nat
        /\ setup.lives >= 1
    BY <1>1, BoundsTyped
  <1>3. View(gen) = <<>> /\ View(gen + 1) = <<>>
    BY ApplyNone DEF View, Init
  <1>4. NoRequest \in Requests /\ NoRequest.pc = "idle" /\ NoRequest.received = <<>>
    <2>1. <<>> \in Texts
      BY AgreeEmpty
    <2> QED
      BY <2>1 DEF NoRequest, Requests
  <1>5. ~Live /\ Live = FALSE
    BY <1>4 DEF Init, Live, LiveIn
  <1>6. TypeOK
    <2>1. <<>> \in Texts /\ 0 \in 0 .. MaxGens /\ 1 \in 1 .. setup.lives
      BY <1>2, AgreeEmpty
    <2>2. <<>> \in Seq(Messages) /\ DOMAIN <<>> = {}
      OBVIOUS
    <2>3. NotEditing \in [from : {"user", "assistant"}, of : 0 .. MaxGens]
      BY <2>1 DEF NotEditing, NoGen
    <2>4. buf \in [gen : 0 .. MaxGens, text : Texts]
      BY <2>1 DEF Init
    <2>5. \A i \in DOMAIN queue : queue[i].kind \in Updaters
      BY DEF Init
    <2> QED
      BY <1>1, <1>4, <2>1, <2>2, <2>3, <2>4, <2>5 DEF Init, TypeOK, Idle, NoGen
  <1>7. Generations
    BY <1>4 DEF Init, Generations
  <1>8. Generating
    <2>1. busy.requesting = FALSE /\ busy.streaming = FALSE /\ queue = <<>>
      BY DEF Init, Idle
    <2>2. buf.text = <<>>
      BY DEF Init
    <2> QED
      BY <1>5, <2>1, <2>2 DEF Generating
  <1>9. Lists
    BY <1>3, <1>5, EmptyList DEF Init, Lists
  <1>10. Settling
    BY <1>3, EmptyList DEF Init, Settling
  <1>11. Whole
    BY <1>3, <1>5, EmptyList DEF Whole
  <1>12. queue \in Seq(Updates)
    BY DEF Init
  <1> QED
    BY <1>6, <1>7, <1>8, <1>9, <1>10, <1>11, <1>12 DEF Sound

(* Every step of the user, the network and the page keeps Sound.             *)
LEMMA NextSound == Sound /\ [Next]_vars => Sound'
  <1> SUFFICES ASSUME Sound, [Next]_vars PROVE Sound'
    OBVIOUS
  <1>1. ASSUME Next PROVE Sound'
    <2>1. setup' = setup
      BY <1>1 DEF Next
    <2>2. CASE User
      <3>1. ASSUME NEW kind \in {"stream", "plain"}, Send(kind) PROVE Sound'
        BY <2>1, <3>1, SendStep
      <3>2. ASSUME NEW kind \in {"stream", "plain"}, NEW i \in DOMAIN list, Regenerate(kind, i)
            PROVE  Sound'
        BY <2>1, <3>2, RegenerateStep
      <3>3. ASSUME NEW kind \in {"stream", "plain"}, NEW i \in DOMAIN list, SubmitEdit(kind, i)
            PROVE  Sound'
        BY <2>1, <3>3, SubmitEditStep
      <3>4. ASSUME NEW i \in DOMAIN list, SaveEdit(i) PROVE Sound'
        BY <2>1, <3>4, SaveEditStep
      <3>5. ASSUME NEW i \in DOMAIN list, Delete(i) PROVE Sound'
        BY <2>1, <3>5, DeleteStep
      <3>6. ASSUME CloseEditor \/ \E i \in DOMAIN list : OpenEditor(i) PROVE Sound'
        BY <2>1, <3>6, EditorSteps
      <3>7. ASSUME Clear PROVE Sound'
        BY <2>1, <3>7, ClearStep
      <3>8. ASSUME StopGeneration PROVE Sound'
        BY <2>1, <3>8, StopStep
      <3>9. ASSUME Leave \/ Crash PROVE Sound'
        BY <2>1, <3>9, ReloadStep
      <3> QED
        BY <2>2, <3>1, <3>2, <3>3, <3>4, <3>5, <3>6, <3>7, <3>8, <3>9 DEF User
    <2>3. ASSUME NEW g \in Gens, RequestStep(g) \/ Network(g) PROVE Sound'
      <3>1. CASE HeadersReady(g)
        BY <2>1, <3>1, HeadersReadyStep
      <3>2. CASE StreamDone(g) \/ StreamFails(g)
        BY <2>1, <3>2, StreamEndsStep
      <3>3. CASE HeadersFail(g) \/ PlainAnswered(g)
        BY <2>1, <3>3, RequestEndsStep
      <3>4. CASE ChunkArrives(g)
        BY <2>1, <3>4, ChunkArrivesStep
      <3>5. CASE StreamCloses(g)
        BY <2>1, <3>5, StreamClosesStep
      <3> QED
        BY <2>3, <3>1, <3>2, <3>3, <3>4, <3>5 DEF RequestStep, Network
    <2>4. CASE FlushTimer
      BY <2>1, <2>4, FlushTimerStep
    <2>5. CASE Render
      BY <2>1, <2>5, RenderStep
    <2>6. CASE SaveTimer
      BY <2>1, <2>6, SaveTimerStep
    <2> QED
      BY <1>1, <2>2, <2>3, <2>4, <2>5, <2>6 DEF Next
  <1>2. ASSUME UNCHANGED vars PROVE Sound'
    <2>1. UNCHANGED <<chat, list, queue, disk, life, setup, editing>>
      BY <1>2 DEF vars, state
    <2>2. ~Edits => editing = NotEditing
      BY DEF Sound, Settling
    <2> QED
      BY <2>1, <2>2, EditingTyped, EditorSound
  <1> QED
    BY <1>1, <1>2

(* The page keeps its refs, its queue of updaters and its lists in step:     *)
(* whatever React still has to run, the list it will show has one answer to  *)
(* be written, the newest request's, and only while that request is live.    *)
THEOREM ChatSound == Spec => []Sound
  <1>1. Init => Sound
    BY InitSound
  <1>2. Sound /\ [Next]_vars => Sound'
    BY NextSound
  <1> QED
    BY <1>1, <1>2, PTL DEF Spec

(* No request writes to the answer of another one, whenever React runs its   *)
(* updaters: each of them compares requestGenerationRef when it runs.        *)
THEOREM ChatNoForeignText == Spec => []NoForeignText
  <1>1. ASSUME Sound PROVE NoForeignText
    <2>1. TypeOK /\ Pure(list, gen)
      BY <1>1 DEF Sound, Lists
    <2>2. DOMAIN list = 1 .. Len(list)
      BY <2>1, LenProperties DEF Pure
    <2> QED
      BY <2>1, <2>2 DEF Pure, NoForeignText
  <1> QED
    BY <1>1, ChatSound, PTL

(* An idle page with nothing to run shows no message that seems to be        *)
(* written, if no edit is saved over queued updates.                         *)
THEOREM ChatSettledMessages == Spec => []SettledMessages
  <1>1. ASSUME Sound PROVE SettledMessages
    <2> SUFFICES ASSUME queue = <<>>, ~busy.requesting, ~busy.streaming, "edit" \notin setup.acts
                 PROVE  \A i \in DOMAIN list : ~IsPending(list[i])
      BY DEF SettledMessages
    <2>1. ~Edits /\ ~Live
      BY <1>1 DEF Edits, Sound, Generating
    <2>2. Finished(View(gen)) /\ list \in Seq(Messages)
      BY <1>1, <2>1 DEF Sound, Settling, TypeOK
    <2>3. View(gen) = list
      BY ApplyNone DEF View
    <2>4. DOMAIN list = 1 .. Len(list)
      BY <2>2, LenProperties
    <2> QED
      BY <2>2, <2>3, <2>4 DEF Finished
  <1> QED
    BY <1>1, ChatSound, PTL

(* The answer of a stream that reached [DONE] is the text that arrived, if   *)
(* its deltas carry the whole text so far or new text that repeats nothing,  *)
(* and no stop, edit or reload dropped text.  (Deltas of any wording may     *)
(* lose text to mergePendingStreamChunk and getAppendableChunk.)             *)
THEOREM ChatAllTextShown == Spec => []AllTextShown
  <1>1. ASSUME Sound PROVE AllTextShown
    <2> SUFFICES ASSUME queue = <<>>, setup.acts \cap {"stop", "edit", "leave", "crash"} = {},
                        setup.stream # "any",
                        NEW i \in DOMAIN list, list[i].from = "assistant", reqs[list[i].of].done
                 PROVE  list[i].text = reqs[list[i].of].received
      BY DEF AllTextShown
    <2>1. ~Loses
      BY DEF Loses
    <2>2. Full(View(gen), reqs) /\ list \in Seq(Messages)
      BY <1>1, <2>1 DEF Sound, Whole, TypeOK
    <2>3. View(gen) = list
      BY ApplyNone DEF View
    <2>4. DOMAIN list = 1 .. Len(list)
      BY <2>2, LenProperties
    <2> QED
      BY <2>2, <2>3, <2>4 DEF Full
  <1> QED
    BY <1>1, ChatSound, PTL

===========================================================================
