---------------------------- MODULE Runner_proofs ----------------------------
(***************************************************************************)
(* Proofs about record and replay, for every script, every build and every *)
(* place where the adapter dies: what is recorded decodes, and so does     *)
(* what is replayed; the evidence of a run is a prefix of the recorded     *)
(* inputs; an answer given early is final, and answers tell the builds     *)
(* apart; the build that made a recording reproduces it.                   *)
(*                                                                         *)
(* The argument for the streams.  The recorder's counters are the numbers  *)
(* of frames each source has in the recording (RecordingInv).  The         *)
(* replayed stream holds the inputs the runner has reached, each once and  *)
(* in order (Passed), so sources count in it as in the recording up to     *)
(* there, and the component by effect_sequences (Counted).  Reached is     *)
(* behind the cursor, except while an input is in work and after an answer *)
(* that cut its step short.                                                *)
(*                                                                         *)
(* The argument for the answers.  What the property program reads of the   *)
(* evidence follows the state of the component (Follows): no goal is sent  *)
(* before a command's callback has read the clock (NoneSent), and after    *)
(* the first goal its cancels, acknowledgment and expiries are those of    *)
(* the build (Course).  A step keeps this (StepFollows).  The component is *)
(* ahead of the evidence while lines are under way: then it is the         *)
(* evidence with these lines received that follows (Ahead, Answering).  An *)
(* answer at an effect is about the first goal, and what is still under    *)
(* way only adds effects behind it (Later), so it is final (Final).        *)
(*                                                                         *)
(* The argument for the recorded build.  The component is a function of    *)
(* build, memory and input (StepIs), so a recording has a trace: the       *)
(* memory the build had at every frame (Traced).  While it is written the  *)
(* recorder's component is at the end of the trace (Writing).  Replayed,   *)
(* the same build is at the place of the trace the run has come to, the    *)
(* run mirrors the recording (Mirrors), and what is on its way is what     *)
(* stands next in the recording (Owing).  A response finds its request,    *)
(* since the run has issued the same ones (OwnRequest).                    *)
(*                                                                         *)
(* The predicates are defined in RunnerInvariants.                         *)
(***************************************************************************)
EXTENDS RunnerInvariants

-----------------------------------------------------------------------------
(***************************************************************************)
(* Frames.                                                                 *)
(***************************************************************************)
\* The kinds of the types that occur.
LEMMA KindsUsed ==
    ASSUME NEW f, f.type \in UsedTypes
    PROVE  /\ IsEmit(f) <=> f.type \in EffectTypes
           /\ f.type \in InputTypes <=>
                 f.type \notin EffectTypes /\ f.type \notin {"Session", "Gap", "End"}
  BY DEF UsedTypes, InputTypes, EffectTypes, IsEmit, kind, MarkerTypes, DeliverTypes, EmitTypes

LEMMA FrameMade ==
    ASSUME NEW n, NEW src, NEW dst, NEW channel, NEW seq, NEW type, NEW flags, NEW body
    PROVE  Made(frame(n, src, dst, channel, seq, type, flags, body),
                n, src, dst, channel, seq, type, flags, body)
  BY DEF frame, Made, IsFrame, FrameFields, Source

LEMMA PushMade ==
    ASSUME NEW f, Sound(f), NEW n
    PROVE  LET g == [f EXCEPT !.ordinal = n, !.observed_ns = 0]
           IN  Sound(g) /\ g.ordinal = n /\ Relabelled(g, f)
  <1>. DEFINE g == [f EXCEPT !.ordinal = n, !.observed_ns = 0]
  <1>1. IsFrame(f)
    BY DEF Sound
  <1>2. /\ IsFrame(g) /\ g.ordinal = n
        /\ g.src = f.src /\ g.dst = f.dst /\ g.channel = f.channel /\ g.seq = f.seq
        /\ g.type = f.type /\ g.kind = f.kind /\ g.flags = f.flags /\ g.body = f.body
        /\ g.damage = f.damage
    BY <1>1 DEF IsFrame, FrameFields
  <1>. HIDE DEF g
  <1>3. Relabelled(g, f)
    BY <1>2 DEF Relabelled, Source, Content
  <1>4. Sound(g)
    BY <1>2 DEF Sound, HasMarkerTuple, GapFlagMatches
  <1>. QED  BY <1>2, <1>3, <1>4 DEF g

(***************************************************************************)
(* Counting the frames of a source.                                        *)
(***************************************************************************)
LEMMA CountType ==
    ASSUME NEW s, NEW n \in Nat, NEW source
    PROVE  /\ IsFiniteSet({j \in 1..n : Source(s[j]) = source})
           /\ CountUpTo(s, n, source) \in Nat
  <1>1. IsFiniteSet(1..n)
    BY FS_Interval
  <1>2. {j \in 1..n : Source(s[j]) = source} \subseteq 1..n
    OBVIOUS
  <1>. QED  BY <1>1, <1>2, FS_Subset, FS_CardinalityType DEF CountUpTo

LEMMA CountZero == ASSUME NEW s, NEW source PROVE CountUpTo(s, 0, source) = 0
  <1>1. {j \in 1..0 : Source(s[j]) = source} = {}
    OBVIOUS
  <1>. QED  BY <1>1, FS_EmptySet DEF CountUpTo

LEMMA CountStep ==
    ASSUME NEW s, NEW n \in Nat, NEW source
    PROVE  CountUpTo(s, n + 1, source) = IF Source(s[n + 1]) = source
                                         THEN CountUpTo(s, n, source) + 1
                                         ELSE CountUpTo(s, n, source)
  <1>. DEFINE T(k) == {j \in 1..k : Source(s[j]) = source}
  <1>1. IsFiniteSet(T(n))
    BY CountType
  <1>2. 1..(n + 1) = 1..n \cup {n + 1} /\ n + 1 \notin 1..n
    OBVIOUS
  <1>3. CASE Source(s[n + 1]) = source
    <2>1. T(n + 1) = T(n) \cup {n + 1} /\ n + 1 \notin T(n)
      BY <1>2, <1>3
    <2>. QED  BY <1>1, <1>3, <2>1, FS_AddElement DEF CountUpTo
  <1>4. CASE Source(s[n + 1]) # source
    <2>1. T(n + 1) = T(n)
      BY <1>2, <1>4
    <2>. QED  BY <1>4, <2>1 DEF CountUpTo
  <1>. QED  BY <1>3, <1>4

LEMMA CountSame ==
    ASSUME NEW s, NEW t, NEW n \in Nat, NEW source, \A j \in 1..n : s[j] = t[j]
    PROVE  CountUpTo(s, n, source) = CountUpTo(t, n, source)
  <1>1. {j \in 1..n : Source(s[j]) = source} = {j \in 1..n : Source(t[j]) = source}
    OBVIOUS
  <1>. QED  BY <1>1 DEF CountUpTo

LEMMA CountMonotone ==
    ASSUME NEW s, NEW m \in Nat, NEW n \in Nat, m <= n, NEW source
    PROVE  CountUpTo(s, m, source) <= CountUpTo(s, n, source)
  <1>. DEFINE A == {j \in 1..m : Source(s[j]) = source}
              C == {j \in 1..n : Source(s[j]) = source}
  <1>0. IsFiniteSet(C)
    BY CountType
  <1>1. A \subseteq C
    OBVIOUS
  <1>2. CountUpTo(s, m, source) = Cardinality(A) /\ CountUpTo(s, n, source) = Cardinality(C)
    BY DEF CountUpTo
  <1>. HIDE DEF A, C
  <1>. QED  BY <1>0, <1>1, <1>2, FS_Subset

\* A frame more: its source counts one more.
LEMMA CountGrown ==
    ASSUME NEW s, NEW t, NEW f, IsSeq(s), Grown(t, s, f), NEW source
    PROVE  CountUpTo(t, Len(t), source) =
               IF Source(f) = source THEN CountUpTo(s, Len(s), source) + 1
               ELSE CountUpTo(s, Len(s), source)
  <1>1. Len(s) \in Nat /\ Len(t) = Len(s) + 1 /\ t[Len(s) + 1] = f
        /\ \A j \in 1..Len(s) : s[j] = t[j]
    BY SeqShape DEF Grown
  <1>2. CountUpTo(s, Len(s), source) = CountUpTo(t, Len(s), source)
    BY <1>1, CountSame
  <1>. QED  BY <1>1, <1>2, CountStep

\* A stream that fits grows by a frame that fits the counts.
LEMMA FitsGrown ==
    ASSUME NEW s, NEW t, NEW f, IsSeq(s), Grown(t, s, f), \A i \in 1..Len(s) : FitsAt(s, i),
           Sound(f), f.ordinal = Len(s), f.seq = CountUpTo(s, Len(s), Source(f)),
           f.type = "Session" <=> Len(s) = 0
    PROVE  \A i \in 1..Len(t) : FitsAt(t, i)
  <1>1. /\ Len(t) = Len(s) + 1 /\ t[Len(s) + 1] = f /\ Len(s) \in Nat
        /\ \A i \in 1..Len(s) : t[i] = s[i]
    BY SeqShape DEF Grown
  <1>. SUFFICES ASSUME NEW i \in 1..Len(t) PROVE FitsAt(t, i)
    OBVIOUS
  <1>2. CASE i \in 1..Len(s)
    <2>1. CountUpTo(t, i - 1, Source(s[i])) = CountUpTo(s, i - 1, Source(s[i]))
      <3>1. i - 1 \in Nat /\ \A j \in 1..(i - 1) : t[j] = s[j]
        BY <1>1, <1>2
      <3>. DEFINE m == i - 1
                  source == Source(s[i])
      <3>2. m \in Nat /\ \A j \in 1..m : t[j] = s[j]
        BY <3>1
      <3>. HIDE DEF m, source
      <3>3. CountUpTo(t, m, source) = CountUpTo(s, m, source)
        BY <3>2, CountSame
      <3>. QED  BY <3>3 DEF m, source
    <2>2. FitsAt(s, i) /\ t[i] = s[i]
      BY <1>1, <1>2
    <2>. QED  BY <2>1, <2>2 DEF FitsAt
  <1>3. CASE i = Len(s) + 1
    <2>1. CountUpTo(t, Len(s), Source(f)) = CountUpTo(s, Len(s), Source(f))
      BY <1>1, CountSame
    <2>2. t[i] = f /\ i - 1 = Len(s) /\ (i = 1 <=> Len(s) = 0)
      BY <1>1, <1>3
    <2>. QED  BY <2>1, <2>2 DEF FitsAt
  <1>. QED  BY <1>1, <1>2, <1>3

\* A prefix of such a stream is one.
LEMMA FitsPrefix ==
    ASSUME NEW s, NEW t, NEW n \in Nat, \A i \in 1..n : t[i] = s[i], \A i \in 1..n : FitsAt(s, i)
    PROVE  \A i \in 1..n : FitsAt(t, i)
  <1>. TAKE i \in 1..n
  <1>1. i - 1 \in Nat /\ \A j \in 1..(i - 1) : s[j] = t[j]
    OBVIOUS
  <1>2. CountUpTo(t, i - 1, Source(s[i])) = CountUpTo(s, i - 1, Source(s[i]))
    BY <1>1, CountSame
  <1>3. FitsAt(s, i) /\ t[i] = s[i]
    OBVIOUS
  <1>. QED  BY <1>2, <1>3 DEF FitsAt

\* Where frames fit, no two of them say the same: their sequences differ.
LEMMA ContentsDiffer ==
    ASSUME NEW s, NEW i \in Nat \ {0}, NEW j \in Nat, i < j, FitsAt(s, i), FitsAt(s, j)
    PROVE  Content(s[i]) # Content(s[j])
  <1>. SUFFICES ASSUME Content(s[i]) = Content(s[j]) PROVE FALSE
    OBVIOUS
  <1>0. i - 1 \in Nat /\ j - 1 \in Nat /\ i <= j - 1 /\ (i - 1) + 1 = i
    OBVIOUS
  <1>1. Source(s[i]) = Source(s[j]) /\ s[i].seq = s[j].seq
    BY DEF Content
  <1>. DEFINE source == Source(s[j])
  <1>2. s[i].seq = CountUpTo(s, i - 1, source) /\ s[j].seq = CountUpTo(s, j - 1, source)
    BY <1>1 DEF FitsAt
  <1>3. CountUpTo(s, (i - 1) + 1, source) = CountUpTo(s, i - 1, source) + 1
    BY <1>0, <1>1, CountStep
  <1>4. CountUpTo(s, i, source) <= CountUpTo(s, j - 1, source)
    BY <1>0, CountMonotone
  <1>5. CountUpTo(s, i - 1, source) \in Nat /\ CountUpTo(s, j - 1, source) \in Nat
    BY <1>0, CountType
  <1>6. CountUpTo(s, i, source) = CountUpTo(s, i - 1, source) + 1
    BY <1>0, <1>3
  <1>7. CountUpTo(s, i - 1, source) = CountUpTo(s, j - 1, source)
    BY <1>1, <1>2
  <1>. HIDE DEF source
  <1>. QED  BY <1>4, <1>5, <1>6, <1>7

(***************************************************************************)
(* Inputs.                                                                 *)
(***************************************************************************)
\* The inputs of a stream that grows by a frame.
LEMMA InputsGrown ==
    ASSUME NEW s, IsSeq(s), NEW f
    PROVE  /\ Inputs(Append(s, f)) = IF ~IsEmit(f) /\ f.type # "End"
                                     THEN Append(Inputs(s), Content(f)) ELSE Inputs(s)
           /\ IsSeq(Inputs(s))
  <1>. DEFINE t == Append(s, f)
              bare(u) == [i \in DOMAIN u |-> Content(u[i])]
              I(u) == {i \in DOMAIN u : ~IsEmit(u[i]) /\ u[i].type # "End"}
  <1>0. Grown(t, s, f)
    BY AppendShape
  <1>. HIDE DEF t
  <1>1. /\ DOMAIN s = 1..Len(s) /\ DOMAIN t = 1..(Len(s) + 1) /\ Len(s) \in Nat
        /\ t[Len(s) + 1] = f /\ \A k \in 1..Len(s) : t[k] = s[k]
        /\ IsSeq(t) /\ Len(t) = Len(s) + 1
    BY <1>0, SeqShape DEF Grown
  <1>2. IsSeq(bare(s)) /\ Len(bare(s)) = Len(s)
    <2>1. DOMAIN bare(s) = DOMAIN s /\ bare(s) = [i \in DOMAIN bare(s) |-> bare(s)[i]]
      OBVIOUS
    <2>. HIDE DEF bare
    <2>. QED  BY <2>1, MappedShape
  <1>3. IsSeq(bare(t)) /\ Len(bare(t)) = Len(s) + 1
    <2>1. DOMAIN bare(t) = DOMAIN t /\ bare(t) = [i \in DOMAIN bare(t) |-> bare(t)[i]]
      OBVIOUS
    <2>. HIDE DEF bare
    <2>. QED  BY <1>1, <2>1, MappedShape
  <1>4. bare(t) = Append(bare(s), Content(f))
    <2>. DEFINE a == Append(bare(s), Content(f))
    <2>1. Grown(a, bare(s), Content(f))
      <3>. HIDE DEF bare
      <3>. QED  BY <1>2, AppendShape
    <2>. HIDE DEF a
    <2>2. /\ IsSeq(a) /\ Len(a) = Len(s) + 1 /\ a[Len(s) + 1] = Content(f)
          /\ \A k \in 1..Len(s) : a[k] = bare(s)[k]
      <3>. HIDE DEF bare
      <3>. QED  BY <1>2, <2>1 DEF Grown
    <2>3. \A k \in 1..Len(s) : a[k] = bare(t)[k]
      BY <1>1, <2>2
    <2>4. bare(t)[Len(s) + 1] = Content(f)
      BY <1>1
    <2>5. \A k \in 1..(Len(s) + 1) : k \in 1..Len(s) \/ k = Len(s) + 1
      BY <1>1
    <2>. HIDE DEF bare
    <2>6. \A k \in 1..Len(bare(t)) : bare(t)[k] = a[k]
      BY <1>3, <2>2, <2>3, <2>4, <2>5
    <2>. QED  BY <1>3, <2>2, <2>6, SameSeq DEF a
  <1>5. \A k \in 1..Len(s) : k \in I(s) <=> k \in I(t)
    BY <1>1
  <1>6. Len(s) + 1 \in I(t) <=> ~IsEmit(f) /\ f.type # "End"
    BY <1>1
  <1>7. /\ Keep(bare(t), I(t)) = IF Len(s) + 1 \in I(t) THEN Append(Keep(bare(s), I(s)), Content(f))
                                 ELSE Keep(bare(s), I(s))
        /\ IsSeq(Keep(bare(s), I(s)))
    <2>. HIDE DEF bare, I
    <2>. QED  BY <1>2, <1>4, <1>5, KeepGrown
  <1>8. Inputs(t) = Keep(bare(t), I(t)) /\ Inputs(s) = Keep(bare(s), I(s))
    BY DEF Inputs
  <1>. HIDE DEF bare, I
  <1>. QED  BY <1>6, <1>7, <1>8 DEF t

LEMMA InputsEmpty == Inputs(<<>>) = <<>>
  <1>1. [i \in DOMAIN <<>> |-> Content(<<>>[i])] = <<>>
    OBVIOUS
  <1>. QED  BY <1>1, KeepEmpty DEF Inputs

LEMMA InputsToStep ==
    ASSUME NEW s, IsSeq(s), NEW n \in 1..Len(s)
    PROVE  /\ InputsTo(s, n) = IF ~IsEmit(s[n]) /\ s[n].type # "End"
                               THEN Append(InputsTo(s, n - 1), Content(s[n]))
                               ELSE InputsTo(s, n - 1)
           /\ IsSeq(InputsTo(s, n - 1))
  <1>1. n \in 0..Len(s) /\ n - 1 \in 0..Len(s) /\ n > 0
    BY SeqShape
  <1>2. IsSeq(SubSeq(s, 1, n - 1))
    BY <1>1, PrefixShape DEF Prefixed
  <1>3. SubSeq(s, 1, n) = Append(SubSeq(s, 1, n - 1), s[n])
    BY <1>1, PrefixShape
  <1>. QED  BY <1>2, <1>3, InputsGrown DEF InputsTo

LEMMA InputsToZero ==
    ASSUME NEW s, IsSeq(s)
    PROVE  InputsTo(s, 0) = <<>> /\ InputsTo(s, Len(s)) = Inputs(s)
  <1>1. 0 \in 0..Len(s)
    BY SeqShape
  <1>. QED  BY <1>1, PrefixShape, InputsEmpty DEF InputsTo

\* The inputs of a prefix are a prefix of the inputs.
LEMMA InputsBegin ==
    ASSUME NEW s, IsSeq(s), NEW n \in 0..Len(s)
    PROVE  Begins(InputsTo(s, n), Inputs(s))
  <1>. DEFINE a == InputsTo(s, n)
              P == {k \in 0..Len(s) : n <= k => Begins(a, InputsTo(s, k))}
  <1>0. Len(s) \in Nat
    BY SeqShape
  <1>a. IsSeq(a)
    <2>1. IsSeq(SubSeq(s, 1, n))
      BY PrefixShape DEF Prefixed
    <2>. QED  BY <2>1, InputsGrown DEF InputsTo
  <1>b. Begins(a, a)
    <2>1. Len(a) \in Nat
      BY <1>a, SeqShape
    <2>. HIDE DEF a
    <2>. QED  BY <1>a, <2>1 DEF Begins
  <1>. HIDE DEF a
  <1>1. 0 \in P
    <2>1. n <= 0 => n = 0
      OBVIOUS
    <2>. QED  BY <1>0, <1>b, <2>1 DEF a
  <1>2. ASSUME NEW k \in 1..Len(s), k - 1 \in P PROVE k \in P
    <2>. SUFFICES ASSUME n <= k PROVE Begins(a, InputsTo(s, k))
      BY <1>0
    <2>1. CASE n = k
      BY <1>b, <2>1 DEF a
    <2>2. CASE n <= k - 1
      <3>. DEFINE b == InputsTo(s, k - 1)
      <3>1. Begins(a, b)
        BY <1>2, <2>2
      <3>2. IF ~IsEmit(s[k]) /\ s[k].type # "End"
            THEN InputsTo(s, k) = Append(b, Content(s[k])) ELSE InputsTo(s, k) = b
        BY InputsToStep
      <3>. HIDE DEF b
      <3>3. Begins(a, Append(b, Content(s[k])))
        <4>1. Grown(Append(b, Content(s[k])), b, Content(s[k]))
          BY <3>1, AppendShape DEF Begins
        <4>2. Len(a) \in Nat /\ Len(b) \in Nat
          BY <3>1, SeqShape DEF Begins
        <4>. QED  BY <3>1, <4>1, <4>2 DEF Begins, Grown
      <3>. QED  BY <3>1, <3>2, <3>3
    <2>3. n = k \/ n <= k - 1
      BY <1>0
    <2>. QED  BY <2>1, <2>2, <2>3
  <1>3. \A k \in 0..Len(s) : k \in P
    <2>. HIDE DEF P
    <2>. QED  BY <1>0, <1>1, <1>2, UpToInduction
  <1>4. Len(s) \in 0..Len(s) /\ n <= Len(s)
    BY <1>0
  <1>. QED  BY <1>3, <1>4, InputsToZero DEF a

LEMMA InputsTold ==
    ASSUME NEW s, IsSeq(s), NEW n \in 0..Len(s)
    PROVE  Told(InputsTo(s, n), s, n)
  <1>. DEFINE P == {k \in 0..Len(s) : Told(InputsTo(s, k), s, k)}
  <1>0. Len(s) \in Nat
    BY SeqShape
  <1>1. 0 \in P
    BY <1>0, InputsToZero, EmptyShape DEF Told
  <1>2. ASSUME NEW k \in 1..Len(s), k - 1 \in P PROVE k \in P
    <2>. DEFINE b == InputsTo(s, k - 1)
                c == InputsTo(s, k)
    <2>1. Told(b, s, k - 1)
      BY <1>2
    <2>2. /\ IF ~IsEmit(s[k]) /\ s[k].type # "End" THEN c = Append(b, Content(s[k])) ELSE c = b
          /\ IsSeq(b)
      BY InputsToStep
    <2>. HIDE DEF b, c
    <2>3. Told(b, s, k)
      <3>1. \A j \in 1..(k - 1) : j \in 1..k
        BY <1>0
      <3>. QED  BY <2>1, <3>1 DEF Told
    <2>4. Told(Append(b, Content(s[k])), s, k)
      <3>. DEFINE d == Append(b, Content(s[k]))
      <3>1. Grown(d, b, Content(s[k])) /\ Len(b) \in Nat
        BY <2>2, AppendShape, SeqShape
      <3>. HIDE DEF d
      <3>2. \A i \in 1..Len(d) : i \in 1..Len(b) \/ i = Len(b) + 1
        BY <3>1 DEF Grown
      <3>3. k \in 1..k
        BY <1>0
      <3>4. Told(d, s, k)
        BY <2>3, <3>1, <3>2, <3>3 DEF Told, Grown
      <3>. QED  BY <3>4 DEF d
    <2>5. Told(c, s, k)
      BY <2>2, <2>3, <2>4
    <2>. QED  BY <1>0, <2>5 DEF c
  <1>3. \A k \in 0..Len(s) : k \in P
    <2>. HIDE DEF P
    <2>. QED  BY <1>0, <1>1, <1>2, UpToInduction
  <1>. QED  BY <1>3

LEMMA EvidenceUpTo ==
    ASSUME NEW s, IsSeq(s), \A i \in 1..Len(s) : FitsAt(s, i), NEW n \in 0..Len(s),
           \A j \in 1..n : s[j].type # "Gap",
           NEW frames, Inputs(frames) = InputsTo(s, n),
           NEW steps, IsSeq(steps),
           \A i \in 1..Len(steps) : steps[i].status = "Refused" =>
              /\ steps[i].recorded \in Nat /\ n <= steps[i].recorded
              /\ steps[i].recorded + 1 <= Len(s)
    PROVE  Evidence(s, frames, steps)
  <1>. DEFINE seen == Inputs(frames)
              given == Inputs(s)
  <1>1. Begins(seen, given)
    BY InputsBegin
  <1>2. Told(seen, s, n)
    BY InputsTold
  <1>3. DOMAIN seen = 1..Len(seen) /\ Len(s) \in Nat
    BY <1>1, SeqShape DEF Begins
  <1>. HIDE DEF seen, given
  <1>4. ASSUME NEW i \in DOMAIN seen PROVE seen[i] = given[i] /\ seen[i][3] # "Gap"
    <2>1. PICK j \in 1..n : seen[i] = Content(s[j])
      BY <1>2, <1>3 DEF Told
    <2>2. seen[i][3] = s[j].type
      BY <2>1 DEF Content
    <2>. QED  BY <1>1, <1>3, <2>2 DEF Begins
  <1>5. ASSUME NEW p \in ToSet(steps), p.status = "Refused", NEW i \in DOMAIN seen
        PROVE  seen[i] # Content(s[p.recorded + 1])
    <2>1. PICK j \in 1..n : seen[i] = Content(s[j])
      BY <1>2, <1>3 DEF Told
    <2>2. PICK k \in 1..Len(steps) : p = steps[k]
      BY SeqShape DEF ToSet
    <2>3. p.recorded \in Nat /\ n <= p.recorded /\ p.recorded + 1 <= Len(s)
      BY <1>5, <2>2
    <2>4. /\ j \in Nat \ {0} /\ p.recorded + 1 \in Nat /\ j < p.recorded + 1
          /\ j \in 1..Len(s) /\ p.recorded + 1 \in 1..Len(s)
      BY <1>3, <2>3
    <2>. QED  BY <2>1, <2>4, ContentsDiffer
  <1>6. Len(seen) <= Len(given)
    BY <1>1 DEF Begins
  <1>. QED  BY <1>4, <1>5, <1>6 DEF Evidence, seen, given

-----------------------------------------------------------------------------
(***************************************************************************)
(* The recorder.                                                           *)
(***************************************************************************)
LEMMA Ids ==
    /\ SESSION_ACTOR_ID = 0 /\ COMPONENT_ACTOR_ID = 1 /\ SESSION_CHANNEL_ID = 0
    /\ ACTOR_CLOCK = 2 /\ ACTOR_ACTION_SERVER = 3 /\ ACTOR_COMMAND = 4
    /\ EffectChannel = {20, 21, 22}
    /\ {0, 1, 2, 3, 4} = Endpoint /\ {0, 10, 11, 12, 20, 21, 22} = ChannelId
  BY DEF SESSION_ACTOR_ID, COMPONENT_ACTOR_ID, SESSION_CHANNEL_ID, ACTOR_CLOCK,
         ACTOR_ACTION_SERVER, ACTOR_COMMAND, EffectChannel, CH_ACTION_GOAL, CH_ACTION_CANCEL,
         CH_STATUS, Endpoint, ChannelId, CH_GOAL_COMMAND, CH_CLOCK, CH_ACTION_RESPONSE

LEMMA WriteOne ==
    ASSUME NEW s, NEW c, Written(s, c), NEW f, Sound(f), f.ordinal = Len(s),
           Source(f) \in Endpoint \X ChannelId, f.seq = c[Source(f)],
           f.type \notin {"Session", "End"}, f.type \in InputTypes => f.src # SESSION_ACTOR_ID,
           NEW d, Counts(d, c, Source(f))
    PROVE  Written(Append(s, f), d)
  <1>. DEFINE t == Append(s, f)
  <1>1. IsSeq(s) /\ Len(s) \in Nat /\ Len(s) >= 2 /\ \A i \in 1..Len(s) : FitsAt(s, i)
    BY SeqShape DEF Written, Begun
  <1>2. Grown(t, s, f)
    BY <1>1, AppendShape
  <1>. HIDE DEF t
  <1>3. \A i \in 1..Len(t) : i \in 1..Len(s) \/ i = Len(s) + 1
    BY <1>1, <1>2 DEF Grown
  <1>4. \A i \in 1..Len(t) : FitsAt(t, i)
    <2>1. f.seq = CountUpTo(s, Len(s), Source(f))
      BY DEF Written
    <2>. QED  BY <1>1, <1>2, <2>1, FitsGrown
  <1>5. Begun(t)
    <2>1. t[1] = s[1] /\ t[2] = s[2] /\ Len(t) >= 2
      BY <1>1, <1>2 DEF Grown
    <2>2. \A i \in 3..Len(t) : t[i].type \in InputTypes => t[i].src # SESSION_ACTOR_ID
      BY <1>1, <1>2, <1>3 DEF Grown, Written, Begun
    <2>. QED  BY <1>2, <1>4, <2>1, <2>2 DEF Begun, Grown, Written
  <1>6. \A i \in 1..Len(t) : t[i].type # "End"
    BY <1>2, <1>3 DEF Grown, Written
  <1>7. \A o \in Endpoint \X ChannelId : d[o] = CountUpTo(t, Len(t), o)
    <2>. TAKE o \in Endpoint \X ChannelId
    <2>1. c[o] = CountUpTo(s, Len(s), o) /\ d[o] = IF o = Source(f) THEN c[o] + 1 ELSE c[o]
      BY DEF Written, Counts
    <2>2. CountUpTo(t, Len(t), o) = IF Source(f) = o THEN CountUpTo(s, Len(s), o) + 1
                                    ELSE CountUpTo(s, Len(s), o)
      BY <1>1, <1>2, CountGrown
    <2>. QED  BY <2>1, <2>2
  <1>8. DOMAIN d = Endpoint \X ChannelId
    BY DEF Counts
  <1>. QED  BY <1>5, <1>6, <1>7, <1>8 DEF Written, t

\* The last frame.
LEMMA WriteEnd ==
    ASSUME NEW s, NEW c, Written(s, c)
    PROVE  Closed(Append(s, EndMarker(Len(s), c[SessionSource])))
  <1>. DEFINE f == EndMarker(Len(s), c[SessionSource])
              t == Append(s, f)
  <1>1. IsSeq(s) /\ Len(s) \in Nat /\ Len(s) >= 2 /\ \A i \in 1..Len(s) : FitsAt(s, i)
    BY SeqShape DEF Written, Begun
  <1>2. Grown(t, s, f)
    BY <1>1, AppendShape
  <1>3. Made(f, Len(s), SESSION_ACTOR_ID, SESSION_ACTOR_ID, SESSION_CHANNEL_ID, c[SessionSource],
             "End", {}, [uuid |-> "u", frame_count |-> Len(s)])
    BY FrameMade DEF EndMarker, session_frame
  <1>. HIDE DEF t, f
  <1>4. \A i \in 1..Len(t) : i \in 1..Len(s) \/ i = Len(s) + 1
    BY <1>1, <1>2 DEF Grown
  <1>5. Sound(f)
    BY <1>3, Ids DEF Made, Sound, UsedTypes, EffectTypes, HasMarkerTuple
  <1>6. \A i \in 1..Len(t) : FitsAt(t, i)
    <2>1. SessionSource \in Endpoint \X ChannelId /\ Source(f) = SessionSource
      BY <1>3, Ids DEF Made, SessionSource
    <2>2. f.seq = CountUpTo(s, Len(s), Source(f)) /\ f.ordinal = Len(s) /\ f.type = "End"
      BY <1>3, <2>1 DEF Written, Made
    <2>. QED  BY <1>1, <1>2, <1>5, <2>2, FitsGrown
  <1>7. Begun(t)
    <2>1. t[1] = s[1] /\ t[2] = s[2] /\ Len(t) >= 2
      BY <1>1, <1>2 DEF Grown
    <2>2. f.type \notin InputTypes
      BY <1>3 DEF Made, InputTypes
    <2>3. \A i \in 3..Len(t) : t[i].type \in InputTypes => t[i].src # SESSION_ACTOR_ID
      BY <1>1, <1>2, <1>4, <2>2 DEF Grown, Written, Begun
    <2>. QED  BY <1>2, <1>6, <2>1, <2>3 DEF Begun, Grown, Written
  <1>8. \A i \in 1..Len(t) : t[i].type = "End" <=> i = Len(t)
    <2>1. \A i \in 1..Len(s) : t[i].type # "End" /\ i # Len(t)
      BY <1>1, <1>2 DEF Grown, Written
    <2>2. t[Len(s) + 1].type = "End" /\ Len(t) = Len(s) + 1
      BY <1>2, <1>3 DEF Grown, Made
    <2>. QED  BY <1>4, <2>1, <2>2
  <1>9. t[Len(t)].body = [uuid |-> "u", frame_count |-> Len(t) - 1]
    <2>1. Len(t) = Len(s) + 1 /\ t[Len(t)] = f /\ Len(t) - 1 = Len(s)
      BY <1>1, <1>2 DEF Grown
    <2>. QED  BY <1>3, <2>1 DEF Made
  <1>. QED  BY <1>7, <1>8, <1>9 DEF Closed, t, f

LEMMA OpeningWritten ==
    ASSUME NEW c, c = [source \in Endpoint \X ChannelId |->
                          IF source = <<SESSION_ACTOR_ID, SESSION_CHANNEL_ID>> THEN 2 ELSE 0]
    PROVE  Written(Opening, c)
  <1>. DEFINE f == session_frame(0, SESSION_ACTOR_ID, 0, "Session", [uuid |-> "u"])
              g == session_frame(1, COMPONENT_ACTOR_ID, 1, "StartingState", [method |-> "fresh"])
              s == Append(<<>>, f)
              t == Append(s, g)
  <1>1. Made(f, 0, SESSION_ACTOR_ID, SESSION_ACTOR_ID, SESSION_CHANNEL_ID, 0, "Session", {},
             [uuid |-> "u"])
    BY FrameMade DEF session_frame
  <1>2. Made(g, 1, SESSION_ACTOR_ID, COMPONENT_ACTOR_ID, SESSION_CHANNEL_ID, 1, "StartingState",
             {}, [method |-> "fresh"])
    BY FrameMade DEF session_frame
  <1>3. Opening = t
    BY DEF Opening
  <1>. HIDE DEF f, g
  <1>4. Sound(f) /\ Sound(g)
    BY <1>1, <1>2, Ids DEF Made, Sound, UsedTypes, EffectTypes, InputTypes, HasMarkerTuple
  <1>5. Grown(s, <<>>, f) /\ IsSeq(<<>>) /\ Len(<<>>) = 0
    BY EmptyShape, AppendShape
  <1>. HIDE DEF s
  <1>6. IsSeq(s) /\ Len(s) = 1 /\ s[1] = f
    BY <1>5 DEF Grown
  <1>7. Grown(t, s, g)
    BY <1>6, AppendShape
  <1>. HIDE DEF t
  <1>8. IsSeq(t) /\ Len(t) = 2 /\ t[1] = f /\ t[2] = g
    BY <1>6, <1>7 DEF Grown
  <1>9. \A o : CountUpTo(s, 1, o) = IF Source(f) = o THEN 1 ELSE 0
    BY <1>5, <1>6, CountGrown, CountZero
  <1>10. \A o : CountUpTo(t, 2, o) = IF Source(g) = o THEN CountUpTo(s, 1, o) + 1
                                     ELSE CountUpTo(s, 1, o)
    <2>. TAKE o
    <2>0. IsSeq(s)
      BY <1>6
    <2>1. CountUpTo(t, Len(t), o) = IF Source(g) = o THEN CountUpTo(s, Len(s), o) + 1
                                    ELSE CountUpTo(s, Len(s), o)
      BY <1>7, <2>0, CountGrown
    <2>. QED  BY <1>6, <1>8, <2>1
  <1>11. Source(f) = SessionSource /\ Source(g) = SessionSource
    BY <1>1, <1>2 DEF Made, SessionSource
  <1>12. \A i \in 1..Len(s) : FitsAt(s, i)
    <2>1. f.ordinal = 0 /\ f.seq = 0 /\ f.type = "Session"
      BY <1>1 DEF Made
    <2>2. \A i \in 1..Len(<<>>) : FitsAt(<<>>, i)
      BY <1>5
    <2>3. CountUpTo(<<>>, 0, Source(f)) = 0
      BY CountZero
    <2>. QED  BY <1>4, <1>5, <2>1, <2>2, <2>3, FitsGrown
  <1>13. \A i \in 1..Len(t) : FitsAt(t, i)
    <2>1. g.ordinal = 1 /\ g.seq = 1 /\ g.type = "StartingState"
      BY <1>2 DEF Made
    <2>2. CountUpTo(s, Len(s), Source(g)) = 1
      BY <1>6, <1>9, <1>11
    <2>3. /\ g.ordinal = Len(s) /\ g.seq = CountUpTo(s, Len(s), Source(g))
          /\ g.type = "Session" <=> Len(s) = 0
      BY <1>6, <2>1, <2>2
    <2>. QED  BY <1>4, <1>6, <1>7, <1>12, <2>3, FitsGrown
  <1>14. Begun(t)
    BY <1>1, <1>2, <1>8, <1>13 DEF Begun, Made
  <1>15. \A i \in 1..Len(t) : t[i].type # "End"
    <2>1. \A i \in 1..Len(t) : i = 1 \/ i = 2
      BY <1>8
    <2>. QED  BY <1>1, <1>2, <1>8, <2>1 DEF Made
  <1>16. \A o \in Endpoint \X ChannelId : c[o] = CountUpTo(t, Len(t), o)
    BY <1>8, <1>9, <1>10, <1>11 DEF SessionSource
  <1>. QED  BY <1>3, <1>14, <1>15, <1>16 DEF Written

LEMMA StepEmits ==
    ASSUME NEW in, Step(in)
    PROVE  Emitted(outcome'.effects)
  <1>1. ASSUME NEW cb, NEW es, NEW progress, Consume(cb, es, progress), Emitted(es)
        PROVE  Emitted(outcome'.effects)
    BY <1>1 DEF Consume
  <1>2. ASSUME NEW how, NotApplied(in, how) PROVE Emitted(outcome'.effects)
    BY <1>2 DEF NotApplied, Emitted
  <1>3. Emitted(<<>>)
    BY DEF Emitted
  <1>4. ASSUME NEW text PROVE Emitted(<<status_effect(text)>>)
    <2>1. Emission(status_effect(text))
      BY DEF status_effect, effect, Emission, EffectTypes, EffectChannel
    <2>. QED  BY <2>1 DEF Emitted
  <1>5. ASSUME NEW id, NEW goal
        PROVE  Emission(goal_send(id, goal)) /\ goal_send(id, goal).channel = CH_ACTION_GOAL
    BY DEF goal_send, effect, Emission, EffectTypes, EffectChannel
  <1>6. ASSUME NEW id, NEW now
        PROVE  Emission(cancel_send(id, now)) /\ cancel_send(id, now).channel = CH_ACTION_CANCEL
    BY DEF cancel_send, effect, Emission, EffectTypes, EffectChannel
  <1>7. CH_ACTION_GOAL # CH_ACTION_CANCEL
    BY DEF CH_ACTION_GOAL, CH_ACTION_CANCEL
  <1>8. CASE OnGoalCommand(in)
    BY <1>1, <1>2, <1>3, <1>8 DEF OnGoalCommand
  <1>9. CASE OnClock(in)
    <2>1. CASE PollDeadline(in)
      <3>1. \A id, now : Emitted(<<cancel_send(id, now)>>)
        BY <1>6 DEF Emitted
      <3>. QED  BY <1>1, <1>3, <1>4, <2>1, <3>1 DEF PollDeadline
    <2>2. CASE SendGoal(in)
      <3>1. \A id, goal : Emitted(<<goal_send(id, goal)>>)
        BY <1>5 DEF Emitted
      <3>2. \A id, goal, now : Emitted(<<goal_send(id, goal), cancel_send(id, now)>>)
        BY <1>5, <1>6, <1>7 DEF Emitted
      <3>. QED  BY <1>1, <2>2, <3>1, <3>2 DEF SendGoal
    <2>. QED  BY <1>2, <1>9, <2>1, <2>2 DEF OnClock
  <1>10. CASE OnGoalResponse(in)
    BY <1>1, <1>2, <1>4, <1>10 DEF OnGoalResponse
  <1>11. CASE OnResult(in)
    BY <1>1, <1>2, <1>4, <1>11 DEF OnResult
  <1>12. CASE OnCancelResponse(in)
    BY <1>1, <1>2, <1>4, <1>12 DEF OnCancelResponse
  <1>. QED  BY <1>1, <1>2, <1>3, <1>8, <1>9, <1>10, <1>11, <1>12 DEF Step

LEMMA EffectFrameSound ==
    ASSUME NEW n, NEW dst, NEW channel \in EffectChannel, NEW seq, NEW type \in EffectTypes,
           NEW flags, NEW body
    PROVE  LET f == frame(n, COMPONENT_ACTOR_ID, dst, channel, seq, type, flags, body)
           IN  /\ Sound(f) /\ f.ordinal = n /\ f.seq = seq /\ f.type = type
               /\ Source(f) = <<COMPONENT_ACTOR_ID, channel>>
               /\ Source(f) \in Endpoint \X ChannelId
  <1>. DEFINE f == frame(n, COMPONENT_ACTOR_ID, dst, channel, seq, type, flags, body)
  <1>1. Made(f, n, COMPONENT_ACTOR_ID, dst, channel, seq, type, flags, body)
    BY FrameMade
  <1>. HIDE DEF f
  <1>2. Source(f) \in Endpoint \X ChannelId
    BY <1>1, Ids DEF Made, ChannelId
  <1>3. Sound(f)
    BY <1>1 DEF Made, Sound, UsedTypes, EffectTypes, HasMarkerTuple
  <1>. QED  BY <1>1, <1>2, <1>3 DEF Made, f

LEMMA InputFrameSound ==
    ASSUME NEW n, NEW src \in Endpoint \ {SESSION_ACTOR_ID, COMPONENT_ACTOR_ID},
           NEW channel \in ChannelId, NEW seq, NEW type \in InputTypes \ {"StartingState"}, NEW body
    PROVE  LET f == frame(n, src, COMPONENT_ACTOR_ID, channel, seq, type, {}, body)
           IN  /\ Sound(f) /\ f.ordinal = n /\ f.seq = seq /\ f.type = type /\ f.src = src
               /\ Source(f) = <<src, channel>>
  <1>. DEFINE f == frame(n, src, COMPONENT_ACTOR_ID, channel, seq, type, {}, body)
  <1>1. Made(f, n, src, COMPONENT_ACTOR_ID, channel, seq, type, {}, body)
    BY FrameMade
  <1>. HIDE DEF f
  <1>2. Sound(f)
    BY <1>1 DEF Made, Sound, UsedTypes, InputTypes, EffectTypes, HasMarkerTuple
  <1>. QED  BY <1>1, <1>2 DEF Made, f

LEMMA CountingOne ==
    ASSUME NEW c, DOMAIN c = Endpoint \X ChannelId, NEW source
    PROVE  Counts(Counting1(c, source), c, source)
  BY DEF Counts, Counting1

\* The frames pushed for one effect and for two.
LEMMA PushedFew ==
    ASSUME NEW s, NEW c, NEW a, NEW b
    PROVE  /\ PushedFor(s, c, <<>>) = <<>>
           /\ PushedFor(s, c, <<a>>) = <<PushedAs(s, c, a, 1)>>
           /\ PushedFor(s, c, <<a, b>>) = <<PushedAs(s, c, a, 1), PushedAs(s, c, b, 2)>>
  <1>. DEFINE p(e, i) == PushedAs(s, c, e, i)
  <1>1. \A es : PushedFor(s, c, es) = [i \in DOMAIN es |-> p(es[i], i)]
    BY DEF PushedFor
  <1>. HIDE DEF p
  <1>2. PushedFor(s, c, <<>>) = <<>>
    BY <1>1
  <1>3. PushedFor(s, c, <<a>>) = <<p(a, 1)>>
    <2>. DEFINE f == [i \in DOMAIN <<a>> |-> p(<<a>>[i], i)]
    <2>1. f = [i \in 1..1 |-> p(a, 1)]
      OBVIOUS
    <2>2. f = <<p(a, 1)>>
      BY <2>1
    <2>. QED  BY <1>1, <2>2
  <1>4. PushedFor(s, c, <<a, b>>) = <<p(a, 1), p(b, 2)>>
    <2>. DEFINE f == [i \in DOMAIN <<a, b>> |-> p(<<a, b>>[i], i)]
    <2>1. DOMAIN f = 1..2 /\ f[1] = p(a, 1) /\ f[2] = p(b, 2) /\ f = [i \in 1..2 |-> f[i]]
      OBVIOUS
    <2>. HIDE DEF f
    <2>2. f = <<p(a, 1), p(b, 2)>>
      BY <2>1
    <2>. QED  BY <1>1, <2>2 DEF f
  <1>. QED  BY <1>2, <1>3, <1>4 DEF p

\* An effect pushed: the recorder counts it.
LEMMA WriteEffect ==
    ASSUME NEW s, NEW c, Written(s, c), NEW e, Emission(e), NEW n, n = Len(s), NEW q,
           q = c[<<COMPONENT_ACTOR_ID, e.channel>>], NEW d,
           Counts(d, c, <<COMPONENT_ACTOR_ID, e.channel>>)
    PROVE  Written(Append(s, frame(n, COMPONENT_ACTOR_ID, e.dst, e.channel, q, e.type, e.flags,
                                   e.body)), d)
  <1>. DEFINE f == frame(n, COMPONENT_ACTOR_ID, e.dst, e.channel, q, e.type, e.flags, e.body)
  <1>1. /\ Sound(f) /\ f.ordinal = n /\ f.seq = q /\ f.type = e.type
        /\ Source(f) = <<COMPONENT_ACTOR_ID, e.channel>> /\ Source(f) \in Endpoint \X ChannelId
    BY EffectFrameSound DEF Emission
  <1>. HIDE DEF f
  <1>2. f.type \notin {"Session", "End"} /\ f.type \notin InputTypes
    BY <1>1 DEF Emission, EffectTypes, InputTypes
  <1>3. f.seq = c[Source(f)] /\ Counts(d, c, Source(f))
    BY <1>1
  <1>4. Written(Append(s, f), d)
    BY <1>1, <1>2, <1>3, WriteOne
  <1>. QED  BY <1>4 DEF f

\* One turn of the recorder's loop.
LEMMA ServeWritten ==
    ASSUME NEW s, NEW c, Written(s, c), NEW es, Emitted(es),
           NEW src \in Endpoint \ {SESSION_ACTOR_ID, COMPONENT_ACTOR_ID},
           NEW channel \in ChannelId, NEW type \in InputTypes \ {"StartingState"}, NEW body,
           NEW input,
           input = frame(Len(s), src, COMPONENT_ACTOR_ID, channel, c[<<src, channel>>], type, {}, body)
    PROVE  Written(Append(s, input) \o PushedFor(s, c, es),
                   PushedCounts(c, <<src, channel>>, PushedFor(s, c, es)))
  <1>. DEFINE source == <<src, channel>>
              u == Append(s, input)
              c1 == Counting1(c, source)
              p(e, i) == PushedAs(s, c, e, i)
              out(e) == <<COMPONENT_ACTOR_ID, e.channel>>
  <1>1. /\ Sound(input) /\ input.ordinal = Len(s) /\ input.seq = c[source] /\ input.type = type
        /\ input.src = src /\ Source(input) = source
    BY InputFrameSound
  <1>2. DOMAIN c = Endpoint \X ChannelId /\ IsSeq(s) /\ Len(s) \in Nat
    BY SeqShape DEF Written, Begun
  <1>3. source \in Endpoint \X ChannelId /\ \A e : out(e) # source
    OBVIOUS
  <1>. HIDE DEF source
  <1>4. Counts(c1, c, source) /\ DOMAIN c1 = Endpoint \X ChannelId
    <2>1. Counts(c1, c, source)
      BY <1>2, CountingOne
    <2>. HIDE DEF c1
    <2>. QED  BY <2>1 DEF Counts
  <1>. HIDE DEF c1
  <1>5. Written(u, c1)
    <2>1. type \notin {"Session", "End"}
      BY DEF InputTypes
    <2>. QED  BY <1>1, <1>3, <1>4, <2>1, WriteOne
  <1>6. IsSeq(u) /\ Len(u) = Len(s) + 1
    BY <1>2, AppendShape DEF Grown
  <1>. HIDE DEF u
  <1>7. ASSUME NEW e, Emission(e)
        PROVE  /\ Source(p(e, 1)) = out(e) /\ Source(p(e, 2)) = out(e)
               /\ out(e) \in Endpoint \X ChannelId /\ c1[out(e)] = c[out(e)]
    <2>1. Source(p(e, 1)) = out(e) /\ Source(p(e, 2)) = out(e) /\ out(e) \in Endpoint \X ChannelId
      BY <1>7, EffectFrameSound DEF Emission, PushedAs
    <2>. HIDE DEF p, out
    <2>. QED  BY <1>3, <1>4, <2>1 DEF Counts
  <1>8. CASE es = <<>>
    <2>1. PushedFor(s, c, es) = <<>>
      BY <1>8, PushedFew
    <2>2. PushedCounts(c, source, <<>>) = c1
      BY DEF PushedCounts, c1, Counting1
    <2>3. u \o <<>> = u
      BY <1>6, ConcatFew
    <2>. QED  BY <1>5, <2>1, <2>2, <2>3 DEF u, source
  <1>9. ASSUME NEW a, Emission(a), es = <<a>>
        PROVE  Written(u \o PushedFor(s, c, es), PushedCounts(c, source, PushedFor(s, c, es)))
    <2>. DEFINE d == PushedCounts(c, source, <<p(a, 1)>>)
    <2>1. PushedFor(s, c, es) = <<p(a, 1)>>
      BY <1>9, PushedFew
    <2>2. u \o <<p(a, 1)>> = Append(u, p(a, 1))
      <3>. HIDE DEF p
      <3>. QED  BY <1>6, ConcatFew
    <2>3. Counts(d, c1, out(a))
      <3>1. d = [o \in DOMAIN c |-> IF o = source \/ out(a) = o THEN c[o] + 1 ELSE c[o]]
        <4>. HIDE DEF p, out
        <4>. QED  BY <1>7, <1>9 DEF PushedCounts
      <3>. HIDE DEF d, out
      <3>. QED  BY <1>2, <1>3, <1>4, <3>1 DEF Counts
    <2>. HIDE DEF d
    <2>4. Len(s) + 1 = Len(u) /\ c[out(a)] = c1[out(a)]
      BY <1>6, <1>7, <1>9
    <2>5. Written(Append(u, p(a, 1)), d)
      BY <1>5, <1>9, <2>3, <2>4, WriteEffect DEF PushedAs
    <2>. HIDE DEF p
    <2>. QED  BY <2>1, <2>2, <2>5 DEF d
  <1>10. ASSUME NEW a, NEW b, Emission(a), Emission(b), a.channel # b.channel, es = <<a, b>>
         PROVE  Written(u \o PushedFor(s, c, es), PushedCounts(c, source, PushedFor(s, c, es)))
    <2>. DEFINE c2 == Counting1(c1, out(a))
                v == Append(u, p(a, 1))
                d == PushedCounts(c, source, <<p(a, 1), p(b, 2)>>)
    <2>0. out(a) # out(b)
      BY <1>10
    <2>1. PushedFor(s, c, es) = <<p(a, 1), p(b, 2)>>
      <3>1. PushedFor(s, c, <<a, b>>) = <<p(a, 1), p(b, 2)>>
        BY PushedFew
      <3>. HIDE DEF p
      <3>. QED  BY <1>10, <3>1
    <2>2. u \o <<p(a, 1), p(b, 2)>> = Append(v, p(b, 2))
      <3>. HIDE DEF p
      <3>. QED  BY <1>6, ConcatFew
    <2>3. Counts(c2, c1, out(a))
      BY <1>4, CountingOne
    <2>4. Counts(d, c2, out(b))
      <3>1. d = [o \in DOMAIN c |-> IF o = source \/ out(a) = o \/ out(b) = o
                                    THEN c[o] + 1 ELSE c[o]]
        <4>. HIDE DEF p, out
        <4>1. \A o : (\E i \in DOMAIN <<p(a, 1), p(b, 2)>> : Source(<<p(a, 1), p(b, 2)>>[i]) = o)
                     <=> (Source(p(a, 1)) = o \/ Source(p(b, 2)) = o)
          OBVIOUS
        <4>2. Source(p(a, 1)) = out(a) /\ Source(p(b, 2)) = out(b)
          BY <1>7, <1>10
        <4>. QED  BY <4>1, <4>2 DEF PushedCounts
      <3>. HIDE DEF d, out, c2
      <3>. QED  BY <1>2, <1>3, <1>4, <2>0, <2>3, <3>1 DEF Counts
    <2>. HIDE DEF c2, d
    <2>5. Len(s) + 1 = Len(u) /\ c[out(a)] = c1[out(a)]
      BY <1>6, <1>7, <1>10
    <2>6. Written(v, c2)
      BY <1>5, <1>10, <2>3, <2>5, WriteEffect DEF PushedAs
    <2>7. Len(v) = Len(s) + 2
      BY <1>2, <1>6, AppendShape DEF Grown
    <2>8. c[out(b)] = c2[out(b)]
      <3>1. c[out(b)] = c1[out(b)] /\ out(b) \in Endpoint \X ChannelId
        BY <1>7, <1>10
      <3>. HIDE DEF out
      <3>. QED  BY <2>0, <2>3, <3>1 DEF Counts
    <2>. HIDE DEF v
    <2>9. Written(Append(v, p(b, 2)), d)
      BY <1>10, <2>4, <2>6, <2>7, <2>8, WriteEffect DEF PushedAs
    <2>. HIDE DEF p
    <2>. QED  BY <2>1, <2>2, <2>9 DEF d
  <1>. QED  BY <1>8, <1>9, <1>10 DEF Emitted, u, source

LEMMA ServeKeeps ==
    ASSUME Written(recording, counters), NEW src \in Endpoint \ {SESSION_ACTOR_ID, COMPONENT_ACTOR_ID},
           NEW channel \in ChannelId, NEW type \in InputTypes \ {"StartingState"}, NEW body,
           NEW request, Serve(src, channel, type, body, request)
    PROVE  phase = "recording" /\ phase' \in {"recording", "bailed"} /\ Written(recording', counters')
  <1>. DEFINE input == frame(Len(recording), src, COMPONENT_ACTOR_ID, channel,
                             counters[<<src, channel>>], type, {}, body)
              pushed == EffectFrames(Len(recording), outcome'.effects)
  <1>1. Emitted(outcome'.effects)
    <2>1. Step(Input(input, request))
      BY DEF Serve
    <2>. QED  BY <2>1, StepEmits
  <1>2. pushed = PushedFor(recording, counters, outcome'.effects)
    BY DEF EffectFrames, PushedFor, PushedAs
  <1>3. \/ /\ recording' = Append(recording, input) \o pushed
           /\ counters' = PushedCounts(counters, <<src, channel>>, pushed)
           /\ phase' = phase
        \/ phase' = "bailed" /\ recording' = recording /\ counters' = counters
    BY DEF Serve, PushedCounts
  <1>4. phase = "recording"
    BY DEF Serve
  <1>5. Written(Append(recording, input) \o pushed, PushedCounts(counters, <<src, channel>>, pushed))
    <2>. HIDE DEF pushed
    <2>. QED  BY <1>1, <1>2, ServeWritten
  <1>6. Written(recording', counters')
    <2>1. CASE recording' = recording /\ counters' = counters
      BY <2>1
    <2>2. CASE /\ recording' = Append(recording, input) \o pushed
               /\ counters' = PushedCounts(counters, <<src, channel>>, pushed)
      <3>. HIDE DEF input, pushed
      <3>. QED  BY <1>5, <2>2
    <2>. QED  BY <1>3, <2>1, <2>2
  <1>. QED  BY <1>3, <1>4, <1>6

LEMMA CloseKeeps ==
    ASSUME NEW frames, NEW c, Written(frames, c), Close(frames, c[SessionSource])
    PROVE  phase' = "closed" /\ Closed(recording')
  BY WriteEnd DEF Close

LEMMA RecordKeeps ==
    ASSUME Written(recording, counters), RecordNext
    PROVE  /\ phase = "recording"
           /\ \/ phase' \in {"recording", "bailed"} /\ Written(recording', counters')
              \/ phase' = "closed" /\ Closed(recording')
  <1>1. /\ ACTOR_COMMAND \in Endpoint \ {SESSION_ACTOR_ID, COMPONENT_ACTOR_ID}
        /\ ACTOR_CLOCK \in Endpoint \ {SESSION_ACTOR_ID, COMPONENT_ACTOR_ID}
        /\ ACTOR_ACTION_SERVER \in Endpoint \ {SESSION_ACTOR_ID, COMPONENT_ACTOR_ID}
        /\ CH_GOAL_COMMAND \in ChannelId /\ CH_CLOCK \in ChannelId /\ CH_ACTION_RESPONSE \in ChannelId
        /\ {"Message", "Clock", "GoalResponse", "Result", "CancelResponse"}
              \subseteq InputTypes \ {"StartingState"}
    BY DEF Endpoint, ChannelId, ACTOR_COMMAND, ACTOR_CLOCK, ACTOR_ACTION_SERVER, SESSION_ACTOR_ID,
           COMPONENT_ACTOR_ID, InputTypes
  <1>2. ASSUME NEW goal, ServeCommand(goal)
        PROVE  phase = "recording" /\ phase' \in {"recording", "bailed"}
               /\ Written(recording', counters')
    BY <1>1, <1>2, ServeKeeps DEF ServeCommand
  <1>3. ASSUME NEW value, ServeClock(value)
        PROVE  phase = "recording" /\ phase' \in {"recording", "bailed"}
               /\ Written(recording', counters')
    BY <1>1, <1>3, ServeKeeps DEF ServeClock
  <1>4. ASSUME NEW accepted, ServeGoalResponse(accepted)
        PROVE  phase = "recording" /\ phase' \in {"recording", "bailed"}
               /\ Written(recording', counters')
    BY <1>1, <1>4, ServeKeeps DEF ServeGoalResponse
  <1>5. ASSUME ServeResult
        PROVE  phase = "recording" /\ phase' \in {"recording", "bailed"}
               /\ Written(recording', counters')
    BY <1>1, <1>5, ServeKeeps DEF ServeResult
  <1>6. ASSUME ServeCancelResponse
        PROVE  phase = "recording" /\ phase' \in {"recording", "bailed"}
               /\ Written(recording', counters')
    BY <1>1, <1>6, ServeKeeps DEF ServeCancelResponse
  <1>7. ASSUME RecordGap PROVE phase = "recording" /\ phase' = "closed" /\ Closed(recording')
    <2>. DEFINE f == session_frame(Len(recording), SESSION_ACTOR_ID, SessionCount, "Gap",
                                   [lost_known |-> TRUE])
                d == Counting1(counters, SessionSource)
    <2>1. Made(f, Len(recording), SESSION_ACTOR_ID, SESSION_ACTOR_ID, SESSION_CHANNEL_ID,
               SessionCount, "Gap", {}, [lost_known |-> TRUE])
      BY FrameMade DEF session_frame
    <2>. HIDE DEF f
    <2>2. Sound(f)
      BY <2>1, Ids DEF Made, Sound, UsedTypes, EffectTypes, HasMarkerTuple, GapFlagMatches
    <2>3. /\ Source(f) = SessionSource /\ SessionSource \in Endpoint \X ChannelId
          /\ f.type \notin {"Session", "End"} /\ f.type \notin InputTypes
          /\ f.seq = counters[SessionSource] /\ f.ordinal = Len(recording)
      BY <2>1, Ids DEF Made, SessionSource, SessionCount, InputTypes
    <2>4. DOMAIN counters = Endpoint \X ChannelId
      BY DEF Written
    <2>5. Counts(d, counters, SessionSource)
      BY <2>4, CountingOne
    <2>6. d[SessionSource] = SessionCount + 1
      BY <2>3, <2>4 DEF Counting1, SessionCount, SessionSource
    <2>. HIDE DEF d
    <2>7. Written(Append(recording, f), d)
      BY <2>2, <2>3, <2>5, WriteOne
    <2>8. phase = "recording" /\ Close(Append(recording, f), d[SessionSource])
      BY <1>7, <2>6 DEF RecordGap, f
    <2>. QED  BY <2>7, <2>8, CloseKeeps
  <1>8. ASSUME RecordEnd PROVE phase = "recording" /\ phase' = "closed" /\ Closed(recording')
    <2>1. phase = "recording" /\ Close(recording, counters[SessionSource])
      BY <1>8 DEF RecordEnd, SessionCount, SessionSource
    <2>. QED  BY <2>1, CloseKeeps
  <1>. QED  BY <1>2, <1>3, <1>4, <1>5, <1>6, <1>7, <1>8 DEF RecordNext

-----------------------------------------------------------------------------
(***************************************************************************)
(* The replayed stream.                                                    *)
(***************************************************************************)
LEMMA AlignedEmpty ==
    ASSUME NEW s, IsSeq(s), NEW es, es = [c \in EffectChannel |-> 0]
    PROVE  Aligned(s, <<>>, 0, es)
  <1>1. IsSeq(<<>>) /\ Len(<<>>) = 0
    BY EmptyShape
  <1>2. Streams(<<>>)
    BY <1>1 DEF Streams
  <1>3. Counted(s, <<>>, 0, es)
    BY <1>1, CountZero DEF Counted
  <1>4. Passed(s, <<>>, 0)
    BY <1>1, InputsEmpty, InputsToZero DEF Passed
  <1>. QED  BY <1>2, <1>3, <1>4 DEF Aligned

\* A recorded effect is passed over.
LEMMA AlignedSkip ==
    ASSUME NEW s, IsSeq(s), NEW n \in 2..Len(s), FitsAt(s, n), IsEmit(s[n]), NEW frames, NEW es,
           Aligned(s, frames, n - 1, es)
    PROVE  Aligned(s, frames, n, es)
  <1>1. n \in 1..Len(s) /\ n - 1 \in Nat /\ n - 1 # 0 /\ n # 0 /\ (n - 1) + 1 = n
    BY SeqShape
  <1>2. s[n].src = COMPONENT_ACTOR_ID
    BY KindsUsed DEF FitsAt, Sound
  <1>3. Counted(s, frames, n, es)
    <2>1. ASSUME NEW src, NEW channel, src # COMPONENT_ACTOR_ID
          PROVE  CountUpTo(s, n, <<src, channel>>) = CountUpTo(s, n - 1, <<src, channel>>)
      <3>1. Source(s[(n - 1) + 1]) # <<src, channel>>
        BY <1>1, <1>2, <2>1 DEF Source
      <3>2. CountUpTo(s, (n - 1) + 1, <<src, channel>>) = CountUpTo(s, n - 1, <<src, channel>>)
        BY <1>1, <3>1, CountStep
      <3>. QED  BY <1>1, <3>2
    <2>. QED  BY <2>1 DEF Aligned, Counted
  <1>4. InputsTo(s, n) = InputsTo(s, n - 1)
    BY <1>1, InputsToStep
  <1>5. Passed(s, frames, n)
    <2>1. \A j \in 1..(n - 1) : j \in 1..n
      BY <1>1
    <2>. QED  BY <1>1, <1>4, <2>1 DEF Aligned, Passed
  <1>. QED  BY <1>3, <1>5 DEF Aligned

\* The frames grow by one that fits.
LEMMA StreamsGrown ==
    ASSUME NEW frames, Streams(frames), NEW f, Sound(f), f.ordinal = Len(frames),
           f.seq = CountUpTo(frames, Len(frames), Source(f)), f.type \notin {"Gap", "End"},
           f.type = "Session" <=> Len(frames) = 0
    PROVE  Streams(Append(frames, f))
  <1>. DEFINE t == Append(frames, f)
  <1>1. IsSeq(frames) /\ Len(frames) \in Nat
    BY SeqShape DEF Streams
  <1>2. Grown(t, frames, f)
    BY <1>1, AppendShape
  <1>. HIDE DEF t
  <1>3. \A i \in 1..Len(t) : FitsAt(t, i)
    <2>1. \A i \in 1..Len(frames) : FitsAt(frames, i)
      BY DEF Streams
    <2>. QED  BY <1>1, <1>2, <2>1, FitsGrown
  <1>4. \A i \in 1..Len(t) : t[i].type \notin {"Gap", "End"}
    <2>1. \A i \in 1..Len(t) : i \in 1..Len(frames) \/ i = Len(frames) + 1
      BY <1>1, <1>2 DEF Grown
    <2>. QED  BY <1>2, <2>1 DEF Grown, Streams
  <1>. QED  BY <1>2, <1>3, <1>4 DEF Streams, Grown, t

\* A recorded input is pushed: it takes the place it has among the frames.
LEMMA AlignedInput ==
    ASSUME NEW s, Begun(s), NEW n \in 1..Len(s), s[n].type \in {"Session"} \cup InputTypes,
           NEW frames, NEW es, Aligned(s, frames, n - 1, es)
    PROVE  Aligned(s, push(frames, s[n]), n, es)
  <1>. DEFINE f == s[n]
              g == [f EXCEPT !.ordinal = Len(frames), !.observed_ns = 0]
              t == Append(frames, g)
  <1>1. IsSeq(s) /\ Len(s) \in Nat /\ FitsAt(s, n) /\ s[1].body = [uuid |-> "u"]
    BY SeqShape DEF Begun
  <1>2. IsSeq(frames) /\ Len(frames) \in Nat /\ Streams(frames)
    BY SeqShape DEF Aligned, Streams
  <1>3. n - 1 \in Nat /\ (n - 1) + 1 = n /\ n # 0
    OBVIOUS
  <1>4. Sound(g) /\ g.ordinal = Len(frames) /\ Relabelled(g, f)
    BY <1>1, PushMade DEF FitsAt
  <1>. HIDE DEF g
  <1>5. Grown(t, frames, g)
    BY <1>2, AppendShape
  <1>6. /\ f.type \notin EffectTypes /\ ~IsEmit(f) /\ f.type \notin {"Gap", "End"}
        /\ f.src # COMPONENT_ACTOR_ID
    <2>1. f.type \notin EffectTypes /\ f.type \notin {"Gap", "End"} /\ f.type \in UsedTypes
      BY DEF InputTypes, EffectTypes, UsedTypes
    <2>. QED  BY <1>1, <2>1, KindsUsed DEF FitsAt, Sound
  <1>. HIDE DEF t
  <1>7. g.seq = CountUpTo(frames, Len(frames), Source(g))
    <2>1. f.seq = CountUpTo(s, n - 1, <<f.src, f.channel>>)
      BY <1>1 DEF FitsAt, Source
    <2>2. CountUpTo(frames, Len(frames), <<f.src, f.channel>>)
            = CountUpTo(s, n - 1, <<f.src, f.channel>>)
      BY <1>6 DEF Aligned, Counted
    <2>3. g.seq = f.seq /\ Source(g) = <<f.src, f.channel>>
      BY <1>4 DEF Relabelled, Source
    <2>. QED  BY <2>1, <2>2, <2>3
  <1>8. g.type = "Session" <=> Len(frames) = 0
    <2>1. f.type = "Session" <=> n - 1 = 0
      BY <1>1 DEF FitsAt
    <2>2. n - 1 = 0 <=> frames = <<>>
      BY DEF Aligned, Passed
    <2>3. frames = <<>> <=> Len(frames) = 0
      BY <1>2, EmptyShape, SameSeq
    <2>. QED  BY <1>4, <2>1, <2>2, <2>3 DEF Relabelled
  <1>9. Streams(t)
    <2>1. g.type \notin {"Gap", "End"}
      BY <1>4, <1>6 DEF Relabelled
    <2>. QED  BY <1>2, <1>4, <1>7, <1>8, <2>1, StreamsGrown DEF t
  <1>10. \A o : CountUpTo(t, Len(t), o) = IF Source(f) = o
                                          THEN CountUpTo(frames, Len(frames), o) + 1
                                          ELSE CountUpTo(frames, Len(frames), o)
    <2>. TAKE o
    <2>1. CountUpTo(t, Len(t), o) = IF Source(g) = o
                                    THEN CountUpTo(frames, Len(frames), o) + 1
                                    ELSE CountUpTo(frames, Len(frames), o)
      BY <1>2, <1>5, CountGrown
    <2>. QED  BY <1>4, <2>1 DEF Relabelled
  <1>11. \A o : CountUpTo(s, n, o) = IF Source(f) = o THEN CountUpTo(s, n - 1, o) + 1
                                     ELSE CountUpTo(s, n - 1, o)
    <2>. TAKE o
    <2>1. CountUpTo(s, (n - 1) + 1, o) = IF Source(s[(n - 1) + 1]) = o
                                         THEN CountUpTo(s, n - 1, o) + 1
                                         ELSE CountUpTo(s, n - 1, o)
      BY <1>3, CountStep
    <2>. QED  BY <1>3, <2>1
  <1>12. Counted(s, t, n, es)
    <2>1. ASSUME NEW src, NEW channel, src # COMPONENT_ACTOR_ID
          PROVE  CountUpTo(t, Len(t), <<src, channel>>) = CountUpTo(s, n, <<src, channel>>)
      <3>1. CountUpTo(frames, Len(frames), <<src, channel>>) = CountUpTo(s, n - 1, <<src, channel>>)
        BY <2>1 DEF Aligned, Counted
      <3>. QED  BY <1>10, <1>11, <3>1
    <2>2. ASSUME NEW c \in EffectChannel
          PROVE  CountUpTo(t, Len(t), <<COMPONENT_ACTOR_ID, c>>) = es[c]
      <3>1. Source(f) # <<COMPONENT_ACTOR_ID, c>>
        BY <1>6 DEF Source
      <3>2. CountUpTo(frames, Len(frames), <<COMPONENT_ACTOR_ID, c>>) = es[c]
        BY DEF Aligned, Counted
      <3>. QED  BY <1>10, <3>1, <3>2
    <2>3. es \in [EffectChannel -> Nat]
      BY DEF Aligned, Counted
    <2>. QED  BY <2>1, <2>2, <2>3 DEF Counted
  <1>13. Passed(s, t, n)
    <2>1. Inputs(t) = Append(Inputs(frames), Content(g))
      <3>1. ~IsEmit(g) /\ g.type # "End"
        BY <1>4, <1>6 DEF Relabelled, IsEmit
      <3>. QED  BY <1>2, <3>1, InputsGrown DEF t
    <2>2. InputsTo(s, n) = Append(InputsTo(s, n - 1), Content(f))
      BY <1>1, <1>6, InputsToStep
    <2>3. Inputs(t) = InputsTo(s, n)
      BY <1>4, <2>1, <2>2 DEF Relabelled, Aligned, Passed
    <2>4. ASSUME NEW i \in 1..Len(t), t[i].type \notin EffectTypes
          PROVE  \E j \in 1..n : Content(t[i]) = Content(s[j])
      <3>1. CASE i \in 1..Len(frames)
        <4>1. t[i] = frames[i]
          BY <1>5, <3>1 DEF Grown
        <4>2. PICK j \in 1..(n - 1) : Content(frames[i]) = Content(s[j])
          BY <2>4, <3>1, <4>1 DEF Aligned, Passed
        <4>3. j \in 1..n
          OBVIOUS
        <4>. QED  BY <4>1, <4>2, <4>3
      <3>2. CASE i = Len(frames) + 1
        <4>1. Content(t[i]) = Content(s[n]) /\ n \in 1..n
          BY <1>4, <1>5, <3>2 DEF Grown, Relabelled
        <4>. QED  BY <4>1
      <3>. QED  BY <1>2, <1>5, <3>1, <3>2 DEF Grown
    <2>5. t # <<>> /\ t[1].body = [uuid |-> "u"]
      <3>1. t # <<>>
        BY <1>2, <1>5, EmptyShape DEF Grown
      <3>2. CASE n - 1 = 0
        <4>1. Len(frames) = 0 /\ n = 1
          BY <3>2, EmptyShape DEF Aligned, Passed
        <4>. QED  BY <1>1, <1>4, <1>5, <3>1, <4>1 DEF Grown, Relabelled
      <3>3. CASE n - 1 # 0
        <4>1. frames # <<>> /\ frames[1].body = [uuid |-> "u"]
          BY <3>3 DEF Aligned, Passed
        <4>2. Len(frames) # 0
          BY <1>2, <4>1, EmptyShape, SameSeq
        <4>3. t[1] = frames[1]
          BY <1>2, <1>5, <4>2 DEF Grown
        <4>. QED  BY <3>1, <4>1, <4>3
      <3>. QED  BY <3>2, <3>3
    <2>. QED  BY <1>3, <2>3, <2>4, <2>5 DEF Passed
  <1>. QED  BY <1>9, <1>12, <1>13 DEF Aligned, t, g, push

\* What push makes of an effect's line.
LEMMA EffectPushed ==
    ASSUME NEW e, Emission(e), NEW n
    PROVE  LET g == [EffectFrame(e) EXCEPT !.ordinal = n, !.observed_ns = 0]
           IN  /\ Sound(g) /\ g.ordinal = n /\ g.seq = e.seq /\ g.type = e.type
               /\ Source(g) = <<COMPONENT_ACTOR_ID, e.channel>>
  <1>. DEFINE f == EffectFrame(e)
              g == [f EXCEPT !.ordinal = n, !.observed_ns = 0]
  <1>1. /\ Sound(f) /\ f.seq = e.seq /\ f.type = e.type
        /\ Source(f) = <<COMPONENT_ACTOR_ID, e.channel>>
    BY EffectFrameSound DEF EffectFrame, Emission
  <1>. HIDE DEF f
  <1>2. Sound(g) /\ g.ordinal = n /\ Relabelled(g, f)
    BY <1>1, PushMade
  <1>. HIDE DEF g
  <1>. QED  BY <1>1, <1>2 DEF Relabelled, f, g

\* An effect is pushed: the component's counters count it.
LEMMA AlignedEffect ==
    ASSUME NEW s, NEW n, n # 0, NEW frames, NEW es, Aligned(s, frames, n, es),
           NEW e, Emission(e), e.seq = es[e.channel]
    PROVE  Aligned(s, push(frames, EffectFrame(e)), n, [es EXCEPT ![e.channel] = @ + 1])
  <1>. DEFINE g == [EffectFrame(e) EXCEPT !.ordinal = Len(frames), !.observed_ns = 0]
              t == Append(frames, g)
              d == [es EXCEPT ![e.channel] = @ + 1]
              out == <<COMPONENT_ACTOR_ID, e.channel>>
  <1>1. /\ Sound(g) /\ g.ordinal = Len(frames) /\ g.seq = e.seq /\ g.type = e.type /\ Source(g) = out
    BY EffectPushed
  <1>. HIDE DEF g
  <1>2. IsSeq(frames) /\ Len(frames) \in Nat /\ Streams(frames)
    BY SeqShape DEF Aligned, Streams
  <1>3. Grown(t, frames, g)
    BY <1>2, AppendShape
  <1>4. e.channel \in EffectChannel /\ es \in [EffectChannel -> Nat]
    BY DEF Emission, Aligned, Counted
  <1>5. frames # <<>> /\ frames[1].body = [uuid |-> "u"] /\ Len(frames) # 0
    <2>1. frames # <<>> /\ frames[1].body = [uuid |-> "u"]
      BY DEF Aligned, Passed
    <2>. QED  BY <1>2, <2>1, EmptyShape, SameSeq
  <1>. HIDE DEF t
  <1>6. /\ g.type \in EffectTypes /\ IsEmit(g)
        /\ g.type \notin {"Session", "Gap", "End"}
    BY <1>1, KindsUsed DEF Emission, Sound, EffectTypes
  <1>7. Streams(t)
    <2>1. g.seq = CountUpTo(frames, Len(frames), Source(g))
      BY <1>1, <1>4 DEF Aligned, Counted
    <2>. QED  BY <1>1, <1>2, <1>5, <1>6, <2>1, StreamsGrown DEF t
  <1>8. \A o : CountUpTo(t, Len(t), o) = IF out = o THEN CountUpTo(frames, Len(frames), o) + 1
                                         ELSE CountUpTo(frames, Len(frames), o)
    <2>. TAKE o
    <2>1. CountUpTo(t, Len(t), o) = IF Source(g) = o
                                    THEN CountUpTo(frames, Len(frames), o) + 1
                                    ELSE CountUpTo(frames, Len(frames), o)
      BY <1>2, <1>3, CountGrown
    <2>. QED  BY <1>1, <2>1
  <1>9. Counted(s, t, n, d)
    <2>1. ASSUME NEW src, NEW channel, src # COMPONENT_ACTOR_ID
          PROVE  CountUpTo(t, Len(t), <<src, channel>>) = CountUpTo(s, n, <<src, channel>>)
      <3>1. CountUpTo(frames, Len(frames), <<src, channel>>) = CountUpTo(s, n, <<src, channel>>)
        BY <2>1 DEF Aligned, Counted
      <3>2. out # <<src, channel>>
        BY <2>1
      <3>. QED  BY <1>8, <3>1, <3>2
    <2>2. ASSUME NEW c \in EffectChannel
          PROVE  CountUpTo(t, Len(t), <<COMPONENT_ACTOR_ID, c>>) = d[c]
      <3>1. CountUpTo(frames, Len(frames), <<COMPONENT_ACTOR_ID, c>>) = es[c]
        BY DEF Aligned, Counted
      <3>2. out = <<COMPONENT_ACTOR_ID, c>> <=> c = e.channel
        OBVIOUS
      <3>3. d[c] = IF c = e.channel THEN es[c] + 1 ELSE es[c]
        BY <1>4
      <3>. HIDE DEF out, d
      <3>. QED  BY <1>8, <3>1, <3>2, <3>3
    <2>3. d \in [EffectChannel -> Nat]
      BY <1>4
    <2>. QED  BY <2>1, <2>2, <2>3 DEF Counted
  <1>10. Passed(s, t, n)
    <2>1. Inputs(t) = Inputs(frames)
      BY <1>2, <1>6, InputsGrown DEF t
    <2>2. \A i \in 1..Len(t) : i \in 1..Len(frames) \/ i = Len(frames) + 1
      BY <1>2, <1>3 DEF Grown
    <2>3. \A i \in 1..Len(t) : t[i].type \notin EffectTypes =>
             \E j \in 1..n : Content(t[i]) = Content(s[j])
      BY <1>3, <1>6, <2>2 DEF Grown, Aligned, Passed
    <2>4. t # <<>> /\ t[1] = frames[1]
      BY <1>2, <1>3, <1>5, EmptyShape DEF Grown
    <2>. QED  BY <1>5, <2>1, <2>3, <2>4 DEF Aligned, Passed
  <1>. QED  BY <1>7, <1>9, <1>10 DEF Aligned, t, g, push

\* What is in work stays in work.
LEMMA InWorkPushed ==
    ASSUME NEW s, Begun(s), NEW n \in 1..Len(s), s[n].type \in InputTypes, NEW frames, IsSeq(frames)
    PROVE  InWork(s, n, push(frames, s[n]))
  <1>. DEFINE g == [s[n] EXCEPT !.ordinal = Len(frames), !.observed_ns = 0]
              t == Append(frames, g)
  <1>1. Content(g) = Content(s[n])
    <2>1. Sound(s[n])
      BY DEF Begun, FitsAt
    <2>. QED  BY <2>1, PushMade DEF Relabelled
  <1>. HIDE DEF g
  <1>2. Grown(t, frames, g) /\ Len(frames) \in Nat
    BY AppendShape, SeqShape
  <1>. HIDE DEF t
  <1>3. Len(t) \in 1..Len(t) /\ t[Len(t)] = g /\ (Len(t) + 1)..Len(t) = {}
    BY <1>2 DEF Grown
  <1>. QED  BY <1>1, <1>3 DEF InWork, t, g, push

LEMMA InWorkEffect ==
    ASSUME NEW s, NEW n, NEW frames, IsSeq(frames), InWork(s, n, frames), NEW e, Emission(e)
    PROVE  InWork(s, n, push(frames, EffectFrame(e)))
  <1>. DEFINE g == [EffectFrame(e) EXCEPT !.ordinal = Len(frames), !.observed_ns = 0]
              t == Append(frames, g)
  <1>1. g.type \in EffectTypes
    BY EffectPushed DEF Emission
  <1>. HIDE DEF g
  <1>2. Grown(t, frames, g) /\ Len(frames) \in Nat
    BY AppendShape, SeqShape
  <1>. HIDE DEF t
  <1>3. PICK p \in 1..Len(frames) :
              /\ Content(frames[p]) = Content(s[n])
              /\ \A j \in (p + 1)..Len(frames) : frames[j].type \in EffectTypes
    BY DEF InWork
  <1>4. p \in 1..Len(t) /\ t[p] = frames[p]
    BY <1>2 DEF Grown
  <1>5. \A j \in (p + 1)..Len(t) : t[j].type \in EffectTypes
    <2>1. \A j \in (p + 1)..Len(t) : (j \in (p + 1)..Len(frames) /\ j \in 1..Len(frames))
                                     \/ j = Len(frames) + 1
      BY <1>2 DEF Grown
    <2>. QED  BY <1>1, <1>2, <1>3, <2>1 DEF Grown
  <1>. QED  BY <1>3, <1>4, <1>5 DEF InWork, t, g, push

\* The input in work is taken back out.
LEMMA AlignedFront ==
    ASSUME NEW s, IsSeq(s), NEW n \in 2..Len(s), FitsAt(s, n), s[n].type \in InputTypes,
           NEW frames, NEW es, Aligned(s, frames, n, es),
           Content(frames[Len(frames)]) = Content(s[n])
    PROVE  Aligned(s, Front(frames), n - 1, es)
  <1>. DEFINE u == SubSeq(frames, 1, Len(frames) - 1)
              g == frames[Len(frames)]
  <1>1. /\ IsSeq(frames) /\ Len(frames) \in Nat /\ frames # <<>> /\ Len(frames) # 0
        /\ n \in 1..Len(s) /\ n - 1 \in Nat /\ n - 1 # 0 /\ n # 0 /\ (n - 1) + 1 = n
    <2>1. n - 1 \in Nat /\ n - 1 # 0 /\ n # 0 /\ n \in 1..Len(s) /\ (n - 1) + 1 = n
      BY SeqShape
    <2>2. IsSeq(frames) /\ Len(frames) \in Nat /\ frames # <<>>
      BY <2>1, SeqShape DEF Aligned, Streams, Passed
    <2>. QED  BY <2>1, <2>2, EmptyShape, SameSeq
  <1>2. /\ Source(g) = Source(s[n]) /\ g.type = s[n].type
    BY DEF Content
  <1>3. /\ g.type \notin EffectTypes /\ ~IsEmit(g) /\ g.type \notin {"Session", "Gap", "End"}
        /\ s[n].src # COMPONENT_ACTOR_ID /\ ~IsEmit(s[n]) /\ s[n].type # "End"
    <2>1. s[n].type \in UsedTypes /\ g.type \in UsedTypes /\ g.type \in InputTypes
      BY <1>2 DEF UsedTypes
    <2>. QED  BY <1>2, <2>1, KindsUsed DEF FitsAt, Sound
  <1>4. \A i \in 1..Len(frames) : FitsAt(frames, i) /\ frames[i].type \notin {"Gap", "End"}
    BY DEF Aligned, Streams
  <1>5. Len(frames) >= 2
    <2>1. FitsAt(frames, 1)
      BY <1>1, <1>4
    <2>2. Len(frames) # 1
      BY <1>3, <2>1 DEF FitsAt
    <2>. DEFINE m == Len(frames)
    <2>3. m \in Nat /\ m # 0 /\ m # 1
      BY <1>1, <2>2
    <2>. HIDE DEF m
    <2>4. m >= 2
      BY <2>3
    <2>. QED  BY <2>4 DEF m
  <1>6. /\ IsSeq(u) /\ Len(u) = Len(frames) - 1 /\ \A i \in 1..Len(u) : u[i] = frames[i]
        /\ frames = Append(u, g)
    <2>1. Len(frames) - 1 \in 0..Len(frames) /\ Len(frames) \in 0..Len(frames) /\ Len(frames) > 0
      BY <1>1
    <2>2. Prefixed(u, frames, Len(frames) - 1)
      BY <1>1, <2>1, PrefixShape
    <2>3. SubSeq(frames, 1, Len(frames)) = Append(u, g) /\ SubSeq(frames, 1, Len(frames)) = frames
      BY <1>1, <2>1, PrefixShape
    <2>. QED  BY <2>2, <2>3 DEF Prefixed
  <1>. HIDE DEF u, g
  <1>7. Grown(frames, u, g)
    BY <1>6, AppendShape
  <1>8. Streams(u)
    <2>1. Len(u) \in Nat /\ \A i \in 1..Len(u) : FitsAt(frames, i)
      BY <1>1, <1>4, <1>6
    <2>2. \A i \in 1..Len(u) : FitsAt(u, i)
      BY <1>6, <2>1, FitsPrefix
    <2>3. \A i \in 1..Len(u) : u[i].type \notin {"Gap", "End"}
      BY <1>1, <1>4, <1>6
    <2>. QED  BY <1>6, <2>2, <2>3 DEF Streams
  <1>9. \A o : /\ CountUpTo(frames, Len(frames), o) = IF Source(g) = o
                                                     THEN CountUpTo(u, Len(u), o) + 1
                                                     ELSE CountUpTo(u, Len(u), o)
               /\ CountUpTo(u, Len(u), o) \in Nat
    <2>. TAKE o
    <2>0. IsSeq(u) /\ Len(u) \in Nat
      BY <1>6, SeqShape
    <2>1. CountUpTo(frames, Len(frames), o) = IF Source(g) = o THEN CountUpTo(u, Len(u), o) + 1
                                              ELSE CountUpTo(u, Len(u), o)
      BY <1>7, <2>0, CountGrown
    <2>2. CountUpTo(u, Len(u), o) \in Nat
      BY <2>0, CountType
    <2>. QED  BY <2>1, <2>2
  <1>10. \A o : /\ CountUpTo(s, n, o) = IF Source(g) = o THEN CountUpTo(s, n - 1, o) + 1
                                        ELSE CountUpTo(s, n - 1, o)
                /\ CountUpTo(s, n - 1, o) \in Nat
    <2>. TAKE o
    <2>1. CountUpTo(s, (n - 1) + 1, o) = IF Source(s[(n - 1) + 1]) = o
                                         THEN CountUpTo(s, n - 1, o) + 1
                                         ELSE CountUpTo(s, n - 1, o)
      BY <1>1, CountStep
    <2>2. CountUpTo(s, n - 1, o) \in Nat
      BY <1>1, CountType
    <2>. QED  BY <1>1, <1>2, <2>1, <2>2
  <1>11. Counted(s, u, n - 1, es)
    <2>1. ASSUME NEW src, NEW channel, src # COMPONENT_ACTOR_ID
          PROVE  CountUpTo(u, Len(u), <<src, channel>>) = CountUpTo(s, n - 1, <<src, channel>>)
      <3>1. CountUpTo(frames, Len(frames), <<src, channel>>) = CountUpTo(s, n, <<src, channel>>)
        BY <2>1 DEF Aligned, Counted
      <3>. DEFINE o == <<src, channel>>
      <3>2. CountUpTo(frames, Len(frames), o) = CountUpTo(s, n, o)
        BY <3>1
      <3>. HIDE DEF o
      <3>3. CountUpTo(u, Len(u), o) = CountUpTo(s, n - 1, o)
        BY <1>9, <1>10, <3>2
      <3>. QED  BY <3>3 DEF o
    <2>2. ASSUME NEW c \in EffectChannel
          PROVE  CountUpTo(u, Len(u), <<COMPONENT_ACTOR_ID, c>>) = es[c]
      <3>1. Source(g) # <<COMPONENT_ACTOR_ID, c>>
        BY <1>2, <1>3 DEF Source
      <3>2. CountUpTo(frames, Len(frames), <<COMPONENT_ACTOR_ID, c>>) = es[c]
        BY DEF Aligned, Counted
      <3>. QED  BY <1>9, <3>1, <3>2
    <2>3. es \in [EffectChannel -> Nat]
      BY DEF Aligned, Counted
    <2>. QED  BY <2>1, <2>2, <2>3 DEF Counted
  <1>12. Inputs(u) = InputsTo(s, n - 1)
    <2>1. Inputs(Append(u, g)) = Append(Inputs(u), Content(g)) /\ IsSeq(Inputs(u))
      BY <1>3, <1>6, InputsGrown
    <2>2. InputsTo(s, n) = Append(InputsTo(s, n - 1), Content(s[n])) /\ IsSeq(InputsTo(s, n - 1))
      BY <1>1, <1>3, InputsToStep
    <2>3. Inputs(frames) = InputsTo(s, n)
      BY DEF Aligned, Passed
    <2>4. Inputs(frames) = Append(Inputs(u), Content(g))
      BY <1>6, <2>1
    <2>5. Inputs(frames) = Append(InputsTo(s, n - 1), Content(g))
      BY <2>2, <2>3 DEF g
    <2>6. Grown(Inputs(frames), Inputs(u), Content(g))
      BY <2>1, <2>4, AppendShape
    <2>7. Grown(Inputs(frames), InputsTo(s, n - 1), Content(g))
      BY <2>2, <2>5, AppendShape
    <2>. QED  BY <2>1, <2>2, <2>6, <2>7, GrownInjective
  <1>13. ASSUME NEW i \in 1..Len(u), u[i].type \notin EffectTypes
         PROVE  \E j \in 1..(n - 1) : Content(u[i]) = Content(s[j])
    <2>1. /\ i \in 1..Len(frames) /\ u[i] = frames[i] /\ i < Len(frames) /\ i \in Nat \ {0}
          /\ Len(frames) \in 1..Len(frames)
      BY <1>1, <1>6
    <2>2. PICK j \in 1..n : Content(frames[i]) = Content(s[j])
      BY <1>13, <2>1 DEF Aligned, Passed
    <2>3. Content(frames[i]) # Content(frames[Len(frames)])
      BY <1>1, <1>4, <2>1, ContentsDiffer
    <2>4. j # n
      BY <2>2, <2>3
    <2>5. j \in 1..(n - 1)
      BY <1>1, <2>4
    <2>. QED  BY <2>1, <2>2, <2>5
  <1>14. u # <<>> /\ u[1].body = [uuid |-> "u"]
    <2>1. Len(u) # 0 /\ u[1] = frames[1]
      BY <1>1, <1>5, <1>6
    <2>2. frames[1].body = [uuid |-> "u"]
      BY <1>1 DEF Aligned, Passed
    <2>. QED  BY <2>1, <2>2, EmptyShape
  <1>15. Passed(s, u, n - 1)
    BY <1>1, <1>12, <1>13, <1>14 DEF Passed
  <1>. QED  BY <1>8, <1>11, <1>15 DEF Aligned, Front, u

\* The ordinal of the input in work is its place.
LEMMA WorkOrdinal ==
    ASSUME NEW k, InWork(recording, k, run.frames), Streams(run.frames)
    PROVE  \E p \in 1..Len(run.frames) :
              /\ Content(run.frames[p]) = Content(recording[k])
              /\ \A j \in (p + 1)..Len(run.frames) : run.frames[j].type \in EffectTypes
              /\ ReplayedOrdinal = p - 1
  <1>. DEFINE frames == run.frames
  <1>1. PICK p \in 1..Len(frames) :
              /\ Content(frames[p]) = Content(recording[k])
              /\ \A j \in (p + 1)..Len(frames) : frames[j].type \in EffectTypes
    BY DEF InWork
  <1>2. /\ Len(frames) \in Nat /\ DOMAIN frames = 1..Len(frames)
        /\ \A i \in 1..Len(frames) : FitsAt(frames, i)
    BY SeqShape DEF Streams
  <1>3. \A i \in 1..Len(frames) : IsEmit(frames[i]) <=> frames[i].type \in EffectTypes
    BY <1>2, KindsUsed DEF FitsAt, Sound
  <1>4. frames[p].type \in InputTypes /\ frames[p].type \notin EffectTypes
    BY <1>1 DEF Content, InWork, InputTypes, EffectTypes
  <1>5. p \in Delivered /\ \A j \in Delivered : j <= p
    <2>1. p \in Delivered
      BY <1>2, <1>3, <1>4 DEF Delivered
    <2>2. ASSUME NEW j \in Delivered PROVE j <= p
      <3>1. j \in 1..Len(frames) /\ frames[j].type \notin EffectTypes
        BY <1>2, <1>3 DEF Delivered
      <3>2. j \notin (p + 1)..Len(frames)
        BY <1>1, <3>1
      <3>. QED  BY <1>2, <3>1, <3>2
    <2>. QED  BY <2>1, <2>2
  <1>6. (CHOOSE i \in Delivered : \A j \in Delivered : j <= i) = p
    <2>. DEFINE c == CHOOSE i \in Delivered : \A j \in Delivered : j <= i
    <2>1. c \in Delivered /\ \A j \in Delivered : j <= c
      BY <1>5
    <2>2. c \in Nat
      BY <1>2, <2>1 DEF Delivered
    <2>. HIDE DEF c
    <2>3. c <= p /\ p <= c
      BY <1>5, <2>1
    <2>4. c = p
      BY <1>2, <2>2, <2>3
    <2>. QED  BY <2>4 DEF c
  <1>7. ReplayedOrdinal = p - 1
    BY <1>2, <1>6 DEF ReplayedOrdinal, FitsAt
  <1>. QED  BY <1>1, <1>7

-----------------------------------------------------------------------------
(***************************************************************************)
(* The invariant is kept: steps common to several actions.                 *)
(***************************************************************************)
\* A replay under way has a recording to read and knows where it is in it.
LEMMA Reading ==
    ASSUME IInv, Started \/ phase = "starting"
    PROVE  /\ Closed(recording) /\ Begun(recording) /\ IsSeq(recording) /\ Len(recording) \in Nat
           /\ \A i \in 1..Len(recording) : FitsAt(recording, i)
           /\ cursor \in 1..Len(recording) /\ cursor - 1 \in 0..Len(recording)
           /\ IsRun(run) /\ IsSeq(run.steps)
  <1>1. ~Recording
    BY DEF Recording, Started
  <1>2. Closed(recording) /\ Begun(recording)
    BY <1>1 DEF IInv, RecordingInv, Closed
  <1>3. IsSeq(recording) /\ Len(recording) \in Nat /\ \A i \in 1..Len(recording) : FitsAt(recording, i)
    BY <1>2, SeqShape DEF Begun
  <1>4. cursor \in 1..Len(recording)
    BY DEF IInv, CursorInv
  <1>5. cursor - 1 \in 0..Len(recording)
    BY <1>3, <1>4
  <1>6. IsRun(run) /\ IsSeq(run.steps)
    BY DEF IInv, CursorInv, Refusals
  <1>. QED  BY <1>2, <1>3, <1>4, <1>5, <1>6

\* What has been delivered so far is evidence already.
LEMMA Evident ==
    ASSUME IInv, Started \/ phase = "starting", NEW frames, Inputs(frames) = Inputs(run.frames)
    PROVE  Evidence(recording, frames, run.steps)
  <1>1. /\ IsSeq(recording) /\ \A i \in 1..Len(recording) : FitsAt(recording, i)
        /\ IsSeq(run.steps) /\ Len(recording) \in Nat /\ cursor \in 1..Len(recording)
    BY Reading
  <1>2. CASE phase = "starting"
    <2>1. run.frames = <<>> /\ run.steps = <<>>
      BY <1>2 DEF IInv, CursorInv, Fresh, Started, Over
    <2>2. Inputs(frames) = InputsTo(recording, 0) /\ 0 \in 0..Len(recording)
      BY <1>1, <2>1, InputsEmpty, InputsToZero
    <2>3. Len(run.steps) = 0
      BY <2>1, EmptyShape
    <2>4. \A i \in 1..Len(run.steps) : run.steps[i].status = "Refused" =>
              /\ run.steps[i].recorded \in Nat /\ 0 <= run.steps[i].recorded
              /\ run.steps[i].recorded + 1 <= Len(recording)
      BY <2>3
    <2>5. \A j \in 1..0 : recording[j].type # "Gap"
      OBVIOUS
    <2>. QED  BY <1>1, <2>2, <2>4, <2>5, EvidenceUpTo
  <1>3. CASE Started
    <2>. DEFINE n == Reached
    <2>1. n \in 0..Len(recording) /\ \A j \in 1..n : recording[j].type # "Gap"
      <3>1. CASE phase = "stepping" \/ verdict # {}
        <4>1. n = cursor /\ recording[cursor].type \in InputTypes
          BY <1>3, <3>1 DEF Reached, IInv, Working, CursorInv, InWork
        <4>2. \A j \in 1..n : j \in 1..(cursor - 1) \/ j = cursor
          BY <1>1, <4>1
        <4>3. \A j \in 1..(cursor - 1) : recording[j].type # "Gap"
          BY DEF IInv, CursorInv
        <4>4. recording[cursor].type # "Gap"
          BY <4>1 DEF InputTypes
        <4>. HIDE DEF n
        <4>. QED  BY <1>1, <4>1, <4>2, <4>3, <4>4
      <3>2. CASE ~(phase = "stepping" \/ verdict # {})
        <4>1. n = cursor - 1
          BY <3>2 DEF Reached
        <4>2. \A j \in 1..(cursor - 1) : recording[j].type # "Gap"
          BY DEF IInv, CursorInv
        <4>. HIDE DEF n
        <4>. QED  BY <1>1, <4>1, <4>2
      <3>. QED  BY <3>1, <3>2
    <2>2. Inputs(frames) = InputsTo(recording, n)
      BY <1>3 DEF IInv, ReplayInv, Aligned, Passed
    <2>3. \A i \in 1..Len(run.steps) : run.steps[i].status = "Refused" =>
              /\ run.steps[i].recorded \in Nat /\ n <= run.steps[i].recorded
              /\ run.steps[i].recorded + 1 <= Len(recording)
      <3>. SUFFICES ASSUME NEW i \in 1..Len(run.steps), run.steps[i].status = "Refused"
                    PROVE  /\ run.steps[i].recorded \in Nat /\ n <= run.steps[i].recorded
                           /\ run.steps[i].recorded + 1 <= Len(recording)
        OBVIOUS
      <3>1. /\ phase \in {"stopping", "finishing", "reaping"} /\ verdict = {}
            /\ run.steps[i].recorded = cursor - 1
        BY <1>3 DEF IInv, Refusals
      <3>2. n = cursor - 1
        BY <3>1 DEF Reached
      <3>. HIDE DEF n
      <3>. QED  BY <1>1, <3>1, <3>2
    <2>. HIDE DEF n
    <2>. QED  BY <1>1, <2>1, <2>2, <2>3, EvidenceUpTo
  <1>. QED  BY <1>2, <1>3

\* The replay is over: what it has delivered is what it leaves.
LEMMA OverKeeps ==
    ASSUME IInv, Started \/ phase = "starting", Over',
           recording' = recording, cursor' = cursor, IsRun(run'), run'.steps = run.steps,
           Inputs(run'.frames) = Inputs(run.frames),
           phase' = "done" => WellFormed(run'.frames)
    PROVE  IInv'
  <1>1. ~Recording' /\ ~Started' /\ phase' # "stepping"
    BY DEF Over, Recording, Started
  <1>2. RecordingInv'
    BY <1>1, Reading DEF RecordingInv
  <1>3. CursorInv'
    BY <1>1, Reading DEF CursorInv, IInv
  <1>4. ReplayInv' /\ Working'
    BY <1>1 DEF ReplayInv, Working
  <1>5. Refusals'
    BY <1>1, Reading DEF Refusals
  <1>6. EvidenceIsPrefix'
    <2>1. Evidence(recording, run'.frames, run.steps)
      BY Evident
    <2>2. Evidence(recording', run'.frames, run'.steps)
      BY <2>1
    <2>. QED  BY <2>2 DEF Evidence, EvidenceIsPrefix
  <1>. QED  BY <1>2, <1>3, <1>4, <1>5, <1>6 DEF IInv

LEMMA AbortKeeps ==
    ASSUME IInv, Started \/ phase = "starting", NEW p \in {"error", "lost"}, Abort(p)
    PROVE  IInv'
  <1>1. phase' = p /\ recording' = recording /\ cursor' = cursor /\ run' = run
    BY DEF Abort, Goto, runner
  <1>2. Over' /\ phase' # "done"
    BY <1>1 DEF Over
  <1>3. IsRun(run')
    BY <1>1, Reading
  <1>. QED  BY <1>1, <1>2, <1>3, OverKeeps

\* The invariant of a replay under way, put together.
LEMMA StartedKeeps ==
    ASSUME IInv, Started \/ phase = "starting", Started', recording' = recording,
           CursorInv', ReplayInv', Working', Refusals'
    PROVE  IInv'
  <1>1. ~Recording' /\ ~Over' /\ phase' # "done"
    BY DEF Over, Recording, Started
  <1>2. RecordingInv'
    BY <1>1, Reading DEF RecordingInv
  <1>. QED  BY <1>1, <1>2 DEF IInv

\* A step that delivers nothing and moves nothing.
LEMMA QuietKeeps ==
    ASSUME IInv, Started, phase # "stepping", phase' \in {"stopping", "finishing", "reaping"},
           cursor > 1, UNCHANGED <<recording, cursor, session_sequence, effect_sequences, verdict>>,
           IsRun(run'), run'.frames = run.frames, IsSeq(run'.steps),
           \A i \in 1..Len(run'.steps) : run'.steps[i].status = "Refused" =>
              verdict = {} /\ run'.steps[i].recorded = cursor - 1
    PROVE  IInv'
  <1>1. Started' /\ ~Over' /\ phase' # "stepping"
    BY DEF Started, Over
  <1>2. Reached' = Reached
    BY <1>1 DEF Reached
  <1>3. CursorInv'
    BY <1>1 DEF IInv, CursorInv
  <1>4. ReplayInv'
    BY <1>1, <1>2 DEF IInv, ReplayInv
  <1>5. Working' /\ Refusals'
    BY <1>1 DEF Working, Refusals
  <1>. QED  BY <1>1, <1>3, <1>4, <1>5, StartedKeeps

(***************************************************************************)
(* Action by action.                                                       *)
(***************************************************************************)
LEMMA LaunchKeeps == ASSUME IInv, Launch PROVE IInv'
  <1>1. /\ phase = "closed" /\ phase' = "starting" /\ recording' = recording
        /\ runner' = runner
    BY DEF Launch, Goto
  <1>2. /\ cursor' = cursor /\ run' = run /\ session_sequence' = session_sequence
        /\ effect_sequences' = effect_sequences /\ verdict' = verdict
    BY <1>1 DEF runner
  <1>3. ~Recording /\ ~Started /\ ~Over /\ ~Recording' /\ ~Started' /\ ~Over'
    BY <1>1 DEF Recording, Started, Over
  <1>4. RecordingInv' /\ CursorInv'
    BY <1>1, <1>2, <1>3 DEF IInv, RecordingInv, CursorInv, Fresh
  <1>5. ReplayInv' /\ Working' /\ Refusals'
    BY <1>1, <1>2, <1>3 DEF IInv, ReplayInv, Working, Refusals
  <1>. QED  BY <1>1, <1>3, <1>4, <1>5 DEF IInv

LEMMA ReceiveStartedKeeps == ASSUME IInv, ReceiveStarted PROVE IInv'
  <1>1. phase = "starting"
    BY DEF ReceiveStarted
  <1>2. CASE Fail
    BY <1>1, <1>2, AbortKeeps DEF Fail
  <1>3. CASE Goto("delivering") /\ UNCHANGED <<component, case, runner>>
    <2>1. /\ phase' = "delivering" /\ recording' = recording
          /\ cursor' = cursor /\ run' = run /\ session_sequence' = session_sequence
          /\ effect_sequences' = effect_sequences /\ verdict' = verdict
      BY <1>3 DEF Goto, runner
    <2>2. Fresh /\ IsSeq(recording) /\ IsSeq(run.steps)
      BY <1>1, Reading DEF IInv, CursorInv, Started, Over
    <2>3. Started' /\ ~Over' /\ phase' # "stepping" /\ Reached' = 0
      BY <2>1, <2>2 DEF Started, Over, Reached, Fresh
    <2>4. ReplayInv'
      <3>1. Aligned(recording, <<>>, 0, effect_sequences)
        BY <2>2, AlignedEmpty DEF Fresh
      <3>2. CountUpTo(recording, 0, SessionSource) = 0
        BY CountZero
      <3>. QED  BY <2>1, <2>2, <2>3, <3>1, <3>2 DEF ReplayInv, Fresh
    <2>5. CursorInv'
      BY <2>1, <2>2, <2>3 DEF IInv, CursorInv, Fresh
    <2>6. Working' /\ Refusals'
      BY <2>1, <2>2, <2>3, EmptyShape DEF Working, Refusals, Fresh
    <2>. QED  BY <1>1, <2>1, <2>3, <2>4, <2>5, <2>6, StartedKeeps
  <1>. QED  BY <1>2, <1>3 DEF ReceiveStarted

\* Where the replay is when it delivers: behind the cursor.
LEMMA Delivering ==
    ASSUME IInv, phase = "delivering"
    PROVE  /\ Started /\ verdict = {} /\ Reached = cursor - 1
           /\ Aligned(recording, run.frames, cursor - 1, effect_sequences)
           /\ session_sequence = CountUpTo(recording, cursor - 1, SessionSource)
           /\ \A i \in 1..Len(run.steps) : run.steps[i].status # "Refused"
  <1>1. Started
    BY DEF Started
  <1>2. verdict = {} /\ Reached = cursor - 1
    BY <1>1 DEF IInv, CursorInv, Reached
  <1>3. \A i \in 1..Len(run.steps) : run.steps[i].status # "Refused"
    BY <1>1 DEF IInv, Refusals
  <1>. QED  BY <1>1, <1>2, <1>3 DEF IInv, ReplayInv

LEMMA StopAtMarkerKeeps == ASSUME IInv, StopAtMarker PROVE IInv'
  <1>1. /\ phase = "delivering" /\ recording[cursor].type \in {"End", "Gap"} /\ phase' = "stopping"
        /\ recording' = recording
        /\ UNCHANGED <<cursor, session_sequence, effect_sequences, verdict>>
    BY DEF StopAtMarker, Recorded, Markers, Goto
  <1>2. run' = [run EXCEPT !.stop = IF Recorded.type = "Gap" THEN "Gap" ELSE @]
    BY DEF StopAtMarker
  <1>3. Started /\ cursor \in 1..Len(recording) /\ FitsAt(recording, cursor) /\ IsRun(run)
        /\ IsSeq(run.steps) /\ Len(recording) \in Nat
    BY <1>1, Delivering, Reading
  <1>4. cursor > 1
    BY <1>1, <1>3 DEF FitsAt
  <1>5. IsRun(run') /\ run'.frames = run.frames /\ run'.steps = run.steps
    BY <1>2, <1>3 DEF IsRun, RunFields
  <1>6. \A i \in 1..Len(run'.steps) : run'.steps[i].status = "Refused" =>
           verdict = {} /\ run'.steps[i].recorded = cursor - 1
    BY <1>1, <1>5, Delivering
  <1>. QED  BY <1>1, <1>3, <1>4, <1>5, <1>6, QuietKeeps

LEMMA SendFinishKeeps == ASSUME IInv, SendFinish PROVE IInv'
  <1>. DEFINE reason == IF run.stop = "Exhausted" /\ verdict = {} THEN "Exhausted" ELSE "Scope"
  <1>1. /\ phase = "stopping" /\ phase' = "finishing" /\ recording' = recording
        /\ UNCHANGED <<cursor, session_sequence, effect_sequences, verdict>>
        /\ run' = [run EXCEPT !.reason = reason]
    BY DEF SendFinish, Goto
  <1>. HIDE DEF reason
  <1>2. Started /\ IsRun(run) /\ IsSeq(run.steps) /\ cursor > 1
    BY <1>1, Reading DEF Started, IInv, CursorInv
  <1>3. IsRun(run') /\ run'.frames = run.frames /\ run'.steps = run.steps
    BY <1>1, <1>2 DEF IsRun, RunFields
  <1>4. \A i \in 1..Len(run'.steps) : run'.steps[i].status = "Refused" =>
           verdict = {} /\ run'.steps[i].recorded = cursor - 1
    BY <1>2, <1>3 DEF IInv, Refusals
  <1>. QED  BY <1>1, <1>2, <1>3, <1>4, QuietKeeps

LEMMA ReceiveFinishedKeeps == ASSUME IInv, ReceiveFinished PROVE IInv'
  <1>1. phase = "finishing" /\ Started
    BY DEF ReceiveFinished, Started
  <1>2. CASE Fail
    BY <1>1, <1>2, AbortKeeps DEF Fail
  <1>3. CASE ~Fail
    <2>1. /\ phase' = "reaping" /\ recording' = recording
          /\ UNCHANGED <<cursor, session_sequence, effect_sequences, verdict>>
          /\ run' = [run EXCEPT !.pending = Line.pending]
      BY <1>3 DEF ReceiveFinished, Goto
    <2>2. IsRun(run) /\ IsSeq(run.steps) /\ cursor > 1
      BY <1>1, Reading DEF IInv, CursorInv
    <2>3. IsRun(run') /\ run'.frames = run.frames /\ run'.steps = run.steps
      BY <2>1, <2>2 DEF IsRun, RunFields
    <2>4. \A i \in 1..Len(run'.steps) : run'.steps[i].status = "Refused" =>
             verdict = {} /\ run'.steps[i].recorded = cursor - 1
      BY <1>1, <2>3 DEF IInv, Refusals
    <2>. QED  BY <1>1, <2>1, <2>2, <2>3, <2>4, QuietKeeps
  <1>. QED  BY <1>2, <1>3

\* What is not a marker and not an effect is an input.
LEMMA InputRecorded ==
    ASSUME IInv, phase = "delivering", IsInput
    PROVE  recording[cursor].type \in InputTypes /\ cursor > 1 /\ recording[cursor].ordinal = cursor - 1
  <1>1. /\ cursor \in 1..Len(recording) /\ FitsAt(recording, cursor) /\ Len(recording) \in Nat
    BY Delivering, Reading
  <1>2. recording[cursor].type \in UsedTypes
    BY <1>1 DEF FitsAt, Sound
  <1>3. recording[cursor].type \in InputTypes
    BY <1>2, KindsUsed DEF IsInput, Recorded, Markers
  <1>4. cursor # 1
    BY <1>1, <1>3 DEF FitsAt, InputTypes
  <1>. QED  BY <1>1, <1>3, <1>4 DEF FitsAt

LEMMA RefuseInputKeeps == ASSUME IInv, RefuseInput PROVE IInv'
  <1>. DEFINE x == step(Recorded.ordinal, NoOrdinal, "Refused")
  <1>1. /\ phase = "delivering" /\ IsInput /\ phase' = "stopping" /\ recording' = recording
        /\ UNCHANGED <<cursor, session_sequence, effect_sequences, verdict>>
        /\ run' = [run EXCEPT !.steps = Append(@, x), !.stop = "Refused"]
    BY DEF RefuseInput, Goto
  <1>2. x.recorded = cursor - 1 /\ cursor > 1
    BY <1>1, InputRecorded DEF step, Recorded
  <1>. HIDE DEF x
  <1>3. /\ Started /\ IsRun(run) /\ IsSeq(run.steps) /\ verdict = {}
        /\ \A i \in 1..Len(run.steps) : run.steps[i].status # "Refused"
    BY <1>1, Reading, Delivering
  <1>4. IsRun(run') /\ run'.frames = run.frames /\ run'.steps = Append(run.steps, x)
    BY <1>1, <1>3 DEF IsRun, RunFields
  <1>5. /\ IsSeq(run'.steps)
        /\ \A i \in 1..Len(run'.steps) :
             (i \in 1..Len(run.steps) /\ run'.steps[i] = run.steps[i]) \/ run'.steps[i] = x
    <2>. DEFINE t == Append(run.steps, x)
    <2>1. Grown(t, run.steps, x)
      BY <1>3, AppendShape
    <2>. HIDE DEF t
    <2>2. /\ IsSeq(t)
          /\ \A i \in 1..Len(t) : (i \in 1..Len(run.steps) /\ t[i] = run.steps[i]) \/ t[i] = x
      BY <1>3, <2>1, GrownCases
    <2>3. run'.steps = t
      BY <1>4 DEF t
    <2>. QED  BY <2>2, <2>3
  <1>6. \A i \in 1..Len(run'.steps) : run'.steps[i].status = "Refused" =>
           verdict = {} /\ run'.steps[i].recorded = cursor - 1
    BY <1>2, <1>3, <1>5
  <1>7. run'.frames = run.frames
    BY <1>4
  <1>8. IsRun(run')
    BY <1>4
  <1>. QED  BY <1>1, <1>2, <1>3, <1>5, <1>6, <1>7, <1>8, QuietKeeps

\* The cursor may move on from anything but a gap or the end.
LEMMA Advancing ==
    ASSUME IInv, Started, recording[cursor].type \notin {"Gap", "End"}
    PROVE  /\ cursor + 1 \in 1..Len(recording) /\ (cursor + 1) - 1 = cursor
           /\ \A j \in 1..cursor : recording[j].type \notin {"Gap", "End"}
  <1>1. /\ cursor \in 1..Len(recording) /\ Len(recording) \in Nat /\ Closed(recording)
    BY Reading
  <1>2. cursor # Len(recording)
    BY <1>1 DEF Closed
  <1>3. \A j \in 1..cursor : j \in 1..(cursor - 1) \/ j = cursor
    BY <1>1
  <1>4. \A j \in 1..(cursor - 1) : recording[j].type \notin {"Gap", "End"}
    BY DEF IInv, CursorInv
  <1>5. cursor + 1 \in 1..Len(recording) /\ (cursor + 1) - 1 = cursor
    BY <1>1, <1>2
  <1>. QED  BY <1>3, <1>4, <1>5

\* The session's frames up to one more.
LEMMA SessionCounted ==
    ASSUME NEW s, NEW n \in Nat \ {0}, FitsAt(s, n)
    PROVE  CountUpTo(s, n, SessionSource) =
              IF Source(s[n]) = SessionSource THEN s[n].seq + 1
              ELSE CountUpTo(s, n - 1, SessionSource)
  <1>1. n - 1 \in Nat /\ (n - 1) + 1 = n
    OBVIOUS
  <1>2. CountUpTo(s, (n - 1) + 1, SessionSource) =
              IF Source(s[(n - 1) + 1]) = SessionSource THEN CountUpTo(s, n - 1, SessionSource) + 1
              ELSE CountUpTo(s, n - 1, SessionSource)
    BY <1>1, CountStep
  <1>. QED  BY <1>1, <1>2 DEF FitsAt

LEMMA SkipFrameKeeps == ASSUME IInv, SkipFrame PROVE IInv'
  <1>1. /\ phase = "delivering" /\ phase' = "delivering" /\ recording' = recording
        /\ cursor' = cursor + 1 /\ effect_sequences' = effect_sequences /\ verdict' = verdict
    BY DEF SkipFrame, recorder
  <1>2. /\ cursor \in 1..Len(recording) /\ FitsAt(recording, cursor) /\ Len(recording) \in Nat
        /\ IsRun(run) /\ IsSeq(run.steps) /\ Begun(recording) /\ IsSeq(recording) /\ Started
    BY <1>1, Delivering, Reading
  <1>3. /\ verdict = {} /\ Aligned(recording, run.frames, cursor - 1, effect_sequences)
        /\ session_sequence = CountUpTo(recording, cursor - 1, SessionSource)
        /\ \A i \in 1..Len(run.steps) : run.steps[i].status # "Refused"
    BY <1>1, Delivering
  <1>4. recording[cursor].type \notin {"Gap", "End"}
    <2>1. recording[cursor].type \in UsedTypes
      BY <1>2 DEF FitsAt, Sound
    <2>2. recording[cursor].type = "Session" \/ recording[cursor].type \in EffectTypes
      BY <2>1, KindsUsed DEF SkipFrame, Recorded
    <2>. QED  BY <2>2 DEF EffectTypes
  <1>5. /\ cursor + 1 \in 1..Len(recording) /\ (cursor + 1) - 1 = cursor /\ cursor' - 1 = cursor
        /\ \A j \in 1..cursor : recording[j].type \notin {"Gap", "End"}
    BY <1>1, <1>2, <1>4, Advancing
  <1>6. Started' /\ ~Over' /\ phase' # "stepping" /\ Reached' = cursor
    BY <1>1, <1>3, <1>5 DEF Started, Over, Reached
  <1>7. /\ IsRun(run') /\ run'.steps = run.steps
        /\ Aligned(recording, run'.frames, cursor, effect_sequences)
        /\ session_sequence' = CountUpTo(recording, cursor, SessionSource)
    <2>0. CountUpTo(recording, cursor, SessionSource) =
              IF Source(recording[cursor]) = SessionSource THEN recording[cursor].seq + 1
              ELSE CountUpTo(recording, cursor - 1, SessionSource)
      BY <1>2, SessionCounted
    <2>1. CASE Recorded.type = "Session"
      <3>1. run' = [run EXCEPT !.frames = push(@, Recorded)] /\ session_sequence' = Recorded.seq + 1
        BY <2>1 DEF SkipFrame
      <3>2. IsRun(run') /\ run'.steps = run.steps /\ run'.frames = push(run.frames, Recorded)
        BY <1>2, <3>1 DEF IsRun, RunFields
      <3>3. Aligned(recording, push(run.frames, recording[cursor]), cursor, effect_sequences)
        BY <1>2, <1>3, <2>1, AlignedInput DEF Recorded
      <3>4. Source(recording[cursor]) = SessionSource
        BY <1>2, <2>1 DEF Recorded, FitsAt, Sound, HasMarkerTuple, Source, SessionSource
      <3>. QED  BY <2>0, <3>1, <3>2, <3>3, <3>4 DEF Recorded
    <2>2. CASE Recorded.type # "Session"
      <3>1. run' = run /\ session_sequence' = session_sequence /\ IsEmit(recording[cursor])
        BY <2>2 DEF SkipFrame, Recorded
      <3>2. cursor \in 2..Len(recording)
        BY <1>2, <2>2 DEF FitsAt, Recorded
      <3>3. Aligned(recording, run.frames, cursor, effect_sequences)
        BY <1>2, <1>3, <3>1, <3>2, AlignedSkip
      <3>4. Source(recording[cursor]) # SessionSource
        <4>1. recording[cursor].src = COMPONENT_ACTOR_ID
          BY <1>2, <3>1, KindsUsed DEF FitsAt, Sound
        <4>. QED  BY <4>1, Ids DEF Source, SessionSource
      <3>. QED  BY <1>2, <1>3, <2>0, <3>1, <3>3, <3>4
    <2>. QED  BY <2>1, <2>2
  <1>8. ReplayInv'
    BY <1>1, <1>5, <1>6, <1>7 DEF ReplayInv
  <1>9. CursorInv'
    BY <1>1, <1>3, <1>5, <1>6, <1>7 DEF CursorInv
  <1>10. Working' /\ Refusals'
    BY <1>2, <1>3, <1>6, <1>7 DEF Working, Refusals
  <1>. QED  BY <1>1, <1>2, <1>6, <1>8, <1>9, <1>10, StartedKeeps

LEMMA DeliverInputKeeps == ASSUME IInv, DeliverInput PROVE IInv'
  <1>1. phase = "delivering" /\ IsInput
    BY DEF DeliverInput
  <1>2. CASE Fail
    BY <1>1, <1>2, AbortKeeps, Delivering DEF Fail
  <1>3. CASE ~Fail
    <2>1. /\ phase' = "stepping" /\ recording' = recording
          /\ UNCHANGED <<cursor, session_sequence, effect_sequences, verdict>>
          /\ run' = [run EXCEPT !.frames = push(@, Recorded)]
      BY <1>3 DEF DeliverInput, Goto
    <2>2. recording[cursor].type \in InputTypes /\ cursor > 1
      BY <1>1, InputRecorded
    <2>3. /\ cursor \in 1..Len(recording) /\ IsRun(run) /\ IsSeq(run.steps) /\ Begun(recording)
          /\ Started
      BY <1>1, Delivering, Reading
    <2>4. /\ verdict = {} /\ Aligned(recording, run.frames, cursor - 1, effect_sequences)
          /\ session_sequence = CountUpTo(recording, cursor - 1, SessionSource)
          /\ \A i \in 1..Len(run.steps) : run.steps[i].status # "Refused"
      BY <1>1, Delivering
    <2>5. IsRun(run') /\ run'.steps = run.steps /\ run'.frames = push(run.frames, recording[cursor])
      BY <2>1, <2>3 DEF IsRun, RunFields, Recorded
    <2>6. Started' /\ ~Over' /\ Reached' = cursor
      BY <2>1 DEF Started, Over, Reached
    <2>7. ReplayInv'
      <3>1. Aligned(recording, push(run.frames, recording[cursor]), cursor, effect_sequences)
        BY <2>2, <2>3, <2>4, AlignedInput
      <3>. QED  BY <2>1, <2>4, <2>5, <2>6, <3>1 DEF ReplayInv
    <2>8. Working'
      <3>1. IsSeq(run.frames)
        BY <2>4 DEF Aligned, Streams
      <3>2. InWork(recording, cursor, push(run.frames, recording[cursor]))
        BY <2>2, <2>3, <3>1, InWorkPushed
      <3>. QED  BY <2>1, <2>5, <3>2 DEF Working
    <2>9. CursorInv'
      BY <2>1, <2>2, <2>4, <2>5, <2>6 DEF IInv, CursorInv
    <2>10. Refusals'
      BY <2>3, <2>4, <2>5 DEF Refusals
    <2>. QED  BY <2>1, <2>3, <2>6, <2>7, <2>8, <2>9, <2>10, StartedKeeps
  <1>. QED  BY <1>2, <1>3

\* A stream of frames that fit, with an end that is its last frame and tells the
\* length, is one the reader accepts.
LEMMA Decodes ==
    ASSUME NEW s, IsSeq(s), Len(s) >= 1, \A i \in 1..Len(s) : FitsAt(s, i),
           \A i \in 1..Len(s) : s[i].type = "End" <=> i = Len(s),
           s[1].body = [uuid |-> "u"], s[Len(s)].body = [uuid |-> "u", frame_count |-> Len(s) - 1]
    PROVE  WellFormed(s)
  <1>1. s # <<>>
    BY EmptyShape
  <1>2. ASSUME NEW i \in 1..Len(s) PROVE FrameWellFormed(s, i)
    <2>1. FitsAt(s, i) /\ (s[i].type = "End" <=> i = Len(s))
      OBVIOUS
    <2>2. CountUpTo(s, i - 1, Source(s[i])) = SentBefore(s, i)
      BY DEF CountUpTo, SentBefore
    <2>. QED  BY <2>1, <2>2 DEF FitsAt, Sound, FrameWellFormed
  <1>3. s[Len(s)].body.uuid = s[1].body.uuid /\ s[Len(s)].body.frame_count = Len(s) - 1
    OBVIOUS
  <1>. QED  BY <1>1, <1>2, <1>3 DEF WellFormed

LEMMA ReceiveProgressKeeps == ASSUME IInv, ReceiveProgress PROVE IInv'
  <1>1. phase = "stepping" /\ Started
    BY DEF ReceiveProgress, Started
  <1>2. CASE Fail
    BY <1>1, <1>2, AbortKeeps DEF Fail
  <1>3. CASE UNCHANGED <<recorder, runner>>
    BY <1>3 DEF recorder, runner, IInv, RecordingInv, CursorInv, ReplayInv, Working, Refusals,
                Recording, Started, Over, Reached, Fresh, EvidenceIsPrefix
  <1>. QED  BY <1>2, <1>3 DEF ReceiveProgress

\* Where the replay is while an input is in work.
LEMMA Stepping ==
    ASSUME IInv, phase = "stepping"
    PROVE  /\ Started /\ verdict = {} /\ Reached = cursor /\ cursor > 1
           /\ Aligned(recording, run.frames, cursor, effect_sequences)
           /\ session_sequence = CountUpTo(recording, cursor - 1, SessionSource)
           /\ InWork(recording, cursor, run.frames)
           /\ \A i \in 1..Len(run.steps) : run.steps[i].status # "Refused"
  <1>1. Started
    BY DEF Started
  <1>2. verdict = {} /\ Reached = cursor /\ cursor > 1
    BY <1>1 DEF IInv, CursorInv, Reached
  <1>3. \A i \in 1..Len(run.steps) : run.steps[i].status # "Refused"
    BY <1>1 DEF IInv, Refusals
  <1>. QED  BY <1>1, <1>2, <1>3 DEF IInv, ReplayInv, Working

LEMMA ReceiveSteppedKeeps == ASSUME IInv, ReceiveStepped PROVE IInv'
  <1>. DEFINE s == Line.status
              refusal == step(Recorded.ordinal, NoOrdinal, s)
              consumption == step(Recorded.ordinal, ReplayedOrdinal, s)
  <1>1. phase = "stepping"
    BY DEF ReceiveStepped
  <1>2. /\ Started /\ verdict = {} /\ Reached = cursor /\ cursor > 1
        /\ Aligned(recording, run.frames, cursor, effect_sequences)
        /\ session_sequence = CountUpTo(recording, cursor - 1, SessionSource)
        /\ InWork(recording, cursor, run.frames)
        /\ \A i \in 1..Len(run.steps) : run.steps[i].status # "Refused"
    BY <1>1, Stepping
  <1>3. /\ cursor \in 1..Len(recording) /\ FitsAt(recording, cursor) /\ Len(recording) \in Nat
        /\ IsRun(run) /\ IsSeq(run.steps) /\ IsSeq(recording) /\ cursor - 1 \in 0..Len(recording)
    BY <1>2, Reading
  <1>4. recording[cursor].type \in InputTypes
    BY <1>2 DEF InWork
  <1>5. CASE Fail
    BY <1>2, <1>5, AbortKeeps DEF Fail
  <1>6. CASE ~Fail /\ s = "Refused"
    <2>1. /\ phase' = "stopping" /\ recording' = recording
          /\ UNCHANGED <<cursor, session_sequence, effect_sequences, verdict>>
          /\ run' = [run EXCEPT !.frames = Front(@), !.pending_after = Line.pending,
                                !.steps = Append(@, refusal), !.stop = "Refused"]
      BY <1>6 DEF ReceiveStepped, Goto
    <2>2. Len(run.frames) = ReplayedOrdinal + 1
      BY <1>6 DEF ReceiveStepped
    <2>3. refusal.recorded = cursor - 1
      BY <1>3 DEF step, Recorded, FitsAt
    <2>. HIDE DEF s, refusal
    <2>4. /\ IsRun(run') /\ run'.steps = Append(run.steps, refusal)
          /\ run'.frames = Front(run.frames)
      BY <1>3, <2>1 DEF IsRun, RunFields
    <2>5. Aligned(recording, Front(run.frames), cursor - 1, effect_sequences)
      <3>1. Streams(run.frames) /\ Len(run.frames) \in Nat
        BY <1>2, SeqShape DEF Aligned, Streams
      <3>2. PICK p \in 1..Len(run.frames) :
                    Content(run.frames[p]) = Content(recording[cursor]) /\ ReplayedOrdinal = p - 1
        BY <1>2, <3>1, WorkOrdinal
      <3>3. p = Len(run.frames) /\ cursor \in 2..Len(recording)
        BY <1>2, <1>3, <2>2, <3>1, <3>2
      <3>4. Content(run.frames[Len(run.frames)]) = Content(recording[cursor])
        BY <3>2, <3>3
      <3>. QED  BY <1>2, <1>3, <1>4, <3>3, <3>4, AlignedFront
    <2>6. Started' /\ ~Over' /\ phase' # "stepping" /\ Reached' = cursor - 1
      BY <1>2, <2>1 DEF Started, Over, Reached
    <2>7. ReplayInv'
      BY <1>2, <2>1, <2>4, <2>5, <2>6 DEF ReplayInv
    <2>8. CursorInv'
      BY <1>2, <2>1, <2>4, <2>6 DEF IInv, CursorInv
    <2>9. Refusals'
      <3>. DEFINE t == Append(run.steps, refusal)
      <3>1. Grown(t, run.steps, refusal)
        BY <1>3, AppendShape
      <3>. HIDE DEF t
      <3>2. IsSeq(t) /\ \A i \in 1..Len(t) :
              (i \in 1..Len(run.steps) /\ t[i] = run.steps[i]) \/ t[i] = refusal
        BY <1>3, <3>1, GrownCases
      <3>3. run'.steps = t
        BY <2>4 DEF t
      <3>4. \A i \in 1..Len(t) : t[i].status = "Refused" => t[i].recorded = cursor - 1
        BY <1>2, <2>3, <3>2
      <3>. QED  BY <1>2, <2>1, <3>2, <3>3, <3>4 DEF Refusals
    <2>10. Working'
      BY <2>6 DEF Working
    <2>. QED  BY <1>2, <2>1, <2>6, <2>7, <2>8, <2>9, <2>10, StartedKeeps
  <1>7. CASE ~Fail /\ s # "Refused"
    <2>1. /\ phase' = "delivering" /\ recording' = recording /\ cursor' = cursor + 1
          /\ UNCHANGED <<effect_sequences, verdict>>
          /\ run' = [run EXCEPT !.pending_after = Line.pending, !.steps = Append(@, consumption)]
          /\ session_sequence' = IF Source(Recorded) = SessionSource
                                 THEN Recorded.seq + 1 ELSE session_sequence
      BY <1>7 DEF ReceiveStepped, Goto, SessionSource
    <2>2. consumption.status # "Refused"
      BY <1>7 DEF step
    <2>. HIDE DEF s, consumption
    <2>3. /\ IsRun(run') /\ run'.steps = Append(run.steps, consumption)
          /\ run'.frames = run.frames
      BY <1>3, <2>1 DEF IsRun, RunFields
    <2>4. /\ cursor + 1 \in 1..Len(recording) /\ (cursor + 1) - 1 = cursor /\ cursor' - 1 = cursor
          /\ \A j \in 1..cursor : recording[j].type \notin {"Gap", "End"}
      <3>1. recording[cursor].type \notin {"Gap", "End"}
        BY <1>4 DEF InputTypes
      <3>. QED  BY <1>2, <2>1, <3>1, Advancing
    <2>5. Started' /\ ~Over' /\ phase' # "stepping" /\ Reached' = cursor
      BY <1>2, <2>1, <2>4 DEF Started, Over, Reached
    <2>6. ReplayInv'
      <3>1. session_sequence' = CountUpTo(recording, cursor, SessionSource)
        BY <1>2, <1>3, <2>1, SessionCounted DEF Recorded
      <3>. QED  BY <1>2, <2>1, <2>3, <2>4, <2>5, <3>1 DEF ReplayInv
    <2>7. CursorInv'
      BY <1>2, <2>1, <2>3, <2>4, <2>5 DEF CursorInv
    <2>8. Refusals'
      <3>. DEFINE t == Append(run.steps, consumption)
      <3>1. Grown(t, run.steps, consumption)
        BY <1>3, AppendShape
      <3>. HIDE DEF t
      <3>2. IsSeq(t) /\ \A i \in 1..Len(t) :
              (i \in 1..Len(run.steps) /\ t[i] = run.steps[i]) \/ t[i] = consumption
        BY <1>3, <3>1, GrownCases
      <3>3. run'.steps = t
        BY <2>3 DEF t
      <3>4. \A i \in 1..Len(t) : t[i].status # "Refused"
        BY <1>2, <2>2, <3>2
      <3>. QED  BY <3>2, <3>3, <3>4 DEF Refusals
    <2>9. Working'
      BY <2>5 DEF Working
    <2>. QED  BY <1>2, <2>1, <2>5, <2>6, <2>7, <2>8, <2>9, StartedKeeps
  <1>. QED  BY <1>5, <1>6, <1>7

\* The answer about a run is the answer about the input made of it.
LEMMA Evaluated ==
    ASSUME NEW name, NEW r
    PROVE  evaluate(name, r) = answered(name, property_input(r))
  <1>. DEFINE x == property_input(r)
              a == answered(name, x)
  <1>1. {answered(name, input) : input \in {x}} = {a}
    <2>. HIDE DEF x
    <2>. QED  OBVIOUS
  <1>. HIDE DEF a
  <1>2. Only({a}) = a
    BY DEF Only
  <1>3. evaluate(name, r) = Only({answered(name, input) : input \in {x}})
    BY DEF evaluate
  <1>. QED  BY <1>1, <1>2, <1>3 DEF a

\* Without a delivered command the property program has no final answer.
LEMMA NoCommandNoAnswer ==
    ASSUME NEW r, NEW name, \A f \in ToSet(r.frames) : f.type # "Message"
    PROVE  evaluate(name, r).result \notin Terminal
  <1>. DEFINE x == property_input(r)
  <1>1. x.events = ToSet(r.frames)
    BY DEF property_input
  <1>. HIDE DEF x
  <1>2. Commands(x) = {}
    BY <1>1 DEF Commands, ConsumedInputs
  <1>3. answered(name, x) = Answer("Inconclusive", "goal_command_delivered")
    BY <1>2 DEF answered
  <1>4. answered(name, x).result = "Inconclusive"
    BY <1>3 DEF Answer
  <1>. QED  BY <1>4, Evaluated DEF Terminal, x

\* An effect line that passes the checks is an effect the component may have.
LEMMA AllowedEmission ==
    ASSUME NEW l, EffectAllowed(l)
    PROVE  Emission(l.effect) /\ l.effect.seq = effect_sequences[l.effect.channel]
  BY DEF EffectAllowed, validate_event, channels, Emission, EffectTypes, EffectChannel

LEMMA EffectAdded ==
    ASSUME NEW l, IsRun(run), NEW steps
    PROVE  /\ IsRun(WithEffect(l)) /\ WithEffect(l).steps = run.steps
           /\ WithEffect(l).frames = push(run.frames, EffectFrame(l.effect))
           /\ LET with == [WithEffect(l) EXCEPT !.steps = steps]
              IN  /\ IsRun(with) /\ with.steps = steps
                  /\ with.frames = push(run.frames, EffectFrame(l.effect))
                  /\ EvidenceNow(with).frames = push(run.frames, EffectFrame(l.effect))
  <1>. DEFINE now == WithEffect(l)
              with == [now EXCEPT !.steps = steps]
              F == push(run.frames, EffectFrame(l.effect))
  <1>1. IsRun(now) /\ now.steps = run.steps /\ now.frames = F
    <2>. HIDE DEF F
    <2>. QED  BY DEF WithEffect, IsRun, RunFields, F
  <1>. HIDE DEF now, F
  <1>2. IsRun(with) /\ with.steps = steps /\ with.frames = F
    BY <1>1 DEF IsRun, RunFields
  <1>. HIDE DEF with
  <1>3. EvidenceNow(with).frames = F
    BY <1>2 DEF EvidenceNow, IsRun, RunFields
  <1>. QED  BY <1>1, <1>2, <1>3 DEF now, with, F

LEMMA ReceiveEffectKeeps == ASSUME IInv, ReceiveEffect PROVE IInv'
  <1>. DEFINE l == Line
              now == WithEffect(l)
              x == step(Recorded.ordinal, ReplayedOrdinal, "Ok")
              steps == Append(run.steps, x)
              with == [now EXCEPT !.steps = steps]
              answer == evaluate(property, EvidenceNow(with))
              F == push(run.frames, EffectFrame(l.effect))
  <1>1. phase = "stepping"
    BY DEF ReceiveEffect
  <1>2. /\ Started /\ verdict = {} /\ Reached = cursor /\ cursor > 1
        /\ Aligned(recording, run.frames, cursor, effect_sequences)
        /\ session_sequence = CountUpTo(recording, cursor - 1, SessionSource)
        /\ InWork(recording, cursor, run.frames)
        /\ \A i \in 1..Len(run.steps) : run.steps[i].status # "Refused"
    BY <1>1, Stepping
  <1>3. /\ cursor \in 1..Len(recording) /\ Begun(recording) /\ Len(recording) \in Nat
        /\ IsRun(run) /\ IsSeq(run.steps)
        /\ \A i \in 1..Len(recording) : FitsAt(recording, i)
    BY <1>2, Reading
  <1>4. recording[cursor].type \in InputTypes
    BY <1>2 DEF InWork
  <1>5. CASE Fail
    BY <1>2, <1>5, AbortKeeps DEF Fail
  <1>6. CASE ~Fail
    <2>1. /\ recording' = recording
          /\ UNCHANGED <<cursor, session_sequence>>
          /\ effect_sequences' = Counting(l)
          /\ EffectAllowed(l)
          /\ \/ /\ answer.result \in Terminal /\ verdict' = {answer}
                /\ run' = with /\ phase' = "stopping"
             \/ run' = now /\ verdict' = verdict /\ phase' = phase
      BY <1>6 DEF ReceiveEffect, Goto, recorder
    <2>2. Emission(l.effect) /\ l.effect.seq = effect_sequences[l.effect.channel]
      BY <2>1, AllowedEmission
    <2>3. /\ IsRun(now) /\ now.steps = run.steps /\ now.frames = F
          /\ IsRun(with) /\ with.steps = steps /\ with.frames = F /\ EvidenceNow(with).frames = F
      BY <1>3, EffectAdded
    <2>4. Aligned(recording, F, cursor, effect_sequences')
      <3>1. cursor # 0
        BY <1>3
      <3>2. Aligned(recording, F, cursor, [effect_sequences EXCEPT ![l.effect.channel] = @ + 1])
        BY <1>2, <2>2, <3>1, AlignedEffect
      <3>. QED  BY <2>1, <3>2 DEF Counting
    <2>5. InWork(recording, cursor, F)
      <3>1. IsSeq(run.frames)
        BY <1>2 DEF Aligned, Streams
      <3>. QED  BY <1>2, <2>2, <3>1, InWorkEffect
    <2>. HIDE DEF l, now, with, F
    <2>6. CASE run' = now /\ verdict' = verdict /\ phase' = phase
      <3>1. Started' /\ ~Over' /\ Reached' = cursor /\ phase' = "stepping"
        BY <1>1, <1>2, <2>1, <2>6 DEF Started, Over, Reached
      <3>2. run'.frames = F /\ run'.steps = run.steps /\ IsRun(run')
        BY <2>3, <2>6
      <3>3. ReplayInv'
        BY <1>2, <2>1, <2>4, <3>1, <3>2 DEF ReplayInv
      <3>4. Working'
        BY <2>1, <2>5, <3>2 DEF Working
      <3>5. CursorInv'
        BY <1>2, <2>1, <2>6, <3>1, <3>2 DEF IInv, CursorInv
      <3>6. Refusals'
        BY <1>2, <1>3, <3>2 DEF Refusals
      <3>. QED  BY <1>2, <2>1, <3>1, <3>3, <3>4, <3>5, <3>6, StartedKeeps
    <2>7. CASE answer.result \in Terminal /\ verdict' = {answer} /\ run' = with /\ phase' = "stopping"
      <3>1. Started' /\ ~Over' /\ Reached' = cursor /\ phase' # "stepping"
        BY <1>2, <2>1, <2>7 DEF Started, Over, Reached
      <3>2. run'.frames = F /\ run'.steps = steps /\ IsRun(run')
        BY <2>3, <2>7
      <3>3. ReplayInv'
        BY <1>2, <2>1, <2>4, <3>1, <3>2 DEF ReplayInv
      <3>4. recording[cursor].src # SESSION_ACTOR_ID
        <4>1. CASE cursor # 2
          BY <1>2, <1>3, <1>4, <4>1 DEF Begun
        <4>2. CASE cursor = 2
          <5>1. ASSUME NEW i \in 1..Len(F) PROVE F[i].type # "Message"
            <6>1. CASE F[i].type \in EffectTypes
              BY <6>1 DEF EffectTypes
            <6>2. CASE F[i].type \notin EffectTypes
              <7>1. PICK j \in 1..cursor : Content(F[i]) = Content(recording[j])
                BY <2>4, <6>2 DEF Aligned, Passed
              <7>2. F[i].type = recording[j].type
                BY <7>1 DEF Content
              <7>3. j = 1 \/ j = 2
                BY <4>2
              <7>4. recording[1].type = "Session" /\ recording[2].type = "StartingState"
                BY <1>3 DEF Begun, FitsAt
              <7>. QED  BY <7>2, <7>3, <7>4
            <6>. QED  BY <6>1, <6>2
          <5>2. DOMAIN F = 1..Len(F)
            BY <2>4, SeqShape DEF Aligned, Streams
          <5>3. \A f \in ToSet(EvidenceNow(with).frames) : f.type # "Message"
            BY <2>3, <5>1, <5>2 DEF ToSet
          <5>. QED  BY <2>7, <5>3, NoCommandNoAnswer
        <4>. QED  BY <4>1, <4>2
      <3>5. CursorInv'
        BY <1>2, <1>4, <2>1, <2>7, <3>1, <3>2, <3>4 DEF IInv, CursorInv
      <3>6. Refusals'
        <4>1. x.status = "Ok"
          BY DEF step
        <4>. HIDE DEF x
        <4>2. Grown(steps, run.steps, x)
          BY <1>3, AppendShape
        <4>. HIDE DEF steps
        <4>3. IsSeq(steps) /\ \A i \in 1..Len(steps) :
                  (i \in 1..Len(run.steps) /\ steps[i] = run.steps[i]) \/ steps[i] = x
          BY <1>3, <4>2, GrownCases
        <4>4. \A i \in 1..Len(steps) : steps[i].status # "Refused"
          BY <1>2, <4>1, <4>3
        <4>. QED  BY <3>2, <4>3, <4>4 DEF Refusals
      <3>7. Working'
        BY <3>1 DEF Working
      <3>. QED  BY <1>2, <2>1, <3>1, <3>3, <3>5, <3>6, <3>7, StartedKeeps
    <2>. QED  BY <2>1, <2>6, <2>7
  <1>. QED  BY <1>5, <1>6

LEMMA ReceiveLateKeeps == ASSUME IInv, ReceiveLate PROVE IInv'
  <1>. DEFINE l == Line
              F == push(run.frames, EffectFrame(l.effect))
  <1>1. phase = "finishing" /\ Started
    BY DEF ReceiveLate, Started
  <1>2. /\ cursor \in 1..Len(recording) /\ IsRun(run) /\ IsSeq(run.steps) /\ cursor > 1
        /\ Len(recording) \in Nat
    BY <1>1, Reading DEF IInv, CursorInv
  <1>3. \A i \in 1..Len(run.steps) : run.steps[i].status = "Refused" =>
           verdict = {} /\ run.steps[i].recorded = cursor - 1
    BY <1>1 DEF IInv, Refusals
  <1>4. CASE Fail
    BY <1>1, <1>4, AbortKeeps DEF Fail
  <1>5. CASE ~Fail
    <2>1. /\ recording' = recording /\ phase' = phase /\ verdict # {}
          /\ UNCHANGED <<cursor, session_sequence, verdict>>
          /\ \/ /\ l.line = "effect" /\ EffectAllowed(l)
                /\ run' = WithEffect(l) /\ effect_sequences' = Counting(l)
             \/ /\ run' = [run EXCEPT !.pending_after = l.pending]
                /\ effect_sequences' = effect_sequences
             \/ run' = run /\ effect_sequences' = effect_sequences
      BY <1>5 DEF ReceiveLate, recorder
    <2>2. CASE /\ \/ run' = [run EXCEPT !.pending_after = l.pending]
                  \/ run' = run
               /\ effect_sequences' = effect_sequences
      <3>. HIDE DEF l
      <3>1. IsRun(run') /\ run'.frames = run.frames /\ run'.steps = run.steps
        BY <1>2, <2>2 DEF IsRun, RunFields
      <3>2. IsSeq(run'.steps) /\ \A i \in 1..Len(run'.steps) :
               run'.steps[i].status = "Refused" => verdict = {} /\ run'.steps[i].recorded = cursor - 1
        BY <1>2, <1>3, <3>1
      <3>. QED  BY <1>1, <1>2, <2>1, <2>2, <3>1, <3>2, QuietKeeps
    <2>3. CASE /\ EffectAllowed(l)
               /\ run' = WithEffect(l) /\ effect_sequences' = Counting(l)
      <3>1. Emission(l.effect) /\ l.effect.seq = effect_sequences[l.effect.channel]
        BY <2>3, AllowedEmission
      <3>2. IsRun(run') /\ run'.steps = run.steps /\ run'.frames = F
        BY <1>2, <2>3, EffectAdded
      <3>3. /\ Aligned(recording, run.frames, cursor, effect_sequences) /\ Reached' = cursor
            /\ session_sequence = CountUpTo(recording, cursor - 1, SessionSource)
        BY <1>1, <2>1 DEF IInv, ReplayInv, Reached
      <3>4. Aligned(recording, F, cursor, effect_sequences')
        <4>1. cursor # 0
          BY <1>2
        <4>2. Aligned(recording, F, cursor, [effect_sequences EXCEPT ![l.effect.channel] = @ + 1])
          BY <3>1, <3>3, <4>1, AlignedEffect
        <4>. QED  BY <2>3, <4>2 DEF Counting
      <3>. HIDE DEF l, F
      <3>5. Started' /\ ~Over' /\ phase' # "stepping"
        BY <1>1, <2>1 DEF Started, Over
      <3>6. ReplayInv'
        BY <2>1, <3>2, <3>3, <3>4, <3>5 DEF ReplayInv
      <3>7. CursorInv'
        BY <1>1, <2>1, <3>2, <3>5 DEF IInv, CursorInv
      <3>8. Refusals' /\ Working'
        BY <1>1, <1>2, <1>3, <2>1, <3>2, <3>5 DEF Refusals, Working
      <3>. QED  BY <1>1, <2>1, <3>5, <3>6, <3>7, <3>8, StartedKeeps
    <2>. QED  BY <2>1, <2>2, <2>3
  <1>. QED  BY <1>4, <1>5

LEMMA ConcludeKeeps == ASSUME IInv, Conclude PROVE IInv'
  <1>. DEFINE n == Len(run.frames)
              g == [EndMarker(n, session_sequence) EXCEPT !.observed_ns = 0]
              t == Append(run.frames, g)
  <1>1. phase = "reaping" /\ Started
    BY DEF Conclude, Started
  <1>2. CASE Fail
    BY <1>1, <1>2, AbortKeeps DEF Fail
  <1>3. CASE ~Fail
    <2>1. /\ phase' = "done" /\ recording' = recording /\ cursor' = cursor
          /\ run' = [run EXCEPT !.frames = Append(@, g)]
      BY <1>3 DEF Conclude, Goto
    <2>2. /\ IsRun(run) /\ cursor \in 1..Len(recording) /\ Len(recording) \in Nat
          /\ FitsAt(recording, cursor) /\ cursor > 1
      BY <1>1, Reading DEF IInv, CursorInv
    <2>3. /\ Aligned(recording, run.frames, Reached, effect_sequences)
          /\ session_sequence = CountUpTo(recording, cursor - 1, SessionSource)
      BY <1>1 DEF IInv, ReplayInv
    <2>4. /\ IsSeq(run.frames) /\ n \in Nat
          /\ \A i \in 1..n : FitsAt(run.frames, i) /\ run.frames[i].type \notin {"Gap", "End"}
      BY <2>3, SeqShape DEF Aligned, Streams
    <2>5. /\ Sound(g) /\ g.ordinal = n /\ g.seq = session_sequence /\ g.type = "End"
          /\ g.body = [uuid |-> "u", frame_count |-> n] /\ Source(g) = SessionSource
      <3>. DEFINE e == EndMarker(n, session_sequence)
      <3>1. Made(e, n, SESSION_ACTOR_ID, SESSION_ACTOR_ID, SESSION_CHANNEL_ID, session_sequence,
                 "End", {}, [uuid |-> "u", frame_count |-> n])
        BY FrameMade DEF EndMarker, session_frame
      <3>. HIDE DEF e, n
      <3>2. /\ IsFrame(g) /\ g.ordinal = e.ordinal /\ g.src = e.src /\ g.dst = e.dst
            /\ g.channel = e.channel /\ g.seq = e.seq /\ g.type = e.type /\ g.kind = e.kind
            /\ g.flags = e.flags /\ g.body = e.body /\ g.damage = e.damage
        BY <3>1 DEF Made, IsFrame, FrameFields, e
      <3>. HIDE DEF g
      <3>3. Source(g) = SessionSource
        BY <3>1, <3>2 DEF Made, Source, SessionSource
      <3>4. Sound(g)
        BY <3>1, <3>2, Ids DEF Made, Sound, UsedTypes, EffectTypes, HasMarkerTuple
      <3>. QED  BY <3>1, <3>2, <3>3, <3>4 DEF Made
    <2>6. session_sequence = CountUpTo(run.frames, n, SessionSource)
      <3>1. CountUpTo(run.frames, n, SessionSource) = CountUpTo(recording, Reached, SessionSource)
        BY <2>3, Ids DEF Aligned, Counted, SessionSource
      <3>2. CASE verdict = {}
        BY <1>1, <2>3, <3>1, <3>2 DEF Reached
      <3>3. CASE verdict # {}
        <4>1. Reached = cursor /\ recording[cursor].src # SESSION_ACTOR_ID
          BY <1>1, <3>3 DEF Reached, IInv, CursorInv
        <4>2. Source(recording[cursor]) # SessionSource
          BY <4>1 DEF Source, SessionSource
        <4>3. CountUpTo(recording, cursor, SessionSource) =
                 CountUpTo(recording, cursor - 1, SessionSource)
          BY <2>2, <4>2, SessionCounted
        <4>. QED  BY <2>3, <3>1, <4>1, <4>3
      <3>. QED  BY <3>2, <3>3
    <2>7. run.frames # <<>> /\ run.frames[1].body = [uuid |-> "u"] /\ n # 0
      <3>1. Reached # 0
        BY <2>2 DEF Reached
      <3>2. run.frames # <<>> /\ run.frames[1].body = [uuid |-> "u"]
        BY <2>3, <3>1 DEF Aligned, Passed
      <3>3. n # 0
        BY <2>4, <3>2, EmptyShape, SameSeq
      <3>. QED  BY <3>2, <3>3
    <2>. HIDE DEF g
    <2>8. Grown(t, run.frames, g)
      BY <2>4, AppendShape
    <2>9. IsRun(run') /\ run'.steps = run.steps /\ run'.frames = t
      BY <2>1, <2>2 DEF IsRun, RunFields
    <2>10. Inputs(t) = Inputs(run.frames)
      BY <2>4, <2>5, InputsGrown
    <2>. HIDE DEF t
    <2>11. WellFormed(t)
      <3>1. IsSeq(t) /\ Len(t) = n + 1 /\ t[n + 1] = g /\ \A i \in 1..n : t[i] = run.frames[i]
        BY <2>8 DEF Grown
      <3>2. \A i \in 1..Len(t) : FitsAt(t, i)
        <4>1. \A i \in 1..Len(run.frames) : FitsAt(run.frames, i)
          BY <2>4
        <4>2. g.ordinal = Len(run.frames) /\ g.seq = CountUpTo(run.frames, Len(run.frames), Source(g))
              /\ (g.type = "Session" <=> Len(run.frames) = 0)
          BY <2>5, <2>6, <2>7
        <4>. QED  BY <2>4, <2>5, <2>8, <4>1, <4>2, FitsGrown
      <3>. HIDE DEF n
      <3>3. \A i \in 1..Len(t) : t[i].type = "End" <=> i = Len(t)
        <4>1. \A i \in 1..Len(t) : i \in 1..n \/ i = n + 1
          BY <2>4, <3>1
        <4>2. \A i \in 1..n : t[i].type # "End" /\ i # Len(t)
          BY <2>4, <3>1
        <4>3. t[n + 1].type = "End" /\ Len(t) = n + 1
          BY <2>5, <3>1
        <4>. QED  BY <4>1, <4>2, <4>3
      <3>4. Len(t) >= 1 /\ t[1].body = [uuid |-> "u"]
        BY <2>4, <2>7, <3>1
      <3>5. t[Len(t)].body = [uuid |-> "u", frame_count |-> Len(t) - 1]
        <4>1. Len(t) - 1 = n /\ t[Len(t)] = g
          BY <2>4, <3>1
        <4>. QED  BY <2>5, <4>1
      <3>. QED  BY <3>1, <3>2, <3>3, <3>4, <3>5, Decodes
    <2>12. Over' /\ (phase' = "done" => WellFormed(run'.frames))
      BY <2>1, <2>9, <2>11 DEF Over
    <2>13. Inputs(run'.frames) = Inputs(run.frames) /\ IsRun(run') /\ run'.steps = run.steps
      BY <2>9, <2>10
    <2>. QED  BY <1>1, <2>1, <2>12, <2>13, OverKeeps
  <1>. QED  BY <1>2, <1>3

LEMMA GiveUpKeeps == ASSUME IInv, GiveUp PROVE IInv'
  <1>1. (Started \/ phase = "starting") /\ Abort("lost")
    BY DEF GiveUp, WaitingInVain, Started
  <1>. QED  BY <1>1, AbortKeeps

\* What is recorded before the replay begins.
LEMMA RecordActionKeeps == ASSUME IInv, Record PROVE IInv'
  <1>1. /\ RecordNext /\ cursor' = cursor /\ run' = run /\ session_sequence' = session_sequence
        /\ effect_sequences' = effect_sequences /\ verdict' = verdict
    BY DEF Record, runner
  <1>2. phase = "recording"
    BY <1>1 DEF RecordNext, ServeCommand, ServeClock, ServeGoalResponse, ServeResult,
                ServeCancelResponse, Serve, RecordGap, RecordEnd
  <1>3. Written(recording, counters) /\ Fresh /\ IsRun(run) /\ IsSeq(run.steps)
    BY <1>2 DEF IInv, RecordingInv, Recording, CursorInv, Started, Over, Refusals
  <1>4. \/ phase' \in {"recording", "bailed"} /\ Written(recording', counters')
        \/ phase' = "closed" /\ Closed(recording')
    BY <1>1, <1>3, RecordKeeps
  <1>5. RecordingInv' /\ ~Started' /\ ~Over' /\ (Recording' \/ phase' = "closed")
    BY <1>4 DEF RecordingInv, Recording, Started, Over
  <1>6. cursor' \in 1..Len(recording')
    <2>1. Begun(recording')
      BY <1>4 DEF Written, Closed
    <2>2. Len(recording') \in Nat /\ Len(recording') >= 2
      BY <2>1, SeqShape DEF Begun
    <2>. QED  BY <1>1, <1>3, <2>2 DEF Fresh
  <1>7. CursorInv'
    <2>1. Fresh'
      BY <1>1, <1>3 DEF Fresh
    <2>2. 1..(cursor' - 1) = {}
      BY <1>1, <1>3 DEF Fresh
    <2>. QED  BY <1>1, <1>3, <1>5, <1>6, <2>1, <2>2 DEF CursorInv
  <1>8. ReplayInv' /\ Working' /\ Refusals'
    BY <1>1, <1>3, <1>4, <1>5 DEF ReplayInv, Working, Refusals
  <1>. QED  BY <1>5, <1>7, <1>8 DEF IInv, Over

\* The adapter touches neither the recording nor the runner.
LEMMA Untouched == ASSUME IInv, UNCHANGED <<recorder, runner>> PROVE IInv'
  BY DEF recorder, runner, IInv, RecordingInv, CursorInv, ReplayInv, Working, Refusals,
         Recording, Started, Over, Reached, Fresh, EvidenceIsPrefix

LEMMA InitHolds == Init => IInv
  <1>. SUFFICES ASSUME Init PROVE IInv
    OBVIOUS
  <1>1. /\ phase = "recording" /\ recording = Opening
        /\ counters = [source \in Endpoint \X ChannelId |->
                          IF source = <<SESSION_ACTOR_ID, SESSION_CHANNEL_ID>> THEN 2 ELSE 0]
    BY DEF Init, RecordInit
  <1>2. Written(recording, counters)
    BY <1>1, OpeningWritten
  <1>3. Recording /\ ~Started /\ ~Over
    BY <1>1 DEF Recording, Started, Over
  <1>4. IsRun(run) /\ run.frames = <<>> /\ run.steps = <<>>
    BY DEF Init, IsRun, RunFields
  <1>5. Fresh
    BY <1>4 DEF Init, Fresh
  <1>6. CursorInv
    <2>1. Len(recording) \in Nat /\ Len(recording) >= 2
      BY <1>2, SeqShape DEF Written, Begun
    <2>2. cursor = 1
      BY DEF Init
    <2>. QED  BY <1>3, <1>4, <1>5, <2>1, <2>2 DEF CursorInv
  <1>. QED  BY <1>1, <1>2, <1>3, <1>4, <1>6, EmptyShape
            DEF IInv, RecordingInv, ReplayInv, Working, Refusals

LEMMA NextKeeps == IInv /\ [Next]_vars => IInv'
  <1>. SUFFICES ASSUME IInv, [Next]_vars PROVE IInv'
    OBVIOUS
  <1>1. CASE Record
    BY <1>1, RecordActionKeeps
  <1>2. CASE Adapter
    BY <1>2, Untouched DEF Adapter
  <1>3. CASE RunnerNext
    BY <1>3, LaunchKeeps, ReceiveStartedKeeps, SkipFrameKeeps, StopAtMarkerKeeps, RefuseInputKeeps,
       DeliverInputKeeps, ReceiveEffectKeeps, ReceiveProgressKeeps, ReceiveSteppedKeeps,
       SendFinishKeeps, ReceiveLateKeeps, ReceiveFinishedKeeps, ConcludeKeeps, GiveUpKeeps
       DEF RunnerNext
  <1>4. CASE UNCHANGED vars
    BY <1>4, Untouched DEF vars
  <1>. QED  BY <1>1, <1>2, <1>3, <1>4 DEF Next

LEMMA FirstIs ==
    ASSUME NEW S, NEW e, Ordered(S), Leads(e, S)
    PROVE  FirstOf(S) = e
  <1>1. e \in S /\ \A f \in S : e.ordinal <= f.ordinal
    BY DEF Ordered, Leads
  <1>. DEFINE x == FirstOf(S)
  <1>2. x \in S /\ \A f \in S : x.ordinal <= f.ordinal
    BY <1>1 DEF FirstOf
  <1>. HIDE DEF x
  <1>. QED  BY <1>1, <1>2 DEF Ordered, Leads, x

LEMMA LastIs ==
    ASSUME NEW S, NEW e, Ordered(S), Trails(e, S)
    PROVE  LastOf(S) = e
  <1>1. e \in S /\ \A f \in S : e.ordinal >= f.ordinal
    BY DEF Ordered, Trails
  <1>. DEFINE x == LastOf(S)
  <1>2. x \in S /\ \A f \in S : x.ordinal >= f.ordinal
    BY <1>1 DEF LastOf
  <1>. HIDE DEF x
  <1>. QED  BY <1>1, <1>2 DEF Ordered, Trails, x

LEMMA FirstExists ==
    ASSUME NEW S, Ordered(S), S # {}
    PROVE  Leads(FirstOf(S), S)
  <1>. DEFINE T == {e.ordinal : e \in S}
  <1>1. T \in SUBSET Nat /\ T # {}
    BY DEF Ordered
  <1>2. PICK n \in T : \A m \in T : n <= m
    <2>. HIDE DEF T
    <2>. QED  BY <1>1, LeastNumber
  <1>3. PICK e \in S : e.ordinal = n
    BY <1>2
  <1>4. ASSUME NEW f \in S, f # e PROVE e.ordinal < f.ordinal
    <2>1. e.ordinal <= f.ordinal /\ e.ordinal # f.ordinal
      BY <1>2, <1>3, <1>4 DEF Ordered
    <2>. QED  BY <2>1 DEF Ordered
  <1>5. Leads(e, S)
    BY <1>3, <1>4 DEF Leads
  <1>. QED  BY <1>5, FirstIs

\* What is added later does not change the first.
LEMMA FirstStays ==
    ASSUME NEW S, NEW T, Ordered(T), S \subseteq T, S # {},
           \A e \in T : e \in S \/ \A f \in S : f.ordinal < e.ordinal
    PROVE  FirstOf(T) = FirstOf(S)
  <1>1. Ordered(S)
    BY DEF Ordered
  <1>. DEFINE e == FirstOf(S)
  <1>2. Leads(e, S)
    BY <1>1, FirstExists
  <1>. HIDE DEF e
  <1>3. Leads(e, T)
    BY <1>2 DEF Leads
  <1>. QED  BY <1>3, FirstIs DEF e

\* The frames of a stream are ordered.
LEMMA StreamOrdered ==
    ASSUME NEW frames, Streams(frames)
    PROVE  /\ Ordered(ToSet(frames))
           /\ \A f \in ToSet(frames) : f.ordinal < Len(frames)
           /\ \A i \in 1..Len(frames) : frames[i] \in ToSet(frames) /\ frames[i].ordinal = i - 1
           /\ \A f \in ToSet(frames) : f = frames[f.ordinal + 1] /\ f.ordinal + 1 \in 1..Len(frames)
  <1>1. /\ Len(frames) \in Nat /\ DOMAIN frames = 1..Len(frames)
        /\ \A i \in 1..Len(frames) : frames[i].ordinal = i - 1
    BY SeqShape DEF Streams, FitsAt
  <1>2. ToSet(frames) = {frames[i] : i \in 1..Len(frames)}
    BY <1>1 DEF ToSet
  <1>3. \A f \in ToSet(frames) : \E i \in 1..Len(frames) : f = frames[i] /\ f.ordinal = i - 1
    BY <1>1, <1>2
  <1>4. \A f \in ToSet(frames) : f = frames[f.ordinal + 1] /\ f.ordinal + 1 \in 1..Len(frames)
    <2>. SUFFICES ASSUME NEW f \in ToSet(frames)
                  PROVE  f = frames[f.ordinal + 1] /\ f.ordinal + 1 \in 1..Len(frames)
      OBVIOUS
    <2>1. PICK i \in 1..Len(frames) : f = frames[i] /\ f.ordinal = i - 1
      BY <1>3
    <2>2. f.ordinal + 1 = i
      BY <1>1, <2>1
    <2>. QED  BY <2>1, <2>2
  <1>5. Ordered(ToSet(frames)) /\ \A f \in ToSet(frames) : f.ordinal < Len(frames)
    BY <1>1, <1>3 DEF Ordered
  <1>. QED  BY <1>1, <1>2, <1>4, <1>5

\* The set of a sequence that has grown.
LEMMA GrownSet ==
    ASSUME NEW t, NEW s, NEW x, IsSeq(s), Grown(t, s, x)
    PROVE  ToSet(t) = ToSet(s) \cup {x}
  <1>1. /\ Len(s) \in Nat /\ DOMAIN s = 1..Len(s) /\ DOMAIN t = 1..(Len(s) + 1)
        /\ t[Len(s) + 1] = x /\ \A i \in 1..Len(s) : t[i] = s[i]
    BY SeqShape DEF Grown
  <1>2. ToSet(s) = {s[i] : i \in 1..Len(s)} /\ ToSet(t) = {t[i] : i \in 1..(Len(s) + 1)}
    BY <1>1 DEF ToSet
  <1>3. ASSUME NEW i \in 1..(Len(s) + 1) PROVE t[i] \in ToSet(s) \cup {x}
    <2>1. i \in 1..Len(s) \/ i = Len(s) + 1
      BY <1>1
    <2>. QED  BY <1>1, <1>2, <2>1
  <1>4. ASSUME NEW i \in 1..Len(s) PROVE s[i] \in ToSet(t)
    <2>1. i \in 1..(Len(s) + 1)
      BY <1>1
    <2>. QED  BY <1>1, <1>2, <2>1
  <1>5. x \in ToSet(t)
    <2>1. Len(s) + 1 \in 1..(Len(s) + 1)
      BY <1>1
    <2>. QED  BY <1>1, <1>2, <2>1
  <1>. QED  BY <1>2, <1>3, <1>4, <1>5

LEMMA OrderedPart ==
    ASSUME NEW S, NEW T, Ordered(T), S \subseteq T
    PROVE  Ordered(S)
  BY DEF Ordered

LEMMA EventSets ==
    ASSUME NEW I, NEW type
    PROVE  /\ ConsumedInputs(I, type) \subseteq I.events /\ Attempts(I, type) \subseteq I.events
           /\ Commands(I) \subseteq I.events /\ Sends(I) \subseteq Attempts(I, "GoalSend")
           /\ \A callback : clocks_of(I, callback) \subseteq I.events
           /\ \A s : /\ cancels_for(I, s) \subseteq I.events
                     /\ acknowledgment(I, s) \subseteq I.events /\ Expiries(I, s) \subseteq I.events
  <1>1. \A t : ConsumedInputs(I, t) \subseteq I.events /\ Attempts(I, t) \subseteq I.events
    BY DEF ConsumedInputs, Attempts
  <1>2. Commands(I) \subseteq I.events /\ Sends(I) \subseteq Attempts(I, "GoalSend")
    BY <1>1 DEF Commands, Sends
  <1>3. \A callback : clocks_of(I, callback) \subseteq I.events
    BY <1>1 DEF clocks_of
  <1>4. \A s : /\ cancels_for(I, s) \subseteq I.events
               /\ acknowledgment(I, s) \subseteq I.events /\ Expiries(I, s) \subseteq I.events
    BY <1>1, <1>3 DEF cancels_for, acknowledgment, Expiries, ReadsInTime
  <1>. QED  BY <1>1, <1>2, <1>3, <1>4

LEMMA OpenedReads ==
    ASSUME NEW I, NEW c, NEW callback, Ordered(I.events), Opened(I, c, callback)
    PROVE  Commands(I) # {} /\ Command(I) = c.ordinal /\ CommandCallback(I) = callback
  <1>1. Ordered(Commands(I))
    BY EventSets, OrderedPart
  <1>2. FirstOf(Commands(I)) = c /\ c \in Commands(I)
    BY <1>1, FirstIs DEF Opened, Leads
  <1>3. PICK s : StepsAt(I, c.ordinal) = {s} /\ s.recorded = callback
    BY DEF Opened
  <1>4. Only(StepsAt(I, c.ordinal)) = s
    BY <1>3 DEF Only
  <1>5. Command(I) = c.ordinal
    BY <1>2 DEF Command
  <1>6. CommandCallback(I) = callback
    BY <1>3, <1>4, <1>5 DEF CommandCallback
  <1>. QED  BY <1>2, <1>5, <1>6

LEMMA SubmissionReads ==
    ASSUME NEW I, NEW c, NEW callback, NEW s, NEW k, Ordered(I.events),
           FirstSend(I, c, callback, s, k)
    PROVE  /\ Commands(I) # {} /\ Sends(I) # {} /\ FirstOf(Sends(I)) = s
           /\ ClocksBefore(I, s) # {} /\ submission(I) = FirstGoal(callback, s, k)
  <1>1. Commands(I) # {} /\ Command(I) = c.ordinal /\ CommandCallback(I) = callback
    BY OpenedReads DEF FirstSend
  <1>2. Sends(I) = {e \in Attempts(I, "GoalSend") :
                        e.ordinal > c.ordinal /\ <<callback, e.ordinal>> \in I.effects}
    BY <1>1 DEF Sends
  <1>3. s \in Attempts(I, "GoalSend") /\ s \in I.events /\ c \in I.events
    BY EventSets DEF FirstSend, Opened, Leads
  <1>4. s.ordinal > c.ordinal
    BY <1>3 DEF FirstSend, Ordered
  <1>5. Leads(s, Sends(I))
    BY <1>2, <1>3, <1>4 DEF FirstSend, Leads
  <1>6. Ordered(Sends(I))
    BY EventSets, OrderedPart
  <1>7. FirstOf(Sends(I)) = s /\ Sends(I) # {}
    BY <1>5, <1>6, FirstIs DEF Leads
  <1>. DEFINE before == {x \in clocks_of(I, callback) : x.ordinal < s.ordinal}
  <1>8. ClocksBefore(I, s) = before
    BY <1>1 DEF ClocksBefore
  <1>9. Ordered(before)
    <2>1. before \subseteq I.events
      BY EventSets
    <2>. QED  BY <2>1, OrderedPart
  <1>10. Trails(k, before)
    BY DEF FirstSend
  <1>. HIDE DEF before
  <1>11. LastOf(before) = k /\ before # {}
    BY <1>9, <1>10, LastIs DEF Trails
  <1>12. submission(I) = FirstGoal(callback, s, k)
    BY <1>1, <1>7, <1>8, <1>11 DEF submission, FirstGoal, FirstSend
  <1>. QED  BY <1>1, <1>7, <1>8, <1>11, <1>12

LEMMA AnsweredSent ==
    ASSUME NEW name, NEW I, Commands(I) # {}, Sends(I) # {}, ClocksBefore(I, FirstOf(Sends(I))) # {}
    PROVE  answered(name, I) = judged(name, I, submission(I))
  <1>. DEFINE x == submission(I)
              a == judged(name, I, x)
  <1>1. {judged(name, I, s) : s \in {x}} = {a}
    <2>. HIDE DEF x
    <2>. QED  OBVIOUS
  <1>2. answered(name, I) = Only({judged(name, I, s) : s \in {x}})
    BY DEF answered
  <1>. HIDE DEF a
  <1>3. Only({a}) = a
    BY DEF Only
  <1>. QED  BY <1>1, <1>2, <1>3 DEF a

LEMMA FinalAnswers ==
    ASSUME NEW name, NEW I, NEW v, Final(name, I, v)
    PROVE  answered(name, I) = v
  BY AnsweredSent DEF Final

\* An answer before the end is final only if there is a cancel.
LEMMA EarlyIsFinal ==
    ASSUME NEW name, NEW I, I.reason = "Scope", answered(name, I).result \in Terminal,
           Commands(I) # {} => Sends(I) # {}
    PROVE  Final(name, I, answered(name, I))
  <1>1. \A r, p : Answer(r, p).result = r
    BY DEF Answer
  <1>2. Commands(I) # {}
    <2>. SUFFICES ASSUME Commands(I) = {} PROVE FALSE
      OBVIOUS
    <2>1. answered(name, I) = Answer("Inconclusive", "goal_command_delivered")
      BY DEF answered
    <2>. QED  BY <1>1, <2>1 DEF Terminal
  <1>3. Sends(I) # {}
    BY <1>2
  <1>4. ClocksBefore(I, FirstOf(Sends(I))) # {}
    <2>. SUFFICES ASSUME ClocksBefore(I, FirstOf(Sends(I))) = {} PROVE FALSE
      OBVIOUS
    <2>1. answered(name, I) = Answer("Error", "no clock")
      BY <1>2, <1>3 DEF answered
    <2>2. answered(name, I).result = "Error"
      BY <1>1, <2>1
    <2>. QED  BY <2>2 DEF Terminal
  <1>. DEFINE s == submission(I)
  <1>5. answered(name, I) = judged(name, I, s)
    BY <1>2, <1>3, <1>4, AnsweredSent
  <1>. HIDE DEF s
  <1>6. ~(s.deadline_ns > MaxI64)
    <2>. SUFFICES ASSUME s.deadline_ns > MaxI64 PROVE FALSE
      OBVIOUS
    <2>1. judged(name, I, s) = Answer("Error", "overflow")
      BY DEF judged
    <2>. QED  BY <1>1, <1>5, <2>1 DEF Terminal
  <1>7. cancels_for(I, s) # {}
    <2>. SUFFICES ASSUME cancels_for(I, s) = {} PROVE FALSE
      OBVIOUS
    <2>1. evidence_stopped(I)
      BY DEF evidence_stopped
    <2>2. CASE name = PROPERTY_TIMEOUT_CANCEL
      <3>1. judged(name, I, s) = timeout_cancel(I, s)
        BY <1>6, <2>2 DEF judged
      <3>2. \E p : timeout_cancel(I, s) = Answer("Inconclusive", p)
        BY <2>1 DEF timeout_cancel
      <3>. QED  BY <1>1, <1>5, <3>1, <3>2 DEF Terminal
    <2>3. CASE name # PROPERTY_TIMEOUT_CANCEL
      <3>1. judged(name, I, s) = timely_ack(I, s)
        BY <1>6, <2>3 DEF judged
      <3>2. \E p : timely_ack(I, s) = Answer("Inconclusive", p)
        BY <2>1 DEF timely_ack
      <3>. QED  BY <1>1, <1>5, <3>1, <3>2 DEF Terminal
    <2>. QED  BY <2>2, <2>3
  <1>. QED  BY <1>2, <1>3, <1>4, <1>5, <1>6, <1>7 DEF Final, s

\* Later effects are no inputs, and none of them is the first.
LEMMA LaterReads ==
    ASSUME NEW I, NEW J, Ordered(J.events), Later(J, I)
    PROVE  /\ \A type \in {"Message", "Clock", "GoalResponse"} :
                 ConsumedInputs(J, type) = ConsumedInputs(I, type)
           /\ Commands(J) = Commands(I) /\ CommandCallback(J) = CommandCallback(I)
           /\ \A callback : clocks_of(J, callback) = clocks_of(I, callback)
           /\ Sends(I) \subseteq Sends(J)
           /\ \A s : /\ cancels_for(I, s) \subseteq cancels_for(J, s)
                     /\ acknowledgment(J, s) = acknowledgment(I, s)
                     /\ Expiries(J, s) = Expiries(I, s)
           /\ Sends(I) # {} => FirstOf(Sends(J)) = FirstOf(Sends(I))
           /\ \A s : cancels_for(I, s) # {} =>
                 FirstOf(cancels_for(J, s)) = FirstOf(cancels_for(I, s))
  <1>1. Consumed(J) = Consumed(I)
    BY DEF Later, Consumed
  <1>2. ASSUME NEW type \in {"Message", "Clock", "GoalResponse"}
        PROVE  ConsumedInputs(J, type) = ConsumedInputs(I, type)
    <2>1. \A e : e \in J.events /\ e.type = type <=> e \in I.events /\ e.type = type
      BY DEF Later
    <2>. QED  BY <1>1, <2>1 DEF ConsumedInputs
  <1>3. Commands(J) = Commands(I)
    BY <1>2 DEF Commands
  <1>4. Command(J) = Command(I)
    BY <1>3 DEF Command
  <1>5. \A n : StepsAt(J, n) = StepsAt(I, n)
    BY DEF Later, StepsAt
  <1>6. CommandCallback(J) = CommandCallback(I)
    BY <1>4, <1>5 DEF CommandCallback
  <1>7. \A callback : clocks_of(J, callback) = clocks_of(I, callback)
    BY <1>2 DEF clocks_of
  <1>8. \A type : /\ Attempts(I, type) \subseteq Attempts(J, type)
                  /\ \A e \in Attempts(J, type) : e \in Attempts(I, type) \/
                        \A f \in I.events : f.ordinal < e.ordinal
    BY DEF Attempts, Later
  <1>9. Sends(I) \subseteq Sends(J)
    BY <1>4, <1>6, <1>8 DEF Sends, Later
  <1>10. \A s : acknowledgment(J, s) = acknowledgment(I, s)
    BY <1>2 DEF acknowledgment
  <1>11. \A s : ReadsInTime(J, s) = ReadsInTime(I, s)
    BY <1>7, <1>10 DEF ReadsInTime
  <1>12. \A s : Expiries(J, s) = Expiries(I, s)
    BY <1>11 DEF Expiries
  <1>13. \A s : cancels_for(I, s) \subseteq cancels_for(J, s)
    BY <1>8 DEF cancels_for
  <1>14. ASSUME Sends(I) # {} PROVE FirstOf(Sends(J)) = FirstOf(Sends(I))
    <2>1. ASSUME NEW e \in Sends(J), e \notin Sends(I), NEW f \in Sends(I)
          PROVE  f.ordinal < e.ordinal
      <3>1. e \in Attempts(J, "GoalSend") /\ f \in I.events
        BY <2>1, EventSets
      <3>2. e \notin I.events
        <4>. SUFFICES ASSUME e \in I.events PROVE FALSE
          OBVIOUS
        <4>1. e \in Attempts(I, "GoalSend")
          BY <3>1 DEF Attempts
        <4>2. e.ordinal > Command(I) /\ <<CommandCallback(I), e.ordinal>> \in I.effects
          BY <1>4, <1>6, <2>1 DEF Sends, Later
        <4>3. e \in Sends(I)
          BY <4>1, <4>2 DEF Sends
        <4>. QED  BY <2>1, <4>3
      <3>3. e \in J.events
        BY <3>1, EventSets
      <3>. QED  BY <3>1, <3>2, <3>3 DEF Later
    <2>2. Ordered(Sends(J))
      BY EventSets, OrderedPart
    <2>. QED  BY <1>9, <1>14, <2>1, <2>2, FirstStays
  <1>15. ASSUME NEW s, cancels_for(I, s) # {}
         PROVE  FirstOf(cancels_for(J, s)) = FirstOf(cancels_for(I, s))
    <2>1. ASSUME NEW e \in cancels_for(J, s), e \notin cancels_for(I, s), NEW f \in cancels_for(I, s)
          PROVE  f.ordinal < e.ordinal
      <3>1. e \in Attempts(J, "CancelSend") /\ e \notin Attempts(I, "CancelSend") /\ f \in I.events
        BY <2>1 DEF cancels_for, Attempts
      <3>. QED  BY <1>8, <3>1
    <2>2. Ordered(cancels_for(J, s))
      BY EventSets, OrderedPart
    <2>. QED  BY <1>13, <1>15, <2>1, <2>2, FirstStays
  <1>. QED  BY <1>2, <1>3, <1>6, <1>7, <1>9, <1>10, <1>12, <1>13, <1>14, <1>15

\* So a final answer stays.
LEMMA FinalStays ==
    ASSUME NEW name, NEW I, NEW J, NEW v, Ordered(J.events), Later(J, I), Final(name, I, v)
    PROVE  Final(name, J, v)
  <1>1. /\ Commands(J) = Commands(I) /\ CommandCallback(J) = CommandCallback(I)
        /\ \A callback : clocks_of(J, callback) = clocks_of(I, callback)
        /\ Sends(I) \subseteq Sends(J)
        /\ FirstOf(Sends(J)) = FirstOf(Sends(I))
    BY LaterReads DEF Final
  <1>2. \A s : ClocksBefore(J, s) = ClocksBefore(I, s)
    BY <1>1 DEF ClocksBefore
  <1>3. submission(J) = submission(I)
    BY <1>1, <1>2 DEF submission
  <1>. DEFINE s == submission(I)
  <1>4. /\ cancels_for(I, s) # {} /\ cancels_for(J, s) # {} /\ Expiries(J, s) = Expiries(I, s)
        /\ FirstOf(cancels_for(J, s)) = FirstOf(cancels_for(I, s))
    BY LaterReads DEF Final
  <1>5. ~(s.deadline_ns > MaxI64) /\ v = judged(name, I, s)
    BY DEF Final
  <1>. HIDE DEF s
  <1>6. timeout_cancel(J, s) = timeout_cancel(I, s) /\ timely_ack(J, s) = timely_ack(I, s)
    BY <1>4 DEF timeout_cancel, timely_ack
  <1>7. v = judged(name, J, s)
    BY <1>5, <1>6 DEF judged
  <1>. QED  BY <1>1, <1>2, <1>3, <1>4, <1>5, <1>7 DEF Final, s

LEMMA SentMatches ==
    ASSUME NEW name, NEW I, NEW v, NEW st, NEW g, Ordered(I.events), OneSent(I, v, st, g)
    PROVE  Matches(name, v, answered(name, I))
  <1>1. \A r, p : Answer(r, p).result = r
    BY DEF Answer
  <1>2. PICK c, callback, s, k : /\ FirstSend(I, c, callback, s, k)
                                 /\ Course(I, v, st, FirstGoal(callback, s, k))
    BY DEF OneSent
  <1>. DEFINE a == FirstGoal(callback, s, k)
  <1>3. answered(name, I) = judged(name, I, a)
    BY <1>2, SubmissionReads, AnsweredSent
  <1>4. a.ordinal = s.ordinal /\ a.callback = callback
    BY DEF FirstGoal
  <1>. HIDE DEF a
  <1>5. CASE a.deadline_ns > MaxI64
    <2>1. judged(name, I, a) = Answer("Error", "overflow")
      BY <1>5 DEF judged
    <2>2. answered(name, I).result = "Error"
      BY <1>1, <1>3, <2>1
    <2>. QED  BY <2>2 DEF Matches
  <1>6. CASE ~(a.deadline_ns > MaxI64) /\ name # PROPERTY_TIMEOUT_CANCEL
    <2>1. answered(name, I) = timely_ack(I, a)
      BY <1>3, <1>6 DEF judged
    <2>2. ASSUME cancels_for(I, a) # {} PROVE answered(name, I).result = "Fail"
      BY <1>1, <2>1, <2>2 DEF timely_ack
    <2>3. v = "always-cancel" => cancels_for(I, a) # {}
      BY <1>2 DEF Course, CancelledAtOnce, a
    <2>4. v \in {"old", "fixed", "always-cancel"}
      BY <1>2 DEF Course
    <2>. QED  BY <1>6, <2>2, <2>3, <2>4 DEF Matches
  <1>7. CASE ~(a.deadline_ns > MaxI64) /\ name = PROPERTY_TIMEOUT_CANCEL
    <2>1. answered(name, I) = timeout_cancel(I, a)
      BY <1>3, <1>7 DEF judged
    <2>. DEFINE cancels == cancels_for(I, a)
                expiries == Expiries(I, a)
    <2>2. Ordered(cancels) /\ Ordered(expiries)
      BY EventSets, OrderedPart
    <2>3. CASE v = "old"
      <3>1. cancels = {}
        BY <1>2, <2>3 DEF Course, cancels_for, a
      <3>2. timeout_cancel(I, a).result # "Pass"
        BY <1>1, <3>1 DEF timeout_cancel
      <3>. QED  BY <2>1, <2>3, <3>2 DEF Matches, PROPERTY_TIMELY_ACK, PROPERTY_TIMEOUT_CANCEL
    <2>4. CASE v = "always-cancel"
      <3>1. CancelledAtOnce(I, a)
        BY <1>2, <2>4 DEF Course, a
      <3>2. PICK x \in cancels : \A y \in clocks_of(I, callback) :
                                      y.ordinal > s.ordinal => x.ordinal < y.ordinal
        BY <1>4, <3>1 DEF CancelledAtOnce
      <3>3. ASSUME expiries # {}
            PROVE  FirstOf(cancels).ordinal < FirstOf(expiries).ordinal
        <4>. DEFINE y == FirstOf(expiries)
                    z == FirstOf(cancels)
        <4>1. Leads(y, expiries) /\ Leads(z, cancels)
          BY <2>2, <3>2, <3>3, FirstExists
        <4>. HIDE DEF y, z
        <4>2. y \in clocks_of(I, callback) /\ y.ordinal > s.ordinal
          BY <1>4, <4>1 DEF Leads, Expiries, ReadsInTime
        <4>3. x.ordinal < y.ordinal
          BY <3>2, <4>2
        <4>4. z = x \/ z.ordinal < x.ordinal
          BY <4>1, <3>2 DEF Leads
        <4>5. x.ordinal \in Nat /\ y.ordinal \in Nat /\ z.ordinal \in Nat
          BY <2>2, <3>2, <4>1 DEF Ordered, Leads
        <4>6. z.ordinal < y.ordinal
          BY <4>3, <4>4, <4>5
        <4>. QED  BY <4>6 DEF y, z
      <3>4. cancels # {}
        BY <3>2
      <3>5. timeout_cancel(I, a).result = "Fail"
        BY <1>1, <3>3, <3>4 DEF timeout_cancel
      <3>. QED  BY <2>1, <2>4, <3>5 DEF Matches, PROPERTY_TIMELY_ACK, PROPERTY_TIMEOUT_CANCEL
    <2>5. CASE v = "fixed"
      <3>1. Underway(I, st, a) \/ TimedOut(I, st, a) \/ Acknowledged(I, st, a)
        BY <1>2, <2>5 DEF Course, a
      <3>2. CASE Underway(I, st, a) \/ Acknowledged(I, st, a)
        <4>1. cancels = {} /\ expiries = {}
          BY <3>2 DEF Underway, Acknowledged
        <4>2. timeout_cancel(I, a).result = "Inconclusive"
          BY <1>1, <4>1 DEF timeout_cancel
        <4>. QED  BY <1>7, <2>1, <4>2 DEF Matches, PROPERTY_TIMELY_ACK, PROPERTY_TIMEOUT_CANCEL
      <3>3. CASE TimedOut(I, st, a)
        <4>1. PICK x \in expiries : \A y \in cancels : x.ordinal < y.ordinal
          BY <3>3 DEF TimedOut
        <4>2. cancels # {} /\ expiries # {}
          BY <3>3 DEF TimedOut
        <4>. DEFINE y == FirstOf(expiries)
                    z == FirstOf(cancels)
        <4>3. Leads(y, expiries) /\ Leads(z, cancels)
          BY <2>2, <4>2, FirstExists
        <4>. HIDE DEF y, z
        <4>4. x.ordinal < z.ordinal /\ (y = x \/ y.ordinal < x.ordinal)
          BY <4>1, <4>3 DEF Leads
        <4>5. x.ordinal \in Nat /\ y.ordinal \in Nat /\ z.ordinal \in Nat
          BY <2>2, <4>1, <4>3 DEF Ordered, Leads
        <4>6. ~(z.ordinal < y.ordinal)
          BY <4>4, <4>5
        <4>7. timeout_cancel(I, a).result = "Pass"
          BY <1>1, <4>2, <4>6 DEF timeout_cancel, y, z
        <4>. QED  BY <1>7, <2>1, <2>5, <4>7 DEF Matches, PROPERTY_TIMELY_ACK, PROPERTY_TIMEOUT_CANCEL
      <3>. QED  BY <3>1, <3>2, <3>3
    <2>. QED  BY <1>2, <2>3, <2>4, <2>5 DEF Course
  <1>. QED  BY <1>5, <1>6, <1>7

LEMMA UnsentMatches ==
    ASSUME NEW name, NEW I, NEW v, NEW st, NEW g, Ordered(I.events), NoneSent(I, v, st, g),
           I.pending = waits(st)
    PROVE  Matches(name, v, answered(name, I))
  <1>1. \A r, p : Answer(r, p).result = r
    BY DEF Answer
  <1>2. CASE Commands(I) = {}
    <2>1. answered(name, I) = Answer("Inconclusive", "goal_command_delivered")
      BY <1>2 DEF answered
    <2>2. answered(name, I).result = "Inconclusive"
      BY <1>1, <2>1
    <2>. QED  BY <2>2 DEF Matches
  <1>3. CASE Commands(I) # {}
    <2>1. Sends(I) = {}
      BY DEF Sends, NoneSent
    <2>2. answered(name, I) = unsent(I)
      BY <1>3, <2>1 DEF answered
    <2>3. unsent(I).result = IF pending_for(I, CommandCallback(I)) THEN "Inconclusive" ELSE "Fail"
      BY <1>1 DEF unsent
    <2>4. CASE v = "noop"
      BY <2>2, <2>3, <2>4 DEF Matches
    <2>5. CASE v # "noop"
      <3>1. PICK c : st.tag = "AwaitClockForSend" /\ Opened(I, c, st.callback)
        BY <1>3, <2>5 DEF NoneSent
      <3>2. CommandCallback(I) = st.callback
        BY <3>1, OpenedReads
      <3>3. waits(st) = {ClockRead(st.callback)}
        BY <3>1 DEF waits
      <3>4. ClockRead(st.callback).callback = st.callback
        BY DEF ClockRead
      <3>5. pending_for(I, CommandCallback(I))
        BY <3>2, <3>3, <3>4 DEF pending_for
      <3>. QED  BY <2>2, <2>3, <3>5 DEF Matches
    <2>. QED  BY <2>4, <2>5
  <1>. QED  BY <1>2, <1>3

LEMMA StepBefore ==
    ASSUME NEW in, Step(in), state = Idle \/ (state.tag = "AwaitClockForSend" /\ variant # "noop")
    PROVE  /\ variant' = variant
           /\ \/ ~Applied /\ Silent /\ Stays
              \/ Applied /\ Silent /\ Stays /\ (in.type # "Message" \/ (variant = "noop" /\ state = Idle))
              \/ StartsCallback(in)
              \/ SendsGoal(in)
  <1>. USE DEF Applied, Silent, Stays
  <1>1. ASSUME NEW cb, NEW es, NEW progress, Consume(cb, es, progress)
        PROVE  variant' = variant /\ Applied /\ outcome'.effects = es /\ outcome'.callback = cb
    BY <1>1 DEF Consume
  <1>2. ASSUME NEW how \in {"No", "Refused"}, NotApplied(in, how)
        PROVE  variant' = variant /\ ~Applied /\ Silent /\ Stays
    BY <1>2 DEF NotApplied
  <1>3. state.tag \in {"Idle", "AwaitClockForSend"}
    BY DEF Idle
  <1>4. CASE Handles(in, CH_GOAL_COMMAND, "Message") /\ OnGoalCommand(in)
    <2>1. in.type = "Message"
      BY <1>4 DEF Handles
    <2>2. CASE in.src = ACTOR_COMMAND /\ variant = "noop"
      <3>1. Consume(in.ordinal, <<>>, <<>>) /\ Stays
        BY <1>4, <2>2 DEF OnGoalCommand
      <3>. QED  BY <1>1, <2>2, <3>1
    <2>3. CASE ~(in.src = ACTOR_COMMAND /\ variant = "noop") /\ in.src = ACTOR_COMMAND /\ state = Idle
               /\ in.body.raw
      <3>1. /\ Consume(in.ordinal, <<>>, <<>>) /\ goals_issued' = goals_issued
            /\ state' = [tag |-> "AwaitClockForSend", callback |-> in.ordinal, goal |-> in.body.goal]
        BY <1>4, <2>3 DEF OnGoalCommand
      <3>2. state'.tag = "AwaitClockForSend" /\ state'.callback = in.ordinal
        BY <3>1
      <3>. QED  BY <1>1, <2>1, <2>3, <3>1, <3>2 DEF StartsCallback
    <2>4. CASE NotApplied(in, "No")
      BY <1>2, <2>4
    <2>. QED  BY <1>4, <2>2, <2>3, <2>4 DEF OnGoalCommand
  <1>5. CASE Handles(in, CH_CLOCK, "Clock") /\ OnClock(in)
    <2>1. CASE NotApplied(in, "No")
      BY <1>2, <2>1
    <2>2. CASE ~NotApplied(in, "No")
      <3>1. AnswersPendingRead(in) /\ SendGoal(in)
        BY <1>3, <1>5, <2>2 DEF OnClock
      <3>2. state.tag = "AwaitClockForSend" /\ in.body.callback = state.callback
        <4>1. waits(state) # {}
          BY <3>1 DEF AnswersPendingRead
        <4>2. state.tag = "AwaitClockForSend"
          BY <1>3, <4>1 DEF waits
        <4>3. waits(state) = {ClockRead(state.callback)}
          BY <4>2 DEF waits
        <4>4. [kind |-> "clock_read", callback |-> in.body.callback, what |-> in.body.clock_id]
                 = ClockRead(state.callback)
          BY <3>1, <4>3 DEF AnswersPendingRead
        <4>. QED  BY <4>2, <4>4 DEF ClockRead
      <3>3. in.type = "Clock" /\ goals_issued' = goals_issued + 1
        BY <1>5, <3>1 DEF Handles, SendGoal
      <3>4. CASE variant = "always-cancel"
        <4>1. \E p : Consume(state.callback, <<goal_send(goals_issued, state.goal),
                                cancel_send(goals_issued, in.body.value_ns)>>, p)
          BY <3>1, <3>4 DEF SendGoal, goal_id
        <4>. QED  BY <1>1, <3>2, <3>3, <3>4, <4>1 DEF SendsGoal
      <3>5. CASE variant # "always-cancel"
        <4>1. \E p : Consume(state.callback, <<goal_send(goals_issued, state.goal)>>, p)
          BY <3>1, <3>5 DEF SendGoal, goal_id
        <4>2. state' = [tag |-> "AwaitGoalResponse", callback |-> state.callback,
                        goal_id |-> goals_issued, send_seq |-> sequences[CH_ACTION_GOAL],
                        deadline_ns |-> in.body.value_ns + Deadline]
          BY <3>1, <3>5 DEF SendGoal, goal_id
        <4>3. /\ state'.tag = "AwaitGoalResponse" /\ state'.callback = state.callback
              /\ state'.goal_id = goals_issued /\ state'.deadline_ns = in.body.value_ns + Deadline
          BY <4>2
        <4>. QED  BY <1>1, <3>2, <3>3, <3>5, <4>1, <4>3 DEF SendsGoal
      <3>. QED  BY <3>4, <3>5
    <2>. QED  BY <2>1, <2>2
  <1>6. CASE OnGoalResponse(in) \/ OnResult(in) \/ OnCancelResponse(in)
    <2>1. NotApplied(in, "No") \/ NotApplied(in, "Refused")
      BY <1>3, <1>6 DEF OnGoalResponse, OnResult, OnCancelResponse
    <2>. QED  BY <1>2, <2>1
  <1>7. CASE Unhandled(in) /\ in.type = "StartingState" /\ Consume(in.ordinal, <<>>, <<>>) /\ Stays
    BY <1>1, <1>7
  <1>8. CASE NotApplied(in, "No")
    BY <1>2, <1>8
  <1>. QED  BY <1>4, <1>5, <1>6, <1>7, <1>8 DEF Step

LEMMA StepAfter ==
    ASSUME NEW in, Step(in), goals_issued \in Nat \ {0}
    PROVE  /\ variant' = variant /\ goals_issued' \in Nat \ {0}
           /\ variant = "old" => Cancels(outcome'.effects) = {}
           /\ variant = "fixed" /\ Elsewhere(state) =>
                 /\ Elsewhere(state')
                 /\ \A e \in Cancels(outcome'.effects) : e.body.goal_id \in Nat \ {0}
           /\ variant = "fixed" /\ state.tag = "AwaitGoalResponse" =>
                 OutOfTime(in) \/ Responds(in) \/ Passes(in)
  <1>. USE DEF Applied, Silent
  <1>1. ASSUME NEW cb, NEW es, NEW progress, Consume(cb, es, progress)
        PROVE  variant' = variant /\ Applied /\ outcome'.effects = es
    BY <1>1 DEF Consume
  <1>2. ASSUME NEW how \in {"No", "Refused"}, NotApplied(in, how)
        PROVE  variant' = variant /\ ~Applied /\ Silent /\ state' = state /\ goals_issued' = goals_issued
    BY <1>2 DEF NotApplied
  <1>3. Cancels(<<>>) = {} /\ \A text : Cancels(<<status_effect(text)>>) = {}
    <2>1. \A text : status_effect(text).type = "Status"
      BY DEF status_effect, effect
    <2>. QED  BY <2>1 DEF Cancels
  <1>4. CASE \E how \in {"No", "Refused"} : NotApplied(in, how)
    BY <1>2, <1>3, <1>4 DEF Passes
  <1>5. CASE Handles(in, CH_GOAL_COMMAND, "Message") /\ OnGoalCommand(in)
    <2>1. CASE NotApplied(in, "No")
      BY <1>4, <2>1
    <2>2. CASE ~NotApplied(in, "No")
      <3>1. /\ Consume(in.ordinal, <<>>, <<>>) /\ goals_issued' = goals_issued
            /\ state' = state \/ (state = Idle /\ state'.tag = "AwaitClockForSend")
        BY <1>5, <2>2 DEF OnGoalCommand
      <3>2. variant' = variant /\ Silent /\ in.type = "Message"
        BY <1>1, <1>5, <3>1 DEF Handles
      <3>3. state = Idle => state.tag = "Idle"
        BY DEF Idle
      <3>. QED  BY <1>3, <3>1, <3>2, <3>3 DEF Passes, Elsewhere
    <2>. QED  BY <2>1, <2>2
  <1>6. CASE Handles(in, CH_CLOCK, "Clock") /\ OnClock(in)
    <2>1. CASE NotApplied(in, "No")
      BY <1>4, <2>1
    <2>2. CASE SendGoal(in) /\ state.tag # "AwaitGoalResponse"
      <3>1. goals_issued' = goals_issued + 1
        BY <2>2 DEF SendGoal
      <3>2. CASE variant = "always-cancel"
        <4>1. \E cb, es, p : Consume(cb, es, p)
          BY <2>2, <3>2 DEF SendGoal
        <4>. QED  BY <1>1, <3>1, <3>2, <4>1
      <3>3. CASE variant # "always-cancel"
        <4>. DEFINE e == goal_send(goals_issued, state.goal)
        <4>1. \E cb, p : Consume(cb, <<e>>, p)
          BY <2>2, <3>3 DEF SendGoal, goal_id
        <4>2. e.type = "GoalSend"
          BY DEF goal_send, effect
        <4>3. state'.tag = "AwaitGoalResponse" /\ state'.goal_id = goals_issued
          BY <2>2, <3>3 DEF SendGoal, goal_id
        <4>. HIDE DEF e
        <4>4. Cancels(<<e>>) = {}
          BY <4>2 DEF Cancels
        <4>. QED  BY <1>1, <2>2, <3>1, <4>1, <4>3, <4>4 DEF Elsewhere
      <3>. QED  BY <3>2, <3>3
    <2>3. CASE PollDeadline(in) /\ AnswersPendingRead(in) /\ state.tag = "AwaitGoalResponse"
      <3>1. in.type = "Clock" /\ goals_issued' = goals_issued
        BY <1>6, <2>3 DEF Handles, PollDeadline
      <3>2. in.body.callback = state.callback
        <4>1. waits(state) = {Future(state.callback, "goal_response"), ClockRead(state.callback)}
          BY <2>3 DEF waits
        <4>2. [kind |-> "clock_read", callback |-> in.body.callback, what |-> in.body.clock_id]
                 \in {Future(state.callback, "goal_response"), ClockRead(state.callback)}
          BY <2>3, <4>1 DEF AnswersPendingRead
        <4>. QED  BY <4>2 DEF Future, ClockRead
      <3>3. CASE ~DeadlinePassed(in.body.value_ns)
        <4>1. Consume(state.callback, <<>>, <<>>) /\ state' = state
          BY <2>3, <3>3 DEF PollDeadline
        <4>. QED  BY <1>1, <1>3, <3>1, <3>3, <4>1 DEF Passes, DeadlinePassed
      <3>4. CASE DeadlinePassed(in.body.value_ns) /\ variant = "fixed"
        <4>. DEFINE e == cancel_send(state.goal_id, in.body.value_ns)
        <4>1. (\E p : Consume(state.callback, <<e>>, p)) /\ state'.tag = "AwaitCancelResponse"
          BY <2>3, <3>4 DEF PollDeadline
        <4>2. e.body.goal_id = state.goal_id
          BY DEF cancel_send, effect
        <4>3. variant' = variant /\ Applied /\ outcome'.effects = <<e>>
          BY <1>1, <4>1
        <4>4. OutOfTime(in)
          BY <3>1, <3>2, <3>4, <4>1, <4>3 DEF OutOfTime, DeadlinePassed
        <4>. HIDE DEF e
        <4>5. \A x \in Cancels(<<e>>) : x = e
          BY DEF Cancels
        <4>. QED  BY <2>3, <3>1, <3>4, <4>1, <4>2, <4>3, <4>4, <4>5 DEF Elsewhere
      <3>5. CASE DeadlinePassed(in.body.value_ns) /\ variant # "fixed"
        <4>1. \E cb, p : Consume(cb, <<status_effect("timed out")>>, p)
          BY <2>3, <3>5 DEF PollDeadline
        <4>. QED  BY <1>1, <1>3, <3>1, <3>5, <4>1
      <3>. QED  BY <3>3, <3>4, <3>5
    <2>. QED  BY <1>6, <2>1, <2>2, <2>3 DEF OnClock
  <1>7. CASE Handles(in, CH_ACTION_RESPONSE, "GoalResponse") /\ OnGoalResponse(in)
    <2>1. CASE \E how \in {"No", "Refused"} : NotApplied(in, how)
      BY <1>4, <2>1
    <2>2. CASE ~ \E how \in {"No", "Refused"} : NotApplied(in, how)
      <3>1. /\ state.tag = "AwaitGoalResponse" /\ in.body.goal_id = state.goal_id
            /\ \E cb, text, p : Consume(cb, <<status_effect(text)>>, p)
            /\ state' = AfterResponse(in) /\ goals_issued' = goals_issued
        BY <1>7, <2>2 DEF OnGoalResponse
      <3>2. state'.tag # "AwaitGoalResponse"
        BY <3>1 DEF AfterResponse, Idle
      <3>3. variant' = variant /\ Applied /\ Cancels(outcome'.effects) = {}
        BY <1>1, <1>3, <3>1
      <3>. QED  BY <1>7, <3>1, <3>2, <3>3 DEF Responds, Elsewhere, Handles
    <2>. QED  BY <2>1, <2>2
  <1>8. CASE OnResult(in) \/ OnCancelResponse(in)
    <2>1. CASE \E how \in {"No", "Refused"} : NotApplied(in, how)
      BY <1>4, <2>1
    <2>2. CASE ~ \E how \in {"No", "Refused"} : NotApplied(in, how)
      <3>1. /\ state.tag # "AwaitGoalResponse" /\ state' = Idle /\ goals_issued' = goals_issued
            /\ \E cb, text, p : Consume(cb, <<status_effect(text)>>, p)
        BY <1>8, <2>2 DEF OnResult, OnCancelResponse
      <3>2. variant' = variant /\ Cancels(outcome'.effects) = {}
        BY <1>1, <1>3, <3>1
      <3>3. state'.tag # "AwaitGoalResponse"
        BY <3>1 DEF Idle
      <3>. QED  BY <3>1, <3>2, <3>3 DEF Elsewhere
    <2>. QED  BY <2>1, <2>2
  <1>9. CASE /\ in.type = "StartingState" /\ Consume(in.ordinal, <<>>, <<>>)
             /\ state' = state /\ goals_issued' = goals_issued
    BY <1>1, <1>3, <1>9 DEF Passes
  <1>. QED  BY <1>4, <1>5, <1>6, <1>7, <1>8, <1>9 DEF Step

LEMMA ArrivedMade ==
    ASSUME NEW e, NEW n
    PROVE  /\ Arrived(e, n).ordinal = n /\ Arrived(e, n).type = e.type
           /\ Arrived(e, n).flags = e.flags /\ Arrived(e, n).dst = e.dst
           /\ Arrived(e, n).body = e.body
  BY DEF Arrived, EffectFrame, frame

LEMMA ArrivalsFew ==
    ASSUME NEW a, NEW b, NEW n \in Nat
    PROVE  /\ Arrivals(<<>>, n) = {} /\ Arrivals(<<a>>, n) = {Arrived(a, n)}
           /\ Arrivals(<<a, b>>, n) = {Arrived(a, n), Arrived(b, n + 1)}
  <1>1. Arrivals(<<>>, n) = {}
    BY DEF Arrivals
  <1>2. Arrivals(<<a>>, n) = {Arrived(a, n)}
    <2>1. DOMAIN <<a>> = {1} /\ <<a>>[1] = a /\ n + 1 - 1 = n
      OBVIOUS
    <2>. QED  BY <2>1 DEF Arrivals
  <1>3. Arrivals(<<a, b>>, n) = {Arrived(a, n), Arrived(b, n + 1)}
    <2>. DEFINE t == <<a, b>>
    <2>1. DOMAIN t = {1, 2} /\ t[1] = a /\ t[2] = b /\ n + 1 - 1 = n /\ n + 2 - 1 = n + 1
      OBVIOUS
    <2>. HIDE DEF t
    <2>2. Arrivals(t, n) = {Arrived(t[1], n + 1 - 1), Arrived(t[2], n + 2 - 1)}
      BY <2>1 DEF Arrivals
    <2>. QED  BY <2>1, <2>2 DEF t
  <1>. QED  BY <1>1, <1>2, <1>3

\* The cancels among the frames are those among the effects.
LEMMA ArrivalsCancel ==
    ASSUME NEW es, NEW n, NEW f \in Arrivals(es, n), f.type = "CancelSend"
    PROVE  \E e \in Cancels(es) : f.body = e.body
  <1>1. PICK i \in DOMAIN es : f = Arrived(es[i], n + i - 1)
    BY DEF Arrivals
  <1>2. es[i].type = "CancelSend" /\ f.body = es[i].body
    BY <1>1, ArrivedMade
  <1>. QED  BY <1>2 DEF Cancels

LEMMA OpenedStays ==
    ASSUME NEW I, NEW J, NEW w, NEW ok, NEW cb, NEW F, Grows(J, I, w, ok, cb, F),
           NEW c, NEW callback, Opened(I, c, callback)
    PROVE  Opened(J, c, callback) /\ c.ordinal < w.ordinal /\ c.ordinal \in Nat
  <1>1. Commands(J) = Commands(I) \cup {e \in {w} : ok /\ e.type = "Message"}
    BY DEF Commands, Grows
  <1>2. c \in Commands(I) /\ c.ordinal < w.ordinal /\ c.ordinal \in Nat
    BY DEF Opened, Leads, Commands, Grows
  <1>3. Leads(c, Commands(J))
    BY <1>1, <1>2 DEF Opened, Leads
  <1>4. StepsAt(J, c.ordinal) = StepsAt(I, c.ordinal)
    BY <1>2 DEF Grows
  <1>. QED  BY <1>2, <1>3, <1>4 DEF Opened

LEMMA ClocksStay ==
    ASSUME NEW I, NEW J, NEW w, NEW ok, NEW cb, NEW F, Grows(J, I, w, ok, cb, F), NEW callback
    PROVE  /\ clocks_of(J, callback) = clocks_of(I, callback) \cup
                 {e \in {w} : ok /\ e.type = "Clock" /\ e.body.callback = callback}
           /\ \A e \in clocks_of(I, callback) : e.ordinal \in Nat /\ e.ordinal < w.ordinal
  <1>1. ConsumedInputs(J, "Clock") = ConsumedInputs(I, "Clock") \cup {e \in {w} : ok /\ e.type = "Clock"}
    BY DEF Grows
  <1>2. \A e \in ConsumedInputs(I, "Clock") : e.ordinal \in Nat /\ e.ordinal < w.ordinal
    BY DEF Grows
  <1>. QED  BY <1>1, <1>2 DEF clocks_of

LEMMA SendStays ==
    ASSUME NEW I, NEW J, NEW w, NEW ok, NEW cb, NEW F, Grows(J, I, w, ok, cb, F),
           NEW c, NEW callback, NEW s, NEW k, FirstSend(I, c, callback, s, k)
    PROVE  FirstSend(J, c, callback, s, k) /\ s.ordinal \in Nat /\ s.ordinal < w.ordinal
  <1>1. Opened(J, c, callback)
    BY OpenedStays DEF FirstSend
  <1>2. s \in Attempts(I, "GoalSend") /\ s.ordinal \in Nat /\ s.ordinal < w.ordinal
    BY DEF FirstSend, Leads, Grows
  <1>3. Leads(s, Attempts(J, "GoalSend"))
    <2>1. Attempts(J, "GoalSend") = Attempts(I, "GoalSend") \cup {f \in F : f.type = "GoalSend"}
      BY DEF Grows
    <2>2. \A f \in F : s.ordinal < f.ordinal
      BY <1>2 DEF Grows
    <2>. QED  BY <1>2, <2>1, <2>2 DEF FirstSend, Leads
  <1>4. {x \in clocks_of(J, callback) : x.ordinal < s.ordinal} =
           {x \in clocks_of(I, callback) : x.ordinal < s.ordinal}
    <2>1. ~(w.ordinal < s.ordinal)
      BY <1>2 DEF Grows
    <2>. QED  BY <2>1, ClocksStay
  <1>5. <<callback, s.ordinal>> \in J.effects
    BY DEF FirstSend, Grows
  <1>. QED  BY <1>1, <1>2, <1>3, <1>4, <1>5 DEF FirstSend

\* What a step adds to what is read about the goal a sent before.
LEMMA GoalReads ==
    ASSUME NEW I, NEW J, NEW w, NEW ok, NEW cb, NEW F, Grows(J, I, w, ok, cb, F),
           NEW a, a.ordinal \in Nat, a.ordinal < w.ordinal
    PROVE  /\ cancels_for(J, a) = cancels_for(I, a) \cup
                 {f \in F : /\ f.type = "CancelSend" /\ f.dst = a.server
                            /\ f.body.goal_id \in {a.goal_id, WILDCARD}}
           /\ \A e \in cancels_for(I, a) : e.ordinal \in Nat /\ e.ordinal < w.ordinal
           /\ acknowledgment(J, a) = acknowledgment(I, a) \cup
                 {e \in {w} : ok /\ e.type = "GoalResponse" /\ e.body.goal_id = a.goal_id}
           /\ \A e \in acknowledgment(I, a) : e.ordinal \in Nat /\ e.ordinal < w.ordinal
           /\ Expiries(I, a) \subseteq Expiries(J, a)
           /\ \A e \in Expiries(I, a) : e.ordinal \in Nat /\ e.ordinal < w.ordinal
           /\ \A e \in Expiries(J, a) : e \in Expiries(I, a) \/
                 /\ e = w /\ ok /\ w.type = "Clock" /\ w.body.callback = a.callback
                 /\ w.body.value_ns >= a.deadline_ns /\ acknowledgment(I, a) = {}
           /\ ok /\ w.type = "Clock" /\ w.body.callback = a.callback
                 /\ w.body.value_ns >= a.deadline_ns /\ acknowledgment(J, a) = {} =>
                 w \in Expiries(J, a)
  <1>1. w.ordinal > a.ordinal /\ \A f \in F : f.ordinal > a.ordinal
    BY DEF Grows
  <1>2. cancels_for(J, a) = cancels_for(I, a) \cup
                 {f \in F : /\ f.type = "CancelSend" /\ f.dst = a.server
                            /\ f.body.goal_id \in {a.goal_id, WILDCARD}}
    <2>1. Attempts(J, "CancelSend") = Attempts(I, "CancelSend") \cup {f \in F : f.type = "CancelSend"}
      BY DEF Grows
    <2>. QED  BY <1>1, <2>1 DEF cancels_for
  <1>3. \A e \in cancels_for(I, a) : e.ordinal \in Nat /\ e.ordinal < w.ordinal
    BY DEF cancels_for, Grows
  <1>4. acknowledgment(J, a) = acknowledgment(I, a) \cup
                 {e \in {w} : ok /\ e.type = "GoalResponse" /\ e.body.goal_id = a.goal_id}
    <2>1. ConsumedInputs(J, "GoalResponse") =
             ConsumedInputs(I, "GoalResponse") \cup {e \in {w} : ok /\ e.type = "GoalResponse"}
      BY DEF Grows
    <2>. QED  BY <1>1, <2>1 DEF acknowledgment
  <1>5. \A e \in acknowledgment(I, a) : e.ordinal \in Nat /\ e.ordinal < w.ordinal
    BY DEF acknowledgment, Grows
  <1>6. /\ clocks_of(J, a.callback) = clocks_of(I, a.callback) \cup
              {e \in {w} : ok /\ e.type = "Clock" /\ e.body.callback = a.callback}
        /\ \A e \in clocks_of(I, a.callback) : e.ordinal \in Nat /\ e.ordinal < w.ordinal
    BY ClocksStay
  <1>7. \A e \in Expiries(I, a) : e \in clocks_of(I, a.callback)
    BY DEF Expiries, ReadsInTime
  <1>8. ASSUME NEW e \in Expiries(I, a) PROVE e \in Expiries(J, a)
    <2>1. /\ e \in clocks_of(J, a.callback) /\ e.ordinal > a.ordinal /\ e.ordinal < w.ordinal
          /\ e.body.value_ns >= a.deadline_ns /\ \A ack \in acknowledgment(I, a) : e.ordinal < ack.ordinal
      BY <1>6, <1>7 DEF Expiries, ReadsInTime
    <2>2. \A ack \in acknowledgment(J, a) : e.ordinal < ack.ordinal
      BY <1>4, <2>1
    <2>. QED  BY <2>1, <2>2 DEF Expiries, ReadsInTime
  <1>9. ASSUME NEW e \in Expiries(J, a), e \notin Expiries(I, a)
        PROVE  /\ e = w /\ ok /\ w.type = "Clock" /\ w.body.callback = a.callback
               /\ w.body.value_ns >= a.deadline_ns /\ acknowledgment(I, a) = {}
    <2>1. /\ e \in clocks_of(J, a.callback) /\ e.ordinal > a.ordinal
          /\ e.body.value_ns >= a.deadline_ns
          /\ \A ack \in acknowledgment(I, a) : e.ordinal < ack.ordinal
      BY <1>4 DEF Expiries, ReadsInTime
    <2>2. e \notin clocks_of(I, a.callback)
      BY <1>9, <2>1 DEF Expiries, ReadsInTime
    <2>3. e = w /\ ok /\ w.type = "Clock" /\ w.body.callback = a.callback
      BY <1>6, <2>1, <2>2
    <2>4. acknowledgment(I, a) = {}
      BY <1>5, <2>1, <2>3 DEF Grows
    <2>. QED  BY <2>1, <2>3, <2>4
  <1>10. ASSUME ok, w.type = "Clock", w.body.callback = a.callback,
                w.body.value_ns >= a.deadline_ns, acknowledgment(J, a) = {}
         PROVE  w \in Expiries(J, a)
    BY <1>1, <1>6, <1>10 DEF Expiries, ReadsInTime
  <1>. QED  BY <1>2, <1>3, <1>4, <1>5, <1>6, <1>7, <1>8, <1>9, <1>10

\* Once the first goal has been sent.
LEMMA SentFollows ==
    ASSUME NEW in, Step(in), NEW I, NEW J, NEW w, w.type = in.type, w.body = in.body,
           Grows(J, I, w, Applied, outcome'.callback, Arrivals(outcome'.effects, w.ordinal + 1)),
           OneSent(I, variant, state, goals_issued)
    PROVE  OneSent(J, variant', state', goals_issued')
  <1>. DEFINE F == Arrivals(outcome'.effects, w.ordinal + 1)
  <1>1. PICK c, callback, s, k : /\ FirstSend(I, c, callback, s, k)
                                 /\ Course(I, variant, state, FirstGoal(callback, s, k))
    BY DEF OneSent
  <1>. DEFINE a == FirstGoal(callback, s, k)
  <1>2. FirstSend(J, c, callback, s, k) /\ s.ordinal \in Nat /\ s.ordinal < w.ordinal
    BY <1>1, SendStays
  <1>3. /\ a.ordinal = s.ordinal /\ a.callback = callback /\ a.goal_id = 0
        /\ a.server = ACTOR_ACTION_SERVER
    BY DEF FirstGoal
  <1>4. goals_issued \in Nat \ {0} /\ w.ordinal \in Nat
    BY DEF OneSent, Grows
  <1>5. /\ variant' = variant /\ goals_issued' \in Nat \ {0}
        /\ variant = "old" => Cancels(outcome'.effects) = {}
        /\ variant = "fixed" /\ Elsewhere(state) =>
              /\ Elsewhere(state')
              /\ \A e \in Cancels(outcome'.effects) : e.body.goal_id \in Nat \ {0}
        /\ variant = "fixed" /\ state.tag = "AwaitGoalResponse" =>
              OutOfTime(in) \/ Responds(in) \/ Passes(in)
    BY <1>4, StepAfter
  <1>6. \A f \in F : f.type = "CancelSend" => \E e \in Cancels(outcome'.effects) : f.body = e.body
    BY ArrivalsCancel
  <1>7. Grows(J, I, w, Applied, outcome'.callback, F)
    OBVIOUS
  <1>8. \A f \in F : f.ordinal \in Nat /\ w.ordinal < f.ordinal
    BY DEF Grows
  <1>9. Course(I, variant, state, a)
    BY <1>1
  <1>. HIDE DEF F, a
  <1>10. /\ cancels_for(J, a) = cancels_for(I, a) \cup
              {f \in F : /\ f.type = "CancelSend" /\ f.dst = a.server
                         /\ f.body.goal_id \in {a.goal_id, WILDCARD}}
         /\ \A e \in cancels_for(I, a) : e.ordinal \in Nat /\ e.ordinal < w.ordinal
         /\ acknowledgment(J, a) = acknowledgment(I, a) \cup
              {e \in {w} : Applied /\ e.type = "GoalResponse" /\ e.body.goal_id = a.goal_id}
         /\ Expiries(I, a) \subseteq Expiries(J, a)
         /\ \A e \in Expiries(I, a) : e.ordinal \in Nat /\ e.ordinal < w.ordinal
         /\ \A e \in Expiries(J, a) : e \in Expiries(I, a) \/
              /\ e = w /\ Applied /\ w.type = "Clock" /\ w.body.callback = a.callback
              /\ w.body.value_ns >= a.deadline_ns /\ acknowledgment(I, a) = {}
         /\ Applied /\ w.type = "Clock" /\ w.body.callback = a.callback
              /\ w.body.value_ns >= a.deadline_ns /\ acknowledgment(J, a) = {} =>
              w \in Expiries(J, a)
    BY <1>2, <1>3, <1>7, GoalReads
  <1>11. CASE variant = "old"
    <2>1. Attempts(I, "CancelSend") = {}
      BY <1>9, <1>11 DEF Course
    <2>2. {f \in F : f.type = "CancelSend"} = {}
      BY <1>5, <1>6, <1>11
    <2>3. Attempts(J, "CancelSend") = {}
      BY <1>7, <2>1, <2>2 DEF Grows
    <2>. QED  BY <1>2, <1>5, <1>11, <2>3 DEF OneSent, Course
  <1>12. CASE variant = "always-cancel"
    <2>1. PICK x \in cancels_for(I, a) : \A y \in clocks_of(I, a.callback) :
                 y.ordinal > a.ordinal => x.ordinal < y.ordinal
      BY <1>9, <1>12 DEF Course, CancelledAtOnce
    <2>2. x \in cancels_for(J, a) /\ x.ordinal < w.ordinal
      BY <1>10, <2>1
    <2>3. \A y \in clocks_of(J, a.callback) : y \in clocks_of(I, a.callback) \/ y = w
      BY <1>7, ClocksStay
    <2>4. CancelledAtOnce(J, a)
      BY <2>1, <2>2, <2>3 DEF CancelledAtOnce
    <2>. QED  BY <1>2, <1>5, <1>12, <2>4 DEF OneSent, Course, a
  <1>13. CASE variant = "fixed"
    <2>1. SUFFICES Underway(J, state', a) \/ TimedOut(J, state', a) \/ Acknowledged(J, state', a)
      BY <1>2, <1>5, <1>13 DEF OneSent, Course, a
    <2>2. CASE TimedOut(I, state, a)
      <3>1. PICK x \in Expiries(I, a) : \A y \in cancels_for(I, a) : x.ordinal < y.ordinal
        BY <2>2 DEF TimedOut
      <3>2. Elsewhere(state') /\ cancels_for(J, a) # {} /\ x \in Expiries(J, a)
        BY <1>5, <1>10, <1>13, <2>2, <3>1 DEF TimedOut
      <3>3. x.ordinal \in Nat /\ x.ordinal < w.ordinal /\ \A f \in F : x.ordinal < f.ordinal
        BY <1>4, <1>8, <1>10, <3>1
      <3>4. \A y \in cancels_for(J, a) : x.ordinal < y.ordinal
        BY <1>10, <3>1, <3>3
      <3>. QED  BY <3>2, <3>4 DEF TimedOut
    <2>3. CASE Acknowledged(I, state, a)
      <3>1. Elsewhere(state') /\ acknowledgment(J, a) # {}
        BY <1>5, <1>10, <1>13, <2>3 DEF Acknowledged
      <3>2. Expiries(J, a) = {}
        BY <1>10, <2>3 DEF Acknowledged
      <3>3. {f \in F : /\ f.type = "CancelSend" /\ f.dst = a.server
                       /\ f.body.goal_id \in {a.goal_id, WILDCARD}} = {}
        <4>1. \A f \in F : f.type = "CancelSend" => f.body.goal_id \in Nat \ {0}
          BY <1>5, <1>6, <1>13, <2>3 DEF Acknowledged
        <4>2. a.goal_id \notin Nat \ {0} /\ WILDCARD \notin Nat \ {0}
          BY <1>3 DEF WILDCARD
        <4>. QED  BY <4>1, <4>2
      <3>4. cancels_for(J, a) = {}
        BY <1>10, <2>3, <3>3 DEF Acknowledged
      <3>. QED  BY <3>1, <3>2, <3>4 DEF Acknowledged
    <2>4. CASE Underway(I, state, a)
      <3>1. OutOfTime(in) \/ Responds(in) \/ Passes(in)
        BY <1>5, <1>13, <2>4 DEF Underway
      <3>2. CASE OutOfTime(in)
        <4>. DEFINE e == cancel_send(state.goal_id, in.body.value_ns)
                    y == Arrived(e, w.ordinal + 1)
        <4>1. F = {y}
          <5>. HIDE DEF e
          <5>1. outcome'.effects = <<e>> /\ w.ordinal + 1 \in Nat
            BY <1>4, <3>2 DEF OutOfTime, e
          <5>2. F = Arrivals(<<e>>, w.ordinal + 1)
            BY <5>1 DEF F
          <5>. QED  BY <5>1, <5>2, ArrivalsFew
        <4>2. /\ e.type = "CancelSend" /\ e.dst = ACTOR_ACTION_SERVER
              /\ e.body.goal_id = state.goal_id
          BY DEF cancel_send, effect
        <4>. HIDE DEF e
        <4>3. /\ y.type = "CancelSend" /\ y.dst = a.server /\ y.body.goal_id = a.goal_id
              /\ y.ordinal = w.ordinal + 1
          BY <1>3, <2>4, <4>2, ArrivedMade DEF Underway
        <4>. HIDE DEF y
        <4>4. cancels_for(J, a) = {y}
          BY <1>10, <2>4, <4>1, <4>3 DEF Underway
        <4>5. acknowledgment(J, a) = {}
          BY <1>10, <2>4, <3>2 DEF Underway, OutOfTime
        <4>6. w \in Expiries(J, a)
          BY <1>10, <2>4, <3>2, <4>5 DEF Underway, OutOfTime
        <4>7. w.ordinal < y.ordinal
          BY <1>4, <4>3
        <4>8. Elsewhere(state')
          BY <3>2 DEF OutOfTime, Elsewhere
        <4>. QED  BY <4>4, <4>6, <4>7, <4>8 DEF TimedOut
      <3>3. CASE Responds(in)
        <4>1. w \in acknowledgment(J, a)
          BY <1>3, <1>10, <2>4, <3>3 DEF Responds, Underway
        <4>2. Expiries(J, a) = {}
          BY <1>10, <2>4, <3>3 DEF Responds, Underway
        <4>3. cancels_for(J, a) = {}
          BY <1>6, <1>10, <2>4, <3>3 DEF Responds, Underway
        <4>4. Elsewhere(state')
          BY <3>3 DEF Responds, Elsewhere
        <4>. QED  BY <4>1, <4>2, <4>3, <4>4 DEF Acknowledged
      <3>4. CASE Passes(in)
        <4>1. F = {}
          <5>1. outcome'.effects = <<>>
            BY <3>4 DEF Passes, Silent
          <5>. QED  BY <5>1 DEF Arrivals, F
        <4>2. cancels_for(J, a) = {}
          BY <1>10, <2>4, <4>1 DEF Underway
        <4>3. acknowledgment(J, a) = {}
          BY <1>10, <2>4, <3>4 DEF Underway, Passes
        <4>4. Expiries(J, a) = {}
          BY <1>10, <2>4, <3>4 DEF Underway, Passes
        <4>. QED  BY <2>4, <3>4, <4>2, <4>3, <4>4 DEF Underway, Passes
      <3>. QED  BY <3>1, <3>2, <3>3, <3>4
    <2>. QED  BY <1>9, <1>13, <2>2, <2>3, <2>4 DEF Course
  <1>. QED  BY <1>9, <1>11, <1>12, <1>13 DEF Course

\* A step that is not applied, or takes an input of no concern, adds nothing.
LEMMA NothingAdded ==
    ASSUME NEW I, NEW J, NEW w, NEW ok, NEW cb, Grows(J, I, w, ok, cb, {}),
           NEW v, NEW st, NEW g, NoneSent(I, v, st, g), ok /\ w.type = "Message" => v = "noop" /\ st = Idle
    PROVE  NoneSent(J, v, st, g)
  <1>1. /\ J.effects = {} /\ Attempts(J, "GoalSend") = {} /\ Attempts(J, "CancelSend") = {}
    BY DEF NoneSent, Grows
  <1>2. CASE v = "noop" /\ st = Idle
    BY <1>1, <1>2 DEF NoneSent
  <1>3. CASE ~(v = "noop" /\ st = Idle)
    <2>1. Commands(J) = Commands(I)
      BY <1>3 DEF Commands, Grows
    <2>2. \A c : Opened(I, c, st.callback) => Opened(J, c, st.callback)
      BY OpenedStays
    <2>. QED  BY <1>1, <2>1, <2>2 DEF NoneSent
  <1>. QED  BY <1>2, <1>3

LEMMA ArrivalsTwo ==
    ASSUME NEW t, NEW a, NEW b, NEW n \in Nat, t = <<a, b>>
    PROVE  Arrivals(t, n) = {Arrived(a, n), Arrived(b, n + 1)}
  <1>1. DOMAIN t = {1, 2} /\ t[1] = a /\ t[2] = b /\ n + 1 - 1 = n /\ n + 2 - 1 = n + 1
    OBVIOUS
  <1>2. Arrivals(t, n) = {Arrived(t[1], n + 1 - 1), Arrived(t[2], n + 2 - 1)}
    BY <1>1 DEF Arrivals
  <1>. QED  BY <1>1, <1>2

\* The first goal is sent.
LEMMA FirstSendFollows ==
    ASSUME NEW in, SendsGoal(in), variant \in Variant, variant' = variant,
           NEW I, NEW J, NEW w, w.type = in.type, w.body = in.body,
           Grows(J, I, w, Applied, outcome'.callback, Arrivals(outcome'.effects, w.ordinal + 1)),
           NoneSent(I, variant, state, goals_issued)
    PROVE  OneSent(J, variant', state', goals_issued')
  <1>. DEFINE F == Arrivals(outcome'.effects, w.ordinal + 1)
              callback == state.callback
              p == goal_send(0, state.goal)
              q == cancel_send(0, in.body.value_ns)
              s == Arrived(p, w.ordinal + 1)
              x == Arrived(q, w.ordinal + 2)
              a == FirstGoal(callback, s, w)
  <1>1. Grows(J, I, w, TRUE, callback, F)
    BY DEF SendsGoal, Applied
  <1>2. goals_issued = 0 /\ variant # "noop" /\ goals_issued' = 1
    BY DEF NoneSent, SendsGoal, Idle
  <1>3. PICK c : Opened(I, c, callback)
    BY DEF NoneSent, SendsGoal, Idle
  <1>4. w.ordinal \in Nat /\ w.ordinal + 1 \in Nat /\ (w.ordinal + 1) + 1 = w.ordinal + 2
    BY DEF Grows
  <1>5. /\ p.type = "GoalSend" /\ p.dst = ACTOR_ACTION_SERVER /\ p.body.goal_id = 0
        /\ q.type = "CancelSend" /\ q.dst = ACTOR_ACTION_SERVER /\ q.body.goal_id = 0
    BY DEF goal_send, cancel_send, effect
  <1>6. \/ variant # "always-cancel" /\ outcome'.effects = <<p>>
        \/ variant = "always-cancel" /\ outcome'.effects = <<p, q>>
    BY <1>2 DEF SendsGoal
  <1>7. a.ordinal = s.ordinal /\ a.callback = callback /\ a.goal_id = 0
        /\ a.server = ACTOR_ACTION_SERVER /\ a.deadline_ns = w.body.value_ns + Deadline
    BY DEF FirstGoal
  <1>. HIDE DEF p, q
  <1>8. \/ variant # "always-cancel" /\ F = {s}
        \/ variant = "always-cancel" /\ F = {s, x}
    <2>1. CASE outcome'.effects = <<p>> /\ variant # "always-cancel"
      <3>1. F = Arrivals(<<p>>, w.ordinal + 1)
        BY <2>1
      <3>. QED  BY <1>4, <2>1, <3>1, ArrivalsFew
    <2>2. CASE outcome'.effects = <<p, q>> /\ variant = "always-cancel"
      <3>1. F = {Arrived(p, w.ordinal + 1), Arrived(q, (w.ordinal + 1) + 1)}
        BY <1>4, <2>2, ArrivalsTwo
      <3>. QED  BY <1>4, <2>2, <3>1
    <2>. QED  BY <1>6, <2>1, <2>2
  <1>9. /\ s.type = "GoalSend" /\ s.ordinal = w.ordinal + 1 /\ s.dst = ACTOR_ACTION_SERVER
        /\ s.body.goal_id = 0
        /\ x.type = "CancelSend" /\ x.ordinal = w.ordinal + 2 /\ x.dst = ACTOR_ACTION_SERVER
        /\ x.body.goal_id = 0
    BY <1>5, ArrivedMade
  <1>. HIDE DEF F, s, x, a
  <1>10. Opened(J, c, callback) /\ c.ordinal \in Nat /\ c.ordinal < w.ordinal
    BY <1>1, <1>3, OpenedStays
  <1>11. Attempts(J, "GoalSend") = {s} /\ Attempts(J, "CancelSend") = {f \in F : f.type = "CancelSend"}
    <2>1. /\ Attempts(I, "GoalSend") = {} /\ Attempts(I, "CancelSend") = {}
          /\ Attempts(J, "GoalSend") = Attempts(I, "GoalSend") \cup {f \in F : f.type = "GoalSend"}
          /\ Attempts(J, "CancelSend") = Attempts(I, "CancelSend") \cup {f \in F : f.type = "CancelSend"}
      BY <1>1 DEF NoneSent, Grows
    <2>2. {f \in F : f.type = "GoalSend"} = {s}
      BY <1>8, <1>9
    <2>. QED  BY <2>1, <2>2
  <1>12. /\ clocks_of(J, callback) = clocks_of(I, callback) \cup {w}
         /\ \A e \in clocks_of(I, callback) : e.ordinal \in Nat /\ e.ordinal < w.ordinal
    <2>1. w.type = "Clock" /\ w.body.callback = callback
      BY DEF SendsGoal
    <2>2. /\ clocks_of(J, callback) = clocks_of(I, callback) \cup
                {e \in {w} : TRUE /\ e.type = "Clock" /\ e.body.callback = callback}
          /\ \A e \in clocks_of(I, callback) : e.ordinal \in Nat /\ e.ordinal < w.ordinal
      BY <1>1, ClocksStay
    <2>3. {e \in {w} : TRUE /\ e.type = "Clock" /\ e.body.callback = callback} = {w}
      BY <2>1
    <2>. QED  BY <2>2, <2>3
  <1>13. \A y \in clocks_of(J, callback) : y.ordinal < s.ordinal /\ ~(y.ordinal > s.ordinal)
    BY <1>4, <1>9, <1>12
  <1>14. Trails(w, {y \in clocks_of(J, callback) : y.ordinal < s.ordinal})
    BY <1>12, <1>13 DEF Trails
  <1>15. <<callback, s.ordinal>> \in J.effects
    BY <1>1, <1>8 DEF Grows
  <1>16. c.ordinal < s.ordinal
    BY <1>4, <1>9, <1>10
  <1>17. FirstSend(J, c, callback, s, w)
    BY <1>9, <1>10, <1>11, <1>14, <1>15, <1>16 DEF FirstSend, Leads
  <1>18. CASE variant = "old"
    <2>1. Attempts(J, "CancelSend") = {}
      BY <1>8, <1>9, <1>11, <1>18
    <2>. QED  BY <1>2, <1>17, <1>18, <2>1 DEF OneSent, Course
  <1>19. CASE variant = "always-cancel"
    <2>1. x \in Attempts(J, "CancelSend") /\ x.ordinal > s.ordinal
      BY <1>4, <1>8, <1>9, <1>11, <1>19
    <2>2. x \in cancels_for(J, a)
      BY <1>7, <1>9, <2>1 DEF cancels_for
    <2>3. CancelledAtOnce(J, a)
      BY <1>7, <1>13, <2>2 DEF CancelledAtOnce
    <2>. QED  BY <1>2, <1>17, <1>19, <2>3 DEF OneSent, Course, a
  <1>20. CASE variant = "fixed"
    <2>1. cancels_for(J, a) = {}
      BY <1>8, <1>9, <1>11, <1>20 DEF cancels_for
    <2>2. acknowledgment(J, a) = {}
      <3>1. ConsumedInputs(J, "GoalResponse") = ConsumedInputs(I, "GoalResponse")
        <4>1. w.type = "Clock"
          BY DEF SendsGoal
        <4>2. ConsumedInputs(J, "GoalResponse") =
                 ConsumedInputs(I, "GoalResponse") \cup {e \in {w} : TRUE /\ e.type = "GoalResponse"}
          BY <1>1 DEF Grows
        <4>. QED  BY <4>1, <4>2
      <3>2. \A e \in ConsumedInputs(I, "GoalResponse") : e.ordinal \in Nat /\ e.ordinal < w.ordinal
        BY <1>1 DEF Grows
      <3>3. \A e \in ConsumedInputs(J, "GoalResponse") : ~(e.ordinal > a.ordinal)
        BY <1>4, <1>7, <1>9, <3>1, <3>2
      <3>. QED  BY <3>3 DEF acknowledgment
    <2>3. Expiries(J, a) = {}
      BY <1>7, <1>13 DEF Expiries, ReadsInTime
    <2>4. /\ state'.tag = "AwaitGoalResponse" /\ state'.callback = a.callback /\ state'.goal_id = 0
          /\ state'.deadline_ns = a.deadline_ns
      BY <1>2, <1>7, <1>20 DEF SendsGoal
    <2>5. Underway(J, state', a)
      BY <2>1, <2>2, <2>3, <2>4 DEF Underway
    <2>. QED  BY <1>2, <1>17, <1>20, <2>5 DEF OneSent, Course, a
  <1>. QED  BY <1>2, <1>18, <1>19, <1>20 DEF Variant

\* The command is taken.
LEMMA CommandFollows ==
    ASSUME NEW in, StartsCallback(in), variant' = variant,
           NEW I, NEW J, NEW w, w.type = in.type, NEW cb, Grows(J, I, w, TRUE, cb, {}),
           NEW x, StepsAt(J, w.ordinal) = {x}, x.recorded = in.ordinal,
           NoneSent(I, variant, state, goals_issued)
    PROVE  NoneSent(J, variant', state', goals_issued')
  <1>1. /\ J.effects = {} /\ Attempts(J, "GoalSend") = {} /\ Attempts(J, "CancelSend") = {}
    BY DEF NoneSent, Grows
  <1>2. Commands(I) = {}
    BY DEF NoneSent, StartsCallback, Idle
  <1>3. Commands(J) = {w}
    BY <1>2 DEF Commands, Grows, StartsCallback
  <1>4. Opened(J, w, state'.callback)
    BY <1>3 DEF Opened, Leads, StartsCallback
  <1>5. goals_issued' = 0
    BY DEF NoneSent, StartsCallback
  <1>. QED  BY <1>1, <1>4, <1>5 DEF NoneSent, StartsCallback

\* Whatever the component does with an input, what it leaves behind follows.
LEMMA StepFollows ==
    ASSUME NEW in, Step(in), variant \in Variant, NEW I, NEW J, NEW w, w.type = in.type, w.body = in.body,
           Grows(J, I, w, Applied, outcome'.callback, Arrivals(outcome'.effects, w.ordinal + 1)),
           NEW x, StepsAt(J, w.ordinal) = {x}, x.recorded = in.ordinal,
           Follows(I, variant, state, goals_issued)
    PROVE  Follows(J, variant', state', goals_issued')
  <1>1. CASE OneSent(I, variant, state, goals_issued)
    BY <1>1, SentFollows DEF Follows
  <1>2. CASE NoneSent(I, variant, state, goals_issued)
    <2>1. state = Idle \/ (state.tag = "AwaitClockForSend" /\ variant # "noop")
      BY <1>2 DEF NoneSent
    <2>2. /\ variant' = variant
          /\ \/ ~Applied /\ Silent /\ Stays
             \/ Applied /\ Silent /\ Stays /\ (in.type # "Message" \/ (variant = "noop" /\ state = Idle))
             \/ StartsCallback(in)
             \/ SendsGoal(in)
      BY <2>1, StepBefore
    <2>3. Silent => Grows(J, I, w, Applied, outcome'.callback, {})
      <3>1. Silent => Arrivals(outcome'.effects, w.ordinal + 1) = {}
        BY DEF Silent, Arrivals
      <3>. QED  BY <3>1
    <2>4. CASE Silent /\ Stays /\ (Applied => in.type # "Message" \/ (variant = "noop" /\ state = Idle))
      BY <1>2, <2>2, <2>3, <2>4, NothingAdded DEF Follows, Stays
    <2>5. CASE StartsCallback(in)
      <3>1. Silent /\ Applied
        BY <2>5 DEF StartsCallback
      <3>2. Grows(J, I, w, TRUE, outcome'.callback, {})
        BY <2>3, <3>1
      <3>. QED  BY <1>2, <2>2, <2>5, <3>2, CommandFollows DEF Follows
    <2>6. CASE SendsGoal(in)
      BY <1>2, <2>2, <2>6, FirstSendFollows DEF Follows
    <2>. QED  BY <2>2, <2>4, <2>5, <2>6
  <1>. QED  BY <1>1, <1>2 DEF Follows

LEMMA FewSent ==
    ASSUME NEW a, NEW b, "ATTEMPTED" \in a.flags, "ATTEMPTED" \in b.flags, b.type # "GoalSend"
    PROVE  SentInOrder(<<>>) /\ SentInOrder(<<a>>) /\ SentInOrder(<<a, b>>)
  <1>1. SentInOrder(<<>>) /\ SentInOrder(<<a>>)
    BY DEF SentInOrder
  <1>2. SentInOrder(<<a, b>>)
    <2>. DEFINE t == <<a, b>>
    <2>1. DOMAIN t = {1, 2} /\ t[1] = a /\ t[2] = b
      OBVIOUS
    <2>. HIDE DEF t
    <2>2. SentInOrder(t)
      BY <2>1 DEF SentInOrder
    <2>. QED  BY <2>2 DEF t
  <1>. QED  BY <1>1, <1>2

\* What a step answers with.
LEMMA StepAnswers ==
    ASSUME NEW in, Step(in)
    PROVE  /\ variant' = variant /\ IsSeq(outcome'.progress) /\ SentInOrder(outcome'.effects)
           /\ outcome'.consumed \in {"Yes", "No", "Refused"}
           /\ Applied \/ Silent
  <1>. USE DEF Applied, Silent
  <1>1. ASSUME NEW cb, NEW es, NEW progress, Consume(cb, es, progress), IsSeq(progress), SentInOrder(es)
        PROVE  /\ variant' = variant /\ IsSeq(outcome'.progress) /\ SentInOrder(outcome'.effects)
               /\ outcome'.consumed = "Yes"
    BY <1>1 DEF Consume
  <1>2. ASSUME NEW how \in {"No", "Refused"}, NotApplied(in, how)
        PROVE  /\ variant' = variant /\ IsSeq(outcome'.progress) /\ SentInOrder(outcome'.effects)
               /\ outcome'.consumed \in {"No", "Refused"} /\ Silent
    BY <1>2, EmptyShape DEF NotApplied, SentInOrder
  <1>3. IsSeq(<<>>) /\ (\A a : IsSeq(<<a>>)) /\ \A a, b : IsSeq(<<a, b>>)
    <2>1. \A a : <<a>> \in Seq({a})
      OBVIOUS
    <2>2. \A a, b : <<a, b>> \in Seq({a, b})
      OBVIOUS
    <2>. QED  BY <2>1, <2>2, EmptyShape DEF IsSeq
  <1>4. /\ \A text : "ATTEMPTED" \in status_effect(text).flags
        /\ \A id, goal : "ATTEMPTED" \in goal_send(id, goal).flags
        /\ \A id, now : "ATTEMPTED" \in cancel_send(id, now).flags /\ cancel_send(id, now).type = "CancelSend"
    BY DEF status_effect, goal_send, cancel_send, effect
  <1>5. /\ SentInOrder(<<>>)
        /\ \A text : SentInOrder(<<status_effect(text)>>)
        /\ \A id, now : SentInOrder(<<cancel_send(id, now)>>)
        /\ \A id, goal : SentInOrder(<<goal_send(id, goal)>>)
    BY <1>4 DEF SentInOrder
  <1>6. \A id, goal, now : SentInOrder(<<goal_send(id, goal), cancel_send(id, now)>>)
    <2>. SUFFICES ASSUME NEW id, NEW goal, NEW now
                  PROVE  SentInOrder(<<goal_send(id, goal), cancel_send(id, now)>>)
      OBVIOUS
    <2>. DEFINE p == goal_send(id, goal)
                q == cancel_send(id, now)
    <2>1. "ATTEMPTED" \in p.flags /\ "ATTEMPTED" \in q.flags /\ q.type # "GoalSend"
      BY <1>4
    <2>. HIDE DEF p, q
    <2>2. SentInOrder(<<p, q>>)
      BY <2>1, FewSent
    <2>. QED  BY <2>2 DEF p, q
  <1>7. CASE OnGoalCommand(in)
    <2>1. NotApplied(in, "No") \/ Consume(in.ordinal, <<>>, <<>>)
      BY <1>7 DEF OnGoalCommand
    <2>. QED  BY <1>1, <1>2, <1>3, <1>5, <2>1
  <1>8. CASE OnClock(in)
    <2>1. CASE PollDeadline(in)
      <3>1. \/ Consume(state.callback, <<>>, <<>>)
            \/ Consume(state.callback, <<cancel_send(state.goal_id, in.body.value_ns)>>,
                       <<"deadline_expired", "cancel_requested">>)
            \/ Consume(state.callback, <<status_effect("timed out")>>, <<"deadline_expired">>)
        BY <2>1 DEF PollDeadline
      <3>. QED  BY <1>1, <1>3, <1>5, <3>1
    <2>2. CASE SendGoal(in)
      <3>. DEFINE id == goal_id(goals_issued)
      <3>1. \/ Consume(state.callback, <<goal_send(id, state.goal), cancel_send(id, in.body.value_ns)>>,
                       <<"goal_submitted", "cancel_requested">>)
            \/ Consume(state.callback, <<goal_send(id, state.goal)>>, <<"goal_submitted">>)
        BY <2>2 DEF SendGoal
      <3>. HIDE DEF id
      <3>. QED  BY <1>1, <1>3, <1>5, <1>6, <3>1
    <2>3. CASE NotApplied(in, "No")
      BY <1>2, <2>3
    <2>. QED  BY <1>8, <2>1, <2>2, <2>3 DEF OnClock
  <1>9. CASE OnGoalResponse(in) \/ OnResult(in) \/ OnCancelResponse(in)
    <2>1. \/ NotApplied(in, "No") \/ NotApplied(in, "Refused")
          \/ \E text, p : Consume(state.callback, <<status_effect(text)>>, <<p>>)
      BY <1>9 DEF OnGoalResponse, OnResult, OnCancelResponse
    <2>. QED  BY <1>1, <1>2, <1>3, <1>5, <2>1
  <1>10. CASE NotApplied(in, "No") \/ Consume(in.ordinal, <<>>, <<>>)
    BY <1>1, <1>2, <1>3, <1>5, <1>10
  <1>. QED  BY <1>7, <1>8, <1>9, <1>10 DEF Step

-----------------------------------------------------------------------------
(***************************************************************************)
(* The lines of a step: its effects, its progress, its end.                *)
(***************************************************************************)
LEMMA TailShape ==
    ASSUME NEW s, IsSeq(s), Len(s) # 0
    PROVE  /\ IsSeq(Tail(s)) /\ Len(Tail(s)) = Len(s) - 1 /\ Head(s) = s[1] /\ Len(s) \in Nat
           /\ \A i \in 1..(Len(s) - 1) : Tail(s)[i] = s[i + 1]
  <1>1. PICK S : s \in Seq(S)
    BY DEF IsSeq
  <1>2. s # <<>> /\ Len(s) \in Nat
    BY <1>1
  <1>. DEFINE t == Tail(s)
  <1>3. t \in Seq(S) /\ Len(t) = Len(s) - 1 /\ Head(s) = s[1]
    BY <1>1, <1>2
  <1>4. \A i \in 1..(Len(s) - 1) : t[i] = s[i + 1]
    BY <1>1, <1>2
  <1>. QED  BY <1>2, <1>3, <1>4 DEF IsSeq

LEMMA JoinShape ==
    ASSUME NEW a, NEW b, IsSeq(a), IsSeq(b)
    PROVE  IsSeq(a \o b) /\ Joined(a \o b, a, b)
  <1>1. PICK S : a \in Seq(S)
    BY DEF IsSeq
  <1>2. PICK T : b \in Seq(T)
    BY DEF IsSeq
  <1>. DEFINE U == S \cup T
              c == a \o b
  <1>3. a \in Seq(U) /\ b \in Seq(U)
    BY <1>1, <1>2
  <1>. HIDE DEF U
  <1>4. c \in Seq(U) /\ Joined(c, a, b)
    BY <1>3, ConcatShape
  <1>. QED  BY <1>4 DEF IsSeq

\* A line is taken.
LEMMA LineTaken ==
    ASSUME NEW lines, StepLines(lines), lines[1].line # "stepped", NEW n \in Nat
    PROVE  /\ StepLines(Tail(lines)) /\ Ending(Tail(lines)) = Ending(lines)
           /\ lines[1].line = "effect" =>
                 /\ Incoming(lines, n) = {Arrived(lines[1].effect, n)} \cup Incoming(Tail(lines), n + 1)
                 /\ IncomingCalls(lines, n) =
                       {<<lines[1].callback, n>>} \cup IncomingCalls(Tail(lines), n + 1)
           /\ lines[1].line # "effect" =>
                 /\ Incoming(lines, n) = {} /\ IncomingCalls(lines, n) = {}
                 /\ Incoming(Tail(lines), n) = {} /\ IncomingCalls(Tail(lines), n) = {}
  <1>. DEFINE t == Tail(lines)
              m == Len(lines)
  <1>1. /\ IsSeq(t) /\ Len(t) = m - 1 /\ m \in Nat /\ m # 0
        /\ \A i \in 1..(m - 1) : t[i] = lines[i + 1]
    BY TailShape DEF StepLines
  <1>2. m # 1
    <2>1. m = 1 => Ending(lines) = lines[1]
      BY DEF Ending
    <2>. QED  BY <2>1 DEF StepLines
  <1>. HIDE DEF t
  <1>3. Ending(t) = Ending(lines) /\ Len(t) # 0
    <2>1. Len(t) \in 1..(m - 1) /\ Len(t) + 1 = m
      BY <1>1, <1>2
    <2>. QED  BY <1>1, <2>1 DEF Ending
  <1>4. \A i : i \in EffectsOf(t) <=> i \in Nat \ {0} /\ i + 1 \in EffectsOf(lines)
    <2>1. \A i : i \in 1..(m - 1) <=> i \in Nat \ {0} /\ i + 1 \in 1..m
      BY <1>1
    <2>. QED  BY <1>1, <2>1 DEF EffectsOf
  <1>5. \A i \in EffectsOf(lines) : i \in Nat \ {0} /\ (i = 1 \/ (i - 1 \in EffectsOf(t) /\ (i - 1) + 1 = i))
    <2>. SUFFICES ASSUME NEW i \in EffectsOf(lines), i # 1
                  PROVE  i \in Nat \ {0} /\ i - 1 \in EffectsOf(t) /\ (i - 1) + 1 = i
      <3>1. \A i \in EffectsOf(lines) : i \in Nat \ {0}
        BY <1>1 DEF EffectsOf
      <3>. QED  BY <3>1
    <2>1. i \in 1..m
      BY DEF EffectsOf
    <2>2. i \in Nat \ {0} /\ i - 1 \in Nat \ {0} /\ (i - 1) + 1 = i
      BY <1>1, <2>1
    <2>. QED  BY <1>4, <2>2
  <1>6. \A i \in EffectsOf(t) : t[i] = lines[i + 1] /\ i \in Nat \ {0} /\ i + 1 \in EffectsOf(lines)
    <2>1. \A i \in EffectsOf(t) : i \in 1..(m - 1)
      BY <1>1 DEF EffectsOf
    <2>. QED  BY <1>1, <1>4, <2>1
  <1>7. StepLines(t)
    <2>1. \A i \in 1..Len(t) : t[i].line = "stepped" => i = Len(t)
      <3>. SUFFICES ASSUME NEW i \in 1..(m - 1), t[i].line = "stepped" PROVE i = Len(t)
        BY <1>1
      <3>1. i + 1 \in 1..m /\ lines[i + 1].line = "stepped"
        BY <1>1
      <3>2. i + 1 = m
        BY <3>1 DEF StepLines
      <3>. QED  BY <1>1, <3>2
    <2>2. ASSUME NEW i \in EffectsOf(t)
          PROVE  /\ Ending(t).status = "Ok" /\ Emission(t[i].effect)
                 /\ t[i].effect.type = "GoalSend" => i = 1
                 /\ \A j \in 1..i : j \in EffectsOf(t)
      <3>1. i \in Nat \ {0} /\ i + 1 \in EffectsOf(lines) /\ t[i] = lines[i + 1]
        BY <1>6
      <3>2. Ending(t).status = "Ok" /\ Emission(t[i].effect)
        BY <1>3, <3>1 DEF StepLines
      <3>3. t[i].effect.type # "GoalSend"
        <4>1. i + 1 # 1
          BY <3>1
        <4>. QED  BY <3>1, <4>1 DEF StepLines
      <3>4. ASSUME NEW j \in 1..i PROVE j \in EffectsOf(t)
        <4>1. j \in Nat \ {0} /\ j + 1 \in 1..(i + 1)
          BY <3>1
        <4>2. j + 1 \in EffectsOf(lines)
          BY <3>1, <4>1 DEF StepLines
        <4>. QED  BY <1>4, <4>1, <4>2
      <3>. QED  BY <3>2, <3>3, <3>4
    <2>. QED  BY <1>1, <1>3, <2>1, <2>2 DEF StepLines
  <1>8. ASSUME lines[1].line = "effect"
        PROVE  /\ Incoming(lines, n) = {Arrived(lines[1].effect, n)} \cup Incoming(t, n + 1)
               /\ IncomingCalls(lines, n) = {<<lines[1].callback, n>>} \cup IncomingCalls(t, n + 1)
    <2>1. 1 \in EffectsOf(lines) /\ n + 1 - 1 = n
      BY <1>1, <1>8 DEF EffectsOf
    <2>2. \A i \in Nat : (n + 1) + i - 1 = n + (i + 1) - 1
      OBVIOUS
    <2>3. ASSUME NEW i \in EffectsOf(lines)
          PROVE  \/ i = 1
                 \/ \E j \in EffectsOf(t) : t[j] = lines[i] /\ (n + 1) + j - 1 = n + i - 1
      <3>. SUFFICES ASSUME i # 1
                    PROVE  \E j \in EffectsOf(t) : t[j] = lines[i] /\ (n + 1) + j - 1 = n + i - 1
        OBVIOUS
      <3>1. i - 1 \in EffectsOf(t) /\ (i - 1) + 1 = i
        BY <1>5
      <3>2. t[i - 1] = lines[i] /\ i - 1 \in Nat
        BY <1>6, <3>1
      <3>3. (n + 1) + (i - 1) - 1 = n + i - 1
        BY <2>2, <3>1, <3>2
      <3>. QED  BY <3>1, <3>2, <3>3
    <2>4. ASSUME NEW j \in EffectsOf(t)
          PROVE  \E i \in EffectsOf(lines) : t[j] = lines[i] /\ (n + 1) + j - 1 = n + i - 1
      BY <1>6, <2>2
    <2>5. Incoming(lines, n) = {Arrived(lines[1].effect, n)} \cup Incoming(t, n + 1)
      <3>1. ASSUME NEW e \in Incoming(lines, n)
            PROVE  e \in {Arrived(lines[1].effect, n)} \cup Incoming(t, n + 1)
        <4>1. PICK i \in EffectsOf(lines) : e = Arrived(lines[i].effect, n + i - 1)
          BY DEF Incoming
        <4>. QED  BY <2>1, <2>3, <4>1 DEF Incoming
      <3>2. ASSUME NEW e \in Incoming(t, n + 1) PROVE e \in Incoming(lines, n)
        <4>1. PICK j \in EffectsOf(t) : e = Arrived(t[j].effect, (n + 1) + j - 1)
          BY DEF Incoming
        <4>. QED  BY <2>4, <4>1 DEF Incoming
      <3>3. Arrived(lines[1].effect, n) \in Incoming(lines, n)
        BY <2>1 DEF Incoming
      <3>. QED  BY <3>1, <3>2, <3>3
    <2>6. IncomingCalls(lines, n) = {<<lines[1].callback, n>>} \cup IncomingCalls(t, n + 1)
      <3>1. ASSUME NEW e \in IncomingCalls(lines, n)
            PROVE  e \in {<<lines[1].callback, n>>} \cup IncomingCalls(t, n + 1)
        <4>1. PICK i \in EffectsOf(lines) : e = <<lines[i].callback, n + i - 1>>
          BY DEF IncomingCalls
        <4>. QED  BY <2>1, <2>3, <4>1 DEF IncomingCalls
      <3>2. ASSUME NEW e \in IncomingCalls(t, n + 1) PROVE e \in IncomingCalls(lines, n)
        <4>1. PICK j \in EffectsOf(t) : e = <<t[j].callback, (n + 1) + j - 1>>
          BY DEF IncomingCalls
        <4>. QED  BY <2>4, <4>1 DEF IncomingCalls
      <3>3. <<lines[1].callback, n>> \in IncomingCalls(lines, n)
        BY <2>1 DEF IncomingCalls
      <3>. QED  BY <3>1, <3>2, <3>3
    <2>. QED  BY <2>5, <2>6
  <1>9. ASSUME lines[1].line # "effect" PROVE EffectsOf(lines) = {} /\ EffectsOf(t) = {}
    <2>1. \A i \in EffectsOf(lines) : 1 \in EffectsOf(lines)
      BY <1>1 DEF StepLines, EffectsOf
    <2>2. 1 \notin EffectsOf(lines)
      BY <1>9 DEF EffectsOf
    <2>. QED  BY <1>6, <2>1, <2>2
  <1>. QED  BY <1>3, <1>7, <1>8, <1>9 DEF Incoming, IncomingCalls, t

LEMMA EmittedSeq ==
    ASSUME NEW es, Emitted(es)
    PROVE  IsSeq(es) /\ \A i \in DOMAIN es : Emission(es[i])
  <1>1. CASE es = <<>>
    BY <1>1, EmptyShape
  <1>2. ASSUME NEW a, Emission(a), es = <<a>> PROVE IsSeq(es) /\ \A i \in DOMAIN es : Emission(es[i])
    <2>1. es \in Seq({a}) /\ DOMAIN es = {1} /\ es[1] = a
      BY <1>2
    <2>. QED  BY <1>2, <2>1 DEF IsSeq
  <1>3. ASSUME NEW a, NEW b, Emission(a), Emission(b), es = <<a, b>>
        PROVE  IsSeq(es) /\ \A i \in DOMAIN es : Emission(es[i])
    <2>1. es \in Seq({a, b}) /\ DOMAIN es = {1, 2} /\ es[1] = a /\ es[2] = b
      BY <1>3
    <2>. QED  BY <1>3, <2>1 DEF IsSeq
  <1>. QED  BY <1>1, <1>2, <1>3 DEF Emitted

LEMMA LinesMade ==
    ASSUME NEW es, IsSeq(es), NEW progress, IsSeq(progress), NEW callback,
           NEW a, EffectLines(a, es, callback), NEW b, ProgressLines(b, progress),
           NEW z, z.line = "stepped", es # <<>> => z.status = "Ok",
           SentInOrder(es), \A i \in DOMAIN es : Emission(es[i])
    PROVE  LET lines == a \o b \o <<z>>
           IN  StepLines(lines) /\ Ending(lines) = z /\ Tells(lines, es, callback)
  <1>. DEFINE c == a \o b
              t == <<z>>
              lines == c \o t
              m == Len(es)
              k == Len(progress)
  <1>1. /\ m \in Nat /\ k \in Nat /\ DOMAIN es = 1..m /\ DOMAIN progress = 1..k
    BY SeqShape
  <1>2. IsSeq(a) /\ Len(a) = m /\ IsSeq(b) /\ Len(b) = k
    BY MappedShape DEF EffectLines, ProgressLines
  <1>3. IsSeq(t) /\ Len(t) = 1 /\ t[1] = z
    <2>1. t \in Seq({z})
      OBVIOUS
    <2>. QED  BY <2>1 DEF IsSeq
  <1>. HIDE DEF t
  <1>4. IsSeq(c) /\ Joined(c, a, b)
    BY <1>2, JoinShape
  <1>. HIDE DEF c
  <1>5. IsSeq(lines) /\ Joined(lines, c, t)
    BY <1>3, <1>4, JoinShape
  <1>. HIDE DEF lines
  <1>6. Len(c) = m + k /\ Len(lines) = m + k + 1
    BY <1>2, <1>3, <1>4, <1>5 DEF Joined
  <1>7. ASSUME NEW i \in 1..m PROVE lines[i] = a[i] /\ i \in 1..Len(lines)
    <2>1. i \in 1..Len(a) /\ i \in 1..Len(c) /\ i \in 1..Len(lines)
      BY <1>1, <1>2, <1>6
    <2>. QED  BY <1>4, <1>5, <2>1 DEF Joined
  <1>8. ASSUME NEW i \in (m + 1)..(m + k) PROVE lines[i].line = "progress"
    <2>1. i \in (Len(a) + 1)..(Len(a) + Len(b)) /\ i \in 1..Len(c) /\ i - Len(a) \in 1..k
      BY <1>1, <1>2, <1>6
    <2>2. lines[i] = c[i] /\ c[i] = b[i - Len(a)]
      BY <1>4, <1>5, <2>1 DEF Joined
    <2>. QED  BY <1>1, <2>1, <2>2 DEF ProgressLines
  <1>9. lines[m + k + 1] = z
    <2>1. m + k + 1 \in (Len(c) + 1)..(Len(c) + Len(t)) /\ (m + k + 1) - Len(c) = 1
      BY <1>1, <1>3, <1>6
    <2>. QED  BY <1>3, <1>5, <2>1 DEF Joined
  <1>10. Ending(lines) = z
    BY <1>6, <1>9 DEF Ending
  <1>11. \A i \in 1..Len(lines) : i \in 1..m \/ i \in (m + 1)..(m + k) \/ i = m + k + 1
    BY <1>1, <1>6
  <1>12. EffectsOf(lines) = 1..m
    BY <1>1, <1>7, <1>8, <1>9, <1>11 DEF EffectsOf, EffectLines
  <1>13. \A i \in 1..Len(lines) : lines[i].line = "stepped" => i = Len(lines)
    BY <1>1, <1>6, <1>7, <1>8, <1>11 DEF EffectLines
  <1>14. ASSUME NEW i \in EffectsOf(lines)
         PROVE  /\ Ending(lines).status = "Ok" /\ Emission(lines[i].effect)
                /\ lines[i].effect.type = "GoalSend" => i = 1
                /\ \A j \in 1..i : j \in EffectsOf(lines)
    <2>1. i \in 1..m /\ lines[i].effect = es[i]
      BY <1>1, <1>7, <1>12 DEF EffectLines
    <2>2. es # <<>>
      BY <1>1, <2>1
    <2>. QED  BY <1>1, <1>10, <1>12, <2>1, <2>2 DEF SentInOrder
  <1>15. StepLines(lines)
    <2>1. Len(lines) # 0
      BY <1>1, <1>6
    <2>. QED  BY <1>5, <1>10, <1>13, <1>14, <2>1 DEF StepLines
  <1>16. \A i \in DOMAIN es : lines[i].effect = es[i] /\ lines[i].callback = callback
    BY <1>1, <1>7 DEF EffectLines
  <1>. QED  BY <1>1, <1>10, <1>12, <1>15, <1>16 DEF lines, c, t, Tells

\* The frames they become are those of the effects.
LEMMA LinesArrive ==
    ASSUME NEW lines, NEW es, NEW callback, NEW n, Tells(lines, es, callback)
    PROVE  /\ Incoming(lines, n) = Arrivals(es, n)
           /\ IncomingCalls(lines, n) = Calls(callback, Arrivals(es, n))
  <1>1. Incoming(lines, n) = Arrivals(es, n)
    BY DEF Incoming, Arrivals, Tells
  <1>2. \A i : Arrived(es[i], n + i - 1).ordinal = n + i - 1
    BY ArrivedMade
  <1>3. ASSUME NEW e \in IncomingCalls(lines, n) PROVE e \in Calls(callback, Arrivals(es, n))
    <2>1. PICK i \in DOMAIN es : e = <<callback, n + i - 1>>
      BY DEF IncomingCalls, Tells
    <2>. QED  BY <1>2, <2>1 DEF Arrivals, Calls
  <1>4. ASSUME NEW f \in Arrivals(es, n) PROVE <<callback, f.ordinal>> \in IncomingCalls(lines, n)
    <2>1. PICK i \in DOMAIN es : f = Arrived(es[i], n + i - 1)
      BY DEF Arrivals
    <2>. QED  BY <1>2, <2>1 DEF IncomingCalls, Tells
  <1>. QED  BY <1>1, <1>3, <1>4 DEF Calls

\* The answer to the input w, the last event so far, as it will be read.
LEMMA AheadGrows ==
    ASSUME NEW I, Ordered(I.events), NEW w, Trails(w, I.events),
           w.type \in InputTypes, Placed(I.steps, w.ordinal),
           NEW x, x.replayed = w.ordinal, NEW ok \in BOOLEAN, ok <=> x.status = "Ok",
           NEW es, IsSeq(es), SentInOrder(es), NEW callback, NEW lines, NEW n, n = w.ordinal + 1,
           Incoming(lines, n) = Arrivals(es, n),
           IncomingCalls(lines, n) = Calls(callback, Arrivals(es, n))
    PROVE  /\ Grows(Ahead(I, x, lines, n), I, w, ok, callback, Arrivals(es, w.ordinal + 1))
           /\ StepsAt(Ahead(I, x, lines, n), w.ordinal) = {x}
  <1>. DEFINE J == Ahead(I, x, lines, n)
              F == Arrivals(es, n)
  <1>0. /\ w \in I.events /\ \A e \in I.events : e = w \/ e.ordinal < w.ordinal
        /\ \A s \in I.steps : s.replayed \in Int /\ s.replayed < w.ordinal
    BY DEF Trails, Placed
  <1>1. /\ J.events = I.events \cup F /\ J.steps = I.steps \cup {x}
        /\ J.effects = I.effects \cup {<<callback, f.ordinal>> : f \in F}
    BY DEF Ahead, Calls
  <1>2. w.ordinal \in Nat /\ n \in Nat /\ \A e \in I.events : e.ordinal \in Nat
    BY <1>0 DEF Ordered
  <1>3. \A f \in F : f.ordinal \in Nat /\ w.ordinal < f.ordinal /\ "ATTEMPTED" \in f.flags
    <2>. SUFFICES ASSUME NEW f \in F
                  PROVE  f.ordinal \in Nat /\ w.ordinal < f.ordinal /\ "ATTEMPTED" \in f.flags
      OBVIOUS
    <2>1. PICK i \in DOMAIN es : f = Arrived(es[i], n + i - 1)
      BY DEF Arrivals
    <2>2. f.ordinal = n + i - 1 /\ f.flags = es[i].flags /\ i \in Nat \ {0}
      BY <2>1, ArrivedMade, SeqShape
    <2>3. f.ordinal \in Nat /\ w.ordinal < f.ordinal
      BY <1>2, <2>2
    <2>. QED  BY <2>2, <2>3 DEF SentInOrder
  <1>. HIDE DEF J, F
  <1>4. /\ \A m \in Consumed(I) : m \in Int /\ m < w.ordinal
        /\ Consumed(J) = Consumed(I) \cup {m \in {w.ordinal} : ok}
    <2>1. \A m \in Consumed(I) : m \in Int /\ m < w.ordinal
      BY <1>0 DEF Consumed
    <2>2. ASSUME NEW m PROVE m \in Consumed(J) <=> m \in Consumed(I) \cup {k \in {w.ordinal} : ok}
      BY <1>1 DEF Consumed
    <2>. QED  BY <2>1, <2>2
  <1>5. ASSUME NEW type
        PROVE  /\ ConsumedInputs(J, type) = ConsumedInputs(I, type) \cup {e \in {w} : ok /\ e.type = type}
               /\ \A e \in ConsumedInputs(I, type) : e.ordinal \in Nat /\ e.ordinal < w.ordinal
    <2>1. \A e \in F : e.ordinal \notin Consumed(J)
      <3>1. \A m \in Consumed(J) : m \in Int /\ ~(w.ordinal < m)
        BY <1>2, <1>4
      <3>. QED  BY <1>3, <3>1
    <2>2. \A e \in I.events : e.ordinal = w.ordinal <=> e = w
      BY <1>0 DEF Ordered
    <2>3. ASSUME NEW e
          PROVE  e \in ConsumedInputs(J, type)
                 <=> e \in ConsumedInputs(I, type) \cup {f \in {w} : ok /\ f.type = type}
      BY <1>0, <1>1, <1>4, <2>1, <2>2 DEF ConsumedInputs
    <2>4. \A e \in ConsumedInputs(I, type) : e.ordinal \in Nat /\ e.ordinal < w.ordinal
      BY <1>2, <1>4 DEF ConsumedInputs
    <2>. QED  BY <2>3, <2>4
  <1>6. \A type : Attempts(J, type) = Attempts(I, type) \cup {f \in F : f.type = type}
    BY <1>1, <1>3 DEF Attempts
  <1>7. \A e \in Attempts(I, "GoalSend") \cup Attempts(I, "CancelSend") :
           e.ordinal \in Nat /\ e.ordinal < w.ordinal
    <2>1. w.type # "GoalSend" /\ w.type # "CancelSend"
      BY DEF InputTypes
    <2>. QED  BY <1>0, <1>2, <2>1 DEF Attempts
  <1>8. \A m : m # w.ordinal => StepsAt(J, m) = StepsAt(I, m)
    BY <1>1 DEF StepsAt
  <1>9. StepsAt(J, w.ordinal) = {x}
    BY <1>0, <1>1, <1>2 DEF StepsAt
  <1>10. Grows(J, I, w, ok, callback, F)
    BY <1>0, <1>1, <1>2, <1>3, <1>5, <1>6, <1>7, <1>8 DEF Grows
  <1>. QED  BY <1>9, <1>10 DEF J, F

\* It differs in what was not consumed only.
LEMMA UnreadMade ==
    ASSUME NEW I, NEW J, J.effects = I.effects, Consumed(J) = Consumed(I),
           \A e : e.ordinal \in Consumed(I) \/ e.type \in {"GoalSend", "CancelSend"} =>
                     (e \in J.events <=> e \in I.events),
           \A s : s.replayed \in Consumed(I) => (s \in J.steps <=> s \in I.steps)
    PROVE  Unread(J, I)
  <1>1. \A type : ConsumedInputs(J, type) = ConsumedInputs(I, type)
    BY DEF ConsumedInputs
  <1>2. \A type \in {"GoalSend", "CancelSend"} : Attempts(J, type) = Attempts(I, type)
    BY DEF Attempts
  <1>3. \A n \in Consumed(I) : StepsAt(J, n) = StepsAt(I, n)
    BY DEF StepsAt
  <1>. QED  BY <1>1, <1>2, <1>3 DEF Unread

LEMMA FollowsStays ==
    ASSUME NEW I, NEW J, Unread(J, I), NEW v, NEW st, NEW g, Follows(I, v, st, g)
    PROVE  Follows(J, v, st, g)
  <1>1. Commands(J) = Commands(I) /\ \A c \in Commands(I) : StepsAt(J, c.ordinal) = StepsAt(I, c.ordinal)
    BY DEF Unread, Commands, ConsumedInputs
  <1>2. \A c, callback : Opened(I, c, callback) => Opened(J, c, callback)
    BY <1>1 DEF Opened, Leads
  <1>3. \A callback : clocks_of(J, callback) = clocks_of(I, callback)
    BY DEF Unread, clocks_of
  <1>4. \A a : cancels_for(J, a) = cancels_for(I, a) /\ acknowledgment(J, a) = acknowledgment(I, a)
    BY DEF Unread, cancels_for, acknowledgment
  <1>5. \A a : Expiries(J, a) = Expiries(I, a)
    <2>1. \A a : ReadsInTime(J, a) = ReadsInTime(I, a)
      BY <1>3, <1>4 DEF ReadsInTime
    <2>. QED  BY <2>1 DEF Expiries
  <1>6. CASE NoneSent(I, v, st, g)
    <2>1. NoneSent(J, v, st, g)
      BY <1>1, <1>2, <1>6 DEF NoneSent, Unread
    <2>. QED  BY <2>1 DEF Follows
  <1>7. CASE OneSent(I, v, st, g)
    <2>1. PICK c, callback, s, k : /\ FirstSend(I, c, callback, s, k)
                                   /\ Course(I, v, st, FirstGoal(callback, s, k))
      BY <1>7 DEF OneSent
    <2>2. FirstSend(J, c, callback, s, k)
      BY <1>2, <1>3, <2>1 DEF FirstSend, Unread
    <2>. DEFINE a == FirstGoal(callback, s, k)
    <2>3. Course(I, v, st, a)
      BY <2>1
    <2>. HIDE DEF a
    <2>4. /\ Underway(I, st, a) => Underway(J, st, a)
          /\ TimedOut(I, st, a) => TimedOut(J, st, a)
          /\ Acknowledged(I, st, a) => Acknowledged(J, st, a)
          /\ CancelledAtOnce(I, a) => CancelledAtOnce(J, a)
      BY <1>3, <1>4, <1>5 DEF Underway, TimedOut, Acknowledged, CancelledAtOnce
    <2>5. Course(J, v, st, a)
      BY <2>3, <2>4 DEF Course, Unread
    <2>6. OneSent(J, v, st, g)
      BY <1>7, <2>2, <2>5 DEF OneSent, a
    <2>. QED  BY <2>6 DEF Follows
  <1>. QED  BY <1>6, <1>7 DEF Follows

\* The events still to come are later than those before n, each at its place.
LEMMA IncomingOrdered ==
    ASSUME NEW lines, StepLines(lines), NEW n \in Nat
    PROVE  /\ \A f \in Incoming(lines, n) :
                 /\ f.ordinal \in Nat /\ n <= f.ordinal /\ f.type \in EffectTypes
                 /\ f.type = "GoalSend" => f.ordinal = n
           /\ \A f \in Incoming(lines, n) : f.ordinal = n => f = Arrived(lines[1].effect, n)
           /\ Ordered(Incoming(lines, n))
           /\ \A callback : \A m \in Nat : <<callback, m>> \in IncomingCalls(lines, n) =>
                 n <= m /\ (m = n => callback = lines[1].callback)
  <1>0. Len(lines) \in Nat
    BY SeqShape DEF StepLines
  <1>1. \A i \in EffectsOf(lines) : i \in Nat \ {0} /\ n + i - 1 \in Nat /\ n <= n + i - 1
    BY <1>0 DEF EffectsOf
  <1>2. ASSUME NEW f \in Incoming(lines, n)
        PROVE  \E i \in EffectsOf(lines) : /\ f = Arrived(lines[i].effect, n + i - 1)
                                           /\ f.ordinal = n + i - 1 /\ f.type = lines[i].effect.type
    BY <1>2, ArrivedMade DEF Incoming
  <1>3. ASSUME NEW f \in Incoming(lines, n)
        PROVE  /\ f.ordinal \in Nat /\ n <= f.ordinal /\ f.type \in EffectTypes
               /\ f.type = "GoalSend" => f.ordinal = n
    <2>1. PICK i \in EffectsOf(lines) : f.ordinal = n + i - 1 /\ f.type = lines[i].effect.type
      BY <1>2
    <2>2. f.type \in EffectTypes /\ (f.type = "GoalSend" => i = 1)
      BY <2>1 DEF StepLines, Emission
    <2>. QED  BY <1>1, <2>1, <2>2
  <1>4. ASSUME NEW f \in Incoming(lines, n), NEW g \in Incoming(lines, n), f.ordinal = g.ordinal
        PROVE  f = g
    <2>1. PICK i \in EffectsOf(lines) : f = Arrived(lines[i].effect, n + i - 1) /\ f.ordinal = n + i - 1
      BY <1>2
    <2>2. PICK j \in EffectsOf(lines) : g = Arrived(lines[j].effect, n + j - 1) /\ g.ordinal = n + j - 1
      BY <1>2
    <2>3. i = j
      BY <1>1, <1>4, <2>1, <2>2
    <2>. QED  BY <2>1, <2>2, <2>3
  <1>5. ASSUME NEW f \in Incoming(lines, n), f.ordinal = n PROVE f = Arrived(lines[1].effect, n)
    <2>1. PICK i \in EffectsOf(lines) : f = Arrived(lines[i].effect, n + i - 1) /\ f.ordinal = n + i - 1
      BY <1>2
    <2>2. i = 1 /\ n + 1 - 1 = n
      BY <1>1, <1>5, <2>1
    <2>. QED  BY <2>1, <2>2
  <1>6. ASSUME NEW callback, NEW m \in Nat, <<callback, m>> \in IncomingCalls(lines, n)
        PROVE  n <= m /\ (m = n => callback = lines[1].callback)
    <2>1. PICK i \in EffectsOf(lines) : callback = lines[i].callback /\ m = n + i - 1
      BY <1>6 DEF IncomingCalls
    <2>2. m = n => i = 1
      BY <1>1, <2>1
    <2>. QED  BY <1>1, <2>1, <2>2
  <1>. QED  BY <1>3, <1>4, <1>5, <1>6 DEF Ordered

\* Two parts of a stream.
LEMMA OrderedUnion ==
    ASSUME NEW S, NEW T, Ordered(S), Ordered(T), \A e \in S : \A f \in T : e.ordinal < f.ordinal
    PROVE  Ordered(S \cup T)
  <1>1. \A e \in S : \A f \in T : e.ordinal # f.ordinal
    BY DEF Ordered
  <1>. QED  BY <1>1 DEF Ordered

\* An answer at an effect is about a goal that was sent, and is final.
LEMMA EarlyAnswer ==
    ASSUME NEW I, Ordered(I.events), NEW n \in Nat, \A e \in I.events : e.ordinal < n,
           NEW x, NEW lines, StepLines(lines), lines[1].line = "effect",
           NEW E, E.events = I.events \cup {Arrived(lines[1].effect, n)}, E.steps = I.steps \cup {x},
           E.effects = I.effects \cup {<<lines[1].callback, n>>}, E.reason = "Scope",
           NEW name, NEW v, NEW st, NEW g, Follows(Ahead(I, x, lines, n), v, st, g),
           answered(name, E).result \in Terminal
    PROVE  Final(name, E, answered(name, E)) /\ Matches(name, v, answered(name, E))
  <1>. DEFINE J == Ahead(I, x, lines, n)
              first == Arrived(lines[1].effect, n)
  <1>1. /\ J.events = I.events \cup Incoming(lines, n) /\ J.steps = I.steps \cup {x}
        /\ J.effects = I.effects \cup IncomingCalls(lines, n)
    BY DEF Ahead
  <1>. HIDE DEF J
  <1>2. 1 \in EffectsOf(lines) /\ n + 1 - 1 = n
    <2>1. Len(lines) \in Nat \ {0}
      BY SeqShape DEF StepLines
    <2>. QED  BY <2>1 DEF EffectsOf
  <1>3. first \in Incoming(lines, n) /\ <<lines[1].callback, n>> \in IncomingCalls(lines, n)
    BY <1>2 DEF Incoming, IncomingCalls
  <1>4. /\ \A f \in Incoming(lines, n) :
              /\ f.ordinal \in Nat /\ n <= f.ordinal /\ f.type \in EffectTypes
              /\ f.type = "GoalSend" => f.ordinal = n
        /\ \A f \in Incoming(lines, n) : f.ordinal = n => f = first
        /\ Ordered(Incoming(lines, n))
        /\ \A callback : \A m \in Nat : <<callback, m>> \in IncomingCalls(lines, n) =>
              n <= m /\ (m = n => callback = lines[1].callback)
    BY IncomingOrdered
  <1>5. first.ordinal = n
    BY ArrivedMade
  <1>. HIDE DEF first
  <1>6. \A e \in I.events : e.ordinal \in Nat
    BY DEF Ordered
  <1>7. Ordered(J.events)
    <2>1. \A e \in I.events : \A f \in Incoming(lines, n) : e.ordinal < f.ordinal
      BY <1>4, <1>6
    <2>. QED  BY <1>1, <1>4, <2>1, OrderedUnion
  <1>8. Later(J, E)
    <2>1. J.steps = E.steps /\ E.events \subseteq J.events /\ E.effects \subseteq J.effects
      BY <1>1, <1>3 DEF first
    <2>2. ASSUME NEW e \in J.events, e \notin E.events
          PROVE  /\ e.type \notin {"Message", "Clock", "GoalResponse"}
                 /\ \A f \in E.events : f.ordinal < e.ordinal
      <3>1. e \in Incoming(lines, n) /\ e # first
        BY <1>1, <2>2 DEF first
      <3>2. e.type \in EffectTypes /\ e.ordinal \in Nat /\ n < e.ordinal
        BY <1>4, <3>1
      <3>3. \A f \in E.events : f.ordinal \in Nat /\ f.ordinal <= n
        BY <1>5, <1>6 DEF first
      <3>4. \A f \in E.events : f.ordinal < e.ordinal
        BY <3>2, <3>3
      <3>. QED  BY <3>2, <3>4 DEF EffectTypes
    <2>3. ASSUME NEW callback, NEW e \in E.events, <<callback, e.ordinal>> \in J.effects
          PROVE  <<callback, e.ordinal>> \in E.effects
      <3>1. CASE <<callback, e.ordinal>> \in I.effects
        BY <3>1
      <3>2. CASE <<callback, e.ordinal>> \in IncomingCalls(lines, n)
        <4>1. e.ordinal \in Nat /\ (e \in I.events \/ e = first)
          BY <1>5, <1>6 DEF first
        <4>2. n <= e.ordinal /\ (e.ordinal = n => callback = lines[1].callback)
          BY <1>4, <3>2, <4>1
        <4>3. e = first
          BY <4>1, <4>2
        <4>. QED  BY <1>5, <4>2, <4>3
      <3>. QED  BY <1>1, <2>3, <3>1, <3>2
    <2>. QED  BY <2>1, <2>2, <2>3 DEF Later
  <1>9. OneSent(J, v, st, g)
    <2>1. J.effects # {}
      BY <1>1, <1>3
    <2>2. Follows(J, v, st, g)
      BY DEF J
    <2>. QED  BY <2>1, <2>2 DEF Follows, NoneSent
  <1>10. PICK c, callback, s, k : FirstSend(J, c, callback, s, k)
    BY <1>9 DEF OneSent
  <1>11. Command(J) = c.ordinal /\ CommandCallback(J) = callback
    BY <1>7, <1>10, OpenedReads DEF FirstSend
  <1>12. Commands(J) = Commands(E) /\ CommandCallback(J) = CommandCallback(E)
    BY <1>7, <1>8, LaterReads
  <1>13. s \in Attempts(E, "GoalSend")
    <2>1. s \in J.events /\ s.type = "GoalSend" /\ "ATTEMPTED" \in s.flags
      BY <1>10 DEF FirstSend, Leads, Attempts
    <2>2. s \in E.events
      BY <1>1, <1>4, <2>1 DEF first
    <2>. QED  BY <2>1, <2>2 DEF Attempts
  <1>14. Sends(E) # {}
    <2>1. Command(E) = c.ordinal /\ CommandCallback(E) = callback
      BY <1>11, <1>12 DEF Command
    <2>2. s.ordinal > c.ordinal
      <3>1. s \in J.events /\ c \in J.events /\ c.ordinal < s.ordinal
        BY <1>10 DEF FirstSend, Opened, Leads, Attempts, Commands, ConsumedInputs
      <3>. QED  BY <1>7, <3>1 DEF Ordered
    <2>3. <<callback, s.ordinal>> \in E.effects
      <3>1. s \in E.events /\ <<callback, s.ordinal>> \in J.effects
        BY <1>10, <1>13 DEF Attempts, FirstSend
      <3>. QED  BY <1>8, <3>1 DEF Later
    <2>4. s \in Sends(E)
      BY <1>13, <2>1, <2>2, <2>3 DEF Sends
    <2>. QED  BY <2>4
  <1>. DEFINE a == answered(name, E)
  <1>15. Final(name, E, a)
    BY <1>14, EarlyIsFinal
  <1>. HIDE DEF a
  <1>16. answered(name, J) = a
    BY <1>7, <1>8, <1>15, FinalStays, FinalAnswers
  <1>17. Matches(name, v, a)
    BY <1>7, <1>9, <1>16, SentMatches
  <1>. QED  BY <1>15, <1>17 DEF a

-----------------------------------------------------------------------------
(***************************************************************************)
(* AnswerInv is kept.                                                      *)
(***************************************************************************)
LEMMA SameRead ==
    ASSUME NEW I, NEW J, J.events = I.events, J.steps = I.steps, J.effects = I.effects
    PROVE  Unread(J, I) /\ Later(J, I)
  <1>1. Consumed(J) = Consumed(I)
    BY DEF Consumed
  <1>. QED  BY <1>1, UnreadMade DEF Later

\* An event is added that nothing has consumed.
LEMMA AddedRead ==
    ASSUME NEW I, NEW J, NEW f, NEW n \in Nat, J.events = I.events \cup {f}, J.steps = I.steps,
           J.effects = I.effects, f.ordinal = n, f.type \notin {"GoalSend", "CancelSend"},
           Placed(I.steps, n)
    PROVE  Unread(J, I)
  <1>1. Consumed(J) = Consumed(I) /\ n \notin Consumed(I)
    BY DEF Consumed, Placed
  <1>2. \A e : e.ordinal \in Consumed(I) \/ e.type \in {"GoalSend", "CancelSend"} =>
                  (e \in J.events <=> e \in I.events)
    BY <1>1
  <1>. QED  BY <1>1, <1>2, UnreadMade

\* An event is added behind the others, and no callback is added to these.
LEMMA AddedLater ==
    ASSUME NEW I, NEW J, NEW f, NEW n \in Nat, J.events = I.events \cup {f}, J.steps = I.steps,
           I.effects \subseteq J.effects,
           \A d \in J.effects : d \in I.effects \/ d[2] = n,
           Ordered(I.events), \A e \in I.events : e.ordinal < n,
           f.ordinal = n, f.type \notin {"Message", "Clock", "GoalResponse"}
    PROVE  Later(J, I) /\ Ordered(J.events)
  <1>1. Ordered(J.events)
    <2>1. Ordered({f}) /\ \A e \in I.events : \A g \in {f} : e.ordinal < g.ordinal
      BY DEF Ordered
    <2>. QED  BY <2>1, OrderedUnion
  <1>2. ASSUME NEW callback, NEW e \in J.events, <<callback, e.ordinal>> \in J.effects, e \in I.events
        PROVE  <<callback, e.ordinal>> \in I.effects
    <2>1. <<callback, e.ordinal>>[2] = e.ordinal /\ e.ordinal # n
      BY <1>2 DEF Ordered
    <2>. QED  BY <1>2, <2>1
  <1>. QED  BY <1>1, <1>2 DEF Later

LEMMA PlaceOrdinal ==
    ASSUME NEW frames, Streams(frames), NEW p \in 1..Len(frames), frames[p].type \notin EffectTypes,
           \A j \in (p + 1)..Len(frames) : frames[j].type \in EffectTypes
    PROVE  OrdinalIn(frames) = p - 1
  <1>. DEFINE D == {i \in DOMAIN frames : ~IsEmit(frames[i])}
  <1>1. /\ Len(frames) \in Nat /\ DOMAIN frames = 1..Len(frames)
        /\ \A i \in 1..Len(frames) : FitsAt(frames, i)
    BY SeqShape DEF Streams
  <1>2. \A i \in 1..Len(frames) : IsEmit(frames[i]) <=> frames[i].type \in EffectTypes
    BY <1>1, KindsUsed DEF FitsAt, Sound
  <1>3. p \in D /\ \A j \in D : j \in 1..Len(frames) /\ j <= p
    <2>1. p \in D
      BY <1>1, <1>2
    <2>2. ASSUME NEW j \in D PROVE j \in 1..Len(frames) /\ j <= p
      <3>1. j \in 1..Len(frames) /\ frames[j].type \notin EffectTypes
        BY <1>1, <1>2
      <3>2. j \notin (p + 1)..Len(frames)
        BY <3>1
      <3>. QED  BY <1>1, <3>1, <3>2
    <2>. QED  BY <2>1, <2>2
  <1>. HIDE DEF D
  <1>4. (CHOOSE i \in D : \A j \in D : j <= i) = p
    <2>. DEFINE c == CHOOSE i \in D : \A j \in D : j <= i
    <2>1. c \in D /\ \A j \in D : j <= c
      BY <1>3
    <2>. HIDE DEF c
    <2>2. c = p
      BY <1>1, <1>3, <2>1
    <2>. QED  BY <2>2 DEF c
  <1>. QED  BY <1>1, <1>4 DEF OrdinalIn, FitsAt, D

LEMMA OrdinalNow == ReplayedOrdinal = OrdinalIn(run.frames) /\ ReplayedOrdinal' = OrdinalIn(run'.frames)
  BY DEF ReplayedOrdinal, OrdinalIn, Delivered

\* What a replay under way has to read.
LEMMA Framed ==
    ASSUME IInv, Started
    PROVE  /\ Streams(run.frames) /\ IsSeq(run.frames) /\ Len(run.frames) \in Nat
           /\ Ordered(Now.events) /\ \A e \in Now.events : e.ordinal < Len(run.frames)
           /\ IsSeq(run.steps) /\ IsRun(run)
           /\ Now.events = ToSet(run.frames) /\ Now.steps = ToSet(run.steps)
           /\ Now.effects = ToSet(run.effects) /\ Now.pending = run.pending
  <1>1. Streams(run.frames)
    BY DEF IInv, ReplayInv, Aligned
  <1>2. IsSeq(run.frames) /\ Len(run.frames) \in Nat
    BY <1>1, SeqShape DEF Streams
  <1>3. /\ Now.events = ToSet(run.frames) /\ Now.steps = ToSet(run.steps)
        /\ Now.effects = ToSet(run.effects) /\ Now.pending = run.pending
    BY DEF Now, property_input
  <1>4. Ordered(Now.events) /\ \A e \in Now.events : e.ordinal < Len(run.frames)
    BY <1>1, <1>3, StreamOrdered
  <1>5. IsSeq(run.steps) /\ IsRun(run)
    BY Reading
  <1>. QED  BY <1>1, <1>2, <1>3, <1>4, <1>5

\* A replay under way goes on.
LEMMA GoesOn ==
    ASSUME AnswerInv, Started \/ phase = "starting", Started', adapter' = adapter,
           adapter # "dead" /\ Healthy => Healthy'
    PROVE  AnswerInv'
  <1>1. phase' # "done" /\ phase' \notin {"recording", "bailed", "closed"}
    BY DEF Started
  <1>. QED  BY <1>1 DEF AnswerInv

LEMMA GivesUp == ASSUME NEW p \in {"error", "lost"}, Abort(p) PROVE AnswerInv'
  <1>1. phase' \in {"error", "lost"}
    BY DEF Abort, Goto
  <1>. QED  BY <1>1 DEF AnswerInv, Started

LEMMA FramedNext ==
    ASSUME IInv', Started'
    PROVE  /\ Streams(run'.frames) /\ IsSeq(run'.frames) /\ Len(run'.frames) \in Nat
           /\ Ordered(Now'.events) /\ IsRun(run')
           /\ Now'.events = ToSet(run'.frames) /\ Now'.steps = ToSet(run'.steps)
           /\ Now'.effects = ToSet(run'.effects)
  <1>1. Streams(run'.frames)
    BY DEF IInv, ReplayInv, Aligned
  <1>2. IsSeq(run'.frames) /\ Len(run'.frames) \in Nat
    BY <1>1, SeqShape DEF Streams
  <1>3. /\ Now'.events = ToSet(run'.frames) /\ Now'.steps = ToSet(run'.steps)
        /\ Now'.effects = ToSet(run'.effects)
    BY DEF Now, property_input
  <1>4. Ordered(Now'.events)
    BY <1>1, <1>3, StreamOrdered
  <1>5. IsRun(run')
    BY DEF IInv, CursorInv
  <1>. QED  BY <1>1, <1>2, <1>3, <1>4, <1>5

\* What push adds.
LEMMA Pushed ==
    ASSUME NEW frames, IsSeq(frames), NEW f, Sound(f)
    PROVE  /\ Len(push(frames, f)) = Len(frames) + 1
           /\ \E g : /\ ToSet(push(frames, f)) = ToSet(frames) \cup {g}
                     /\ g.ordinal = Len(frames) /\ g.type = f.type
                     /\ push(frames, f)[Len(frames) + 1] = g
  <1>. DEFINE n == Len(frames)
              g == [f EXCEPT !.ordinal = n, !.observed_ns = 0]
              t == Append(frames, g)
  <1>. HIDE DEF n
  <1>0. Sound(g) /\ g.ordinal = n /\ Relabelled(g, f)
    BY PushMade
  <1>. HIDE DEF g
  <1>1. g.ordinal = n /\ g.type = f.type
    BY <1>0 DEF Relabelled
  <1>2. Grown(t, frames, g)
    BY AppendShape
  <1>. HIDE DEF t
  <1>3. ToSet(t) = ToSet(frames) \cup {g} /\ Len(t) = Len(frames) + 1 /\ t[Len(frames) + 1] = g
    BY <1>2, GrownSet DEF Grown
  <1>. QED  BY <1>1, <1>3 DEF push, t, g, n

LEMMA Appended ==
    ASSUME NEW s, IsSeq(s), NEW x
    PROVE  IsSeq(Append(s, x)) /\ ToSet(Append(s, x)) = ToSet(s) \cup {x} /\ Len(Append(s, x)) = Len(s) + 1
  <1>. DEFINE t == Append(s, x)
  <1>1. Grown(t, s, x)
    BY AppendShape
  <1>. HIDE DEF t
  <1>2. IsSeq(t) /\ ToSet(t) = ToSet(s) \cup {x} /\ Len(t) = Len(s) + 1
    BY <1>1, GrownSet DEF Grown
  <1>. QED  BY <1>2 DEF t

\* No answer yet, and nothing new to read.
LEMMA FollowsOn ==
    ASSUME Healthy, Started, verdict = {}, phase # "stepping", Started', phase' # "stepping",
           verdict' = {}, UNCHANGED component, IsSeq(run'.effects), Behind(Len(run.frames))',
           Unread(Now', Now),
           phase' \in {"delivering", "stopping"} => Quiet', phase' = "finishing" => Asked("finish")',
           phase' = "reaping" => requests' = <<>> /\ run'.pending = waits(state')
    PROVE  Healthy'
  <1>1. variant' = variant /\ state' = state /\ goals_issued' = goals_issued
    BY DEF component
  <1>2. Follows(Now, variant, state, goals_issued)
    BY DEF Healthy, Following
  <1>3. Follows(Now', variant', state', goals_issued')
    BY <1>1, <1>2, FollowsStays
  <1>4. Following'
    BY <1>3 DEF Following
  <1>5. phase' # "starting"
    BY DEF Started
  <1>. QED  BY <1>1, <1>4, <1>5 DEF Healthy

\* An answer stays final.
LEMMA SettlesOn ==
    ASSUME Healthy, Started, verdict # {}, Started', phase' # "stepping", UNCHANGED <<verdict, property>>,
           variant' = variant, IsSeq(run'.effects), Behind(Len(run.frames))',
           Ordered(Now'.events), Later(Now', Now)
    PROVE  Healthy'
  <1>1. PICK v : verdict = {v} /\ Final(property, Now, v) /\ Matches(property, variant, v)
    BY DEF Healthy, Settled
  <1>2. Final(property, Now', v)
    BY <1>1, FinalStays
  <1>3. Settled'
    BY <1>1, <1>2 DEF Settled
  <1>4. phase' # "starting"
    BY DEF Started
  <1>. QED  BY <1>3, <1>4 DEF Healthy

LEMMA LaunchAnswers == ASSUME AnswerInv, Launch PROVE AnswerInv'
  <1>1. /\ phase = "closed" /\ phase' = "starting" /\ variant' \in Variant /\ run' = run
        /\ requests' = <<[op |-> "start"]>> /\ responses' = responses
    BY DEF Launch, Goto, runner
  <1>2. run.effects = <<>> /\ responses = <<>>
    BY <1>1 DEF AnswerInv, Quiet
  <1>3. Asked("start")'
    BY <1>1, <1>2 DEF Asked
  <1>4. ~Started'
    BY <1>1 DEF Started
  <1>5. Healthy'
    BY <1>1, <1>2, <1>3, <1>4 DEF Healthy
  <1>. QED  BY <1>1, <1>5 DEF AnswerInv

LEMMA ReceiveStartedAnswers == ASSUME IInv, IInv', AnswerInv, ReceiveStarted PROVE AnswerInv'
  <1>1. phase = "starting" /\ responses # <<>>
    BY DEF ReceiveStarted, Received
  <1>2. CASE Fail
    BY <1>2, GivesUp DEF Fail
  <1>3. CASE ~Fail
    <2>1. /\ phase' = "delivering" /\ adapter' = adapter /\ requests' = requests
          /\ responses' = Tail(responses) /\ UNCHANGED <<variant, state, goals_issued, run, verdict>>
      BY <1>3 DEF ReceiveStarted, Goto, Consumes, component, runner
    <2>2. Started' /\ ~Started /\ ~Over
      BY <1>1, <2>1 DEF Started, Over
    <2>3. run.frames = <<>> /\ run.steps = <<>> /\ verdict = {}
      BY <1>1, <2>2 DEF IInv, CursorInv, Fresh
    <2>4. ASSUME Healthy PROVE Healthy'
      <3>1. /\ run.effects = <<>> /\ requests = <<>> /\ state = Idle /\ goals_issued = 0
            /\ \E l : responses = <<l>> /\ variant \in Variant
        BY <1>1, <2>4 DEF Healthy, Asked
      <3>2. Quiet'
        <4>1. PICK l : responses = <<l>>
          BY <3>1
        <4>2. Tail(responses) = <<>>
          BY <4>1
        <4>. QED  BY <2>1, <3>1, <4>2 DEF Quiet
      <3>3. Now'.events = {} /\ Now'.steps = {} /\ Now'.effects = {}
        BY <2>1, <2>3, <3>1 DEF Now, property_input, ToSet
      <3>4. NoneSent(Now', variant', state', goals_issued')
        <4>1. Commands(Now') = {} /\ \A type : Attempts(Now', type) = {}
          BY <3>3 DEF Commands, ConsumedInputs, Attempts
        <4>. QED  BY <2>1, <3>1, <3>3, <4>1 DEF NoneSent
      <3>5. Following'
        BY <2>1, <3>2, <3>4 DEF Following, Follows
      <3>6. IsSeq(run'.effects) /\ Behind(Len(run.frames))'
        BY <2>1, <2>3, <3>1, EmptyShape DEF Behind, Placed, ToSet
      <3>. QED  BY <2>1, <2>3, <3>1, <3>5, <3>6 DEF Healthy
    <2>. QED  BY <1>1, <2>1, <2>2, <2>4, GoesOn
  <1>. QED  BY <1>2, <1>3

LEMMA SkipFrameAnswers == ASSUME IInv, IInv', AnswerInv, SkipFrame PROVE AnswerInv'
  <1>1. /\ phase = "delivering" /\ phase' = "delivering" /\ UNCHANGED component
        /\ adapter' = adapter /\ requests' = requests /\ responses' = responses /\ verdict' = verdict
    BY DEF SkipFrame, recorder, pipes
  <1>2. Started /\ Started'
    BY <1>1 DEF Started
  <1>3. verdict = {}
    BY <1>1, Delivering
  <1>4. ASSUME Healthy PROVE Healthy'
    <2>. DEFINE n == Len(run.frames)
    <2>1. IsSeq(run.frames) /\ n \in Nat /\ IsRun(run)
      BY <1>2, Framed
    <2>2. /\ Quiet /\ IsSeq(run.effects)
          /\ Placed(ToSet(run.steps), n)
      BY <1>1, <1>2, <1>3, <1>4 DEF Healthy, Following, Behind
    <2>3. Now.events = ToSet(run.frames) /\ Now.steps = ToSet(run.steps) /\ Now.effects = ToSet(run.effects)
      BY <1>2, Framed
    <2>4. Now'.events = ToSet(run'.frames) /\ Now'.steps = ToSet(run'.steps) /\ Now'.effects = ToSet(run'.effects)
      BY <1>2, FramedNext
    <2>. HIDE DEF n
    <2>5. CASE Recorded.type # "Session"
      <3>1. run' = run
        BY <2>5 DEF SkipFrame
      <3>2. Unread(Now', Now) /\ Behind(Len(run.frames))'
        BY <2>2, <2>3, <2>4, <3>1, SameRead DEF Behind, n
      <3>. QED  BY <1>1, <1>2, <1>3, <1>4, <2>2, <3>1, <3>2, FollowsOn DEF Quiet
    <2>6. CASE Recorded.type = "Session"
      <3>1. run' = [run EXCEPT !.frames = push(@, Recorded)]
        BY <2>6 DEF SkipFrame
      <3>2. run'.frames = push(run.frames, Recorded) /\ run'.steps = run.steps /\ run'.effects = run.effects
        BY <2>1, <3>1 DEF IsRun, RunFields
      <3>3. Sound(Recorded)
        BY <1>2, Reading DEF FitsAt, Recorded
      <3>4. Len(run'.frames) = n + 1
        BY <2>1, <3>2, <3>3, Pushed DEF n
      <3>5. PICK g : ToSet(run'.frames) = ToSet(run.frames) \cup {g} /\ g.ordinal = n /\ g.type = Recorded.type
        BY <2>1, <3>2, <3>3, Pushed DEF n
      <3>6. Unread(Now', Now)
        <4>1. g.type \notin {"GoalSend", "CancelSend"}
          BY <2>6, <3>5
        <4>2. /\ Now'.events = Now.events \cup {g} /\ Now'.steps = Now.steps /\ Now'.effects = Now.effects
              /\ Placed(Now.steps, n)
          BY <2>2, <2>3, <2>4, <3>2, <3>5
        <4>. QED  BY <2>1, <3>5, <4>1, <4>2, AddedRead
      <3>7. Behind(Len(run.frames))'
        <4>1. Placed(ToSet(run.steps), n + 1)
          BY <2>1, <2>2 DEF Placed
        <4>. QED  BY <3>2, <3>4, <4>1 DEF Behind
      <3>. QED  BY <1>1, <1>2, <1>3, <1>4, <2>2, <3>2, <3>6, <3>7, FollowsOn DEF Quiet
    <2>. QED  BY <2>5, <2>6
  <1>. QED  BY <1>1, <1>2, <1>4, GoesOn

\* The evidence is not touched.
LEMMA Proceeds ==
    ASSUME IInv, IInv', Healthy, Started, phase # "stepping", Started', phase' # "stepping",
           UNCHANGED <<component, property, verdict>>,
           run'.frames = run.frames, run'.steps = run.steps, run'.effects = run.effects,
           verdict = {} =>
              /\ phase' \in {"delivering", "stopping"} => Quiet'
              /\ phase' = "finishing" => Asked("finish")'
              /\ phase' = "reaping" => requests' = <<>> /\ run'.pending = waits(state')
    PROVE  Healthy'
  <1>1. Now.events = ToSet(run.frames) /\ Now.steps = ToSet(run.steps) /\ Now.effects = ToSet(run.effects)
    BY Framed
  <1>2. /\ Now'.events = ToSet(run'.frames) /\ Now'.steps = ToSet(run'.steps)
        /\ Now'.effects = ToSet(run'.effects) /\ Ordered(Now'.events)
    BY FramedNext
  <1>3. Unread(Now', Now) /\ Later(Now', Now)
    BY <1>1, <1>2, SameRead
  <1>4. IsSeq(run'.effects) /\ Behind(Len(run.frames))'
    BY DEF Healthy, Behind
  <1>5. variant' = variant
    BY DEF component
  <1>6. CASE verdict = {}
    BY <1>3, <1>4, <1>6, FollowsOn
  <1>7. CASE verdict # {}
    BY <1>2, <1>3, <1>4, <1>5, <1>7, SettlesOn
  <1>. QED  BY <1>6, <1>7

LEMMA StopAtMarkerAnswers == ASSUME IInv, IInv', AnswerInv, StopAtMarker PROVE AnswerInv'
  <1>1. /\ phase = "delivering" /\ phase' = "stopping" /\ adapter' = adapter /\ requests' = requests
        /\ responses' = responses /\ UNCHANGED <<component, property, verdict>>
        /\ run' = [run EXCEPT !.stop = IF Recorded.type = "Gap" THEN "Gap" ELSE @]
    BY DEF StopAtMarker, Goto, pipes, case
  <1>2. Started /\ Started'
    BY <1>1 DEF Started
  <1>3. IsRun(run)
    BY <1>2, Reading
  <1>4. run'.frames = run.frames /\ run'.steps = run.steps /\ run'.effects = run.effects
    BY <1>1, <1>3 DEF IsRun, RunFields
  <1>5. ASSUME Healthy PROVE Healthy'
    <2>1. verdict = {} => Quiet
      BY <1>1, <1>2, <1>5 DEF Healthy, Following
    <2>2. verdict = {} => Quiet'
      BY <1>1, <2>1 DEF Quiet
    <2>. QED  BY <1>1, <1>2, <1>4, <1>5, <2>2, Proceeds
  <1>. QED  BY <1>1, <1>2, <1>5, GoesOn

LEMMA SendFinishAnswers == ASSUME IInv, IInv', AnswerInv, SendFinish PROVE AnswerInv'
  <1>. DEFINE reason == IF run.stop = "Exhausted" /\ verdict = {} THEN "Exhausted" ELSE "Scope"
              q == [op |-> "finish", reason |-> reason]
  <1>1. /\ phase = "stopping" /\ phase' = "finishing" /\ adapter' = adapter
        /\ requests' = Append(requests, q) /\ responses' = responses
        /\ UNCHANGED <<component, property, verdict>> /\ run' = [run EXCEPT !.reason = reason]
    BY DEF SendFinish, Goto, Send, case
  <1>2. q.op = "finish"
    OBVIOUS
  <1>. HIDE DEF reason, q
  <1>3. Started /\ Started'
    BY <1>1 DEF Started
  <1>4. IsRun(run)
    BY <1>3, Reading
  <1>5. run'.frames = run.frames /\ run'.steps = run.steps /\ run'.effects = run.effects
    BY <1>1, <1>4 DEF IsRun, RunFields
  <1>6. ASSUME Healthy PROVE Healthy'
    <2>1. verdict = {} => Quiet
      BY <1>1, <1>3, <1>6 DEF Healthy, Following
    <2>2. Append(<<>>, q) = <<q>>
      OBVIOUS
    <2>3. verdict = {} => Asked("finish")'
      BY <1>1, <1>2, <2>1, <2>2 DEF Quiet, Asked
    <2>. QED  BY <1>1, <1>3, <1>5, <1>6, <2>3, Proceeds
  <1>. QED  BY <1>1, <1>3, <1>6, GoesOn

LEMMA ReceiveFinishedAnswers == ASSUME IInv, IInv', AnswerInv, ReceiveFinished PROVE AnswerInv'
  <1>1. phase = "finishing" /\ responses # <<>> /\ Line.line = "finished"
    BY DEF ReceiveFinished, Received, Line
  <1>2. CASE Fail
    BY <1>2, GivesUp DEF Fail
  <1>3. CASE ~Fail
    <2>1. /\ phase' = "reaping" /\ adapter' = adapter /\ requests' = requests
          /\ UNCHANGED <<component, property, verdict>> /\ run' = [run EXCEPT !.pending = Line.pending]
      BY <1>3 DEF ReceiveFinished, Goto, Consumes, case
    <2>2. Started /\ Started'
      BY <1>1, <2>1 DEF Started
    <2>3. IsRun(run)
      BY <2>2, Reading
    <2>4. /\ run'.frames = run.frames /\ run'.steps = run.steps /\ run'.effects = run.effects
          /\ run'.pending = Line.pending
      BY <2>1, <2>3 DEF IsRun, RunFields
    <2>5. ASSUME Healthy PROVE Healthy'
      <3>1. ASSUME verdict = {} PROVE requests' = <<>> /\ run'.pending = waits(state')
        <4>1. requests = <<>> /\ \E l : responses = <<l>> /\ (l.line = "finished" => l.pending = waits(state))
          BY <1>1, <2>2, <2>5, <3>1 DEF Healthy, Following, Asked
        <4>2. PICK l : responses = <<l>> /\ (l.line = "finished" => l.pending = waits(state))
          BY <4>1
        <4>3. Line = l
          BY <4>2 DEF Line
        <4>4. state' = state
          BY <2>1 DEF component
        <4>. QED  BY <1>1, <2>1, <2>4, <4>1, <4>2, <4>3, <4>4
      <3>. QED  BY <1>1, <2>1, <2>2, <2>4, <2>5, <3>1, Proceeds
    <2>. QED  BY <2>1, <2>2, <2>5, GoesOn
  <1>. QED  BY <1>2, <1>3

\* A step with no place in the stream is added, and changes nothing that is read.
LEMMA UnplacedRead ==
    ASSUME NEW I, NEW J, NEW x, x.status # "Ok", J.events = I.events, J.effects = I.effects,
           J.steps = I.steps \cup {x}, x.replayed = NoOrdinal, NEW n, Placed(I.steps, n)
    PROVE  Unread(J, I)
  <1>1. Consumed(J) = Consumed(I) /\ NoOrdinal \notin Consumed(I)
    BY DEF Consumed, Placed, NoOrdinal
  <1>2. \A s : s.replayed \in Consumed(I) => (s \in J.steps <=> s \in I.steps)
    BY <1>1
  <1>. QED  BY <1>1, <1>2, UnreadMade

LEMMA PlacedMore ==
    ASSUME NEW S, NEW n \in Int, Placed(S, n), NEW m \in Int, n <= m, NEW x, x.replayed \in Int,
           x.replayed < m, x.status = "Ok" => x.replayed \in Nat
    PROVE  Placed(S, m) /\ Placed(S \cup {x}, m)
  BY DEF Placed

LEMMA RefuseInputAnswers == ASSUME IInv, IInv', AnswerInv, RefuseInput PROVE AnswerInv'
  <1>. DEFINE x == step(Recorded.ordinal, NoOrdinal, "Refused")
  <1>1. /\ phase = "delivering" /\ phase' = "stopping" /\ adapter' = adapter /\ requests' = requests
        /\ responses' = responses /\ UNCHANGED <<component, property, verdict>>
        /\ run' = [run EXCEPT !.steps = Append(@, x), !.stop = "Refused"]
    BY DEF RefuseInput, Goto, pipes, case
  <1>2. x.replayed = NoOrdinal /\ x.status = "Refused"
    BY DEF step
  <1>. HIDE DEF x
  <1>3. Started /\ Started' /\ verdict = {}
    BY <1>1, Delivering DEF Started
  <1>4. IsRun(run) /\ IsSeq(run.steps) /\ IsSeq(run.frames) /\ Len(run.frames) \in Nat
    BY <1>3, Framed
  <1>5. run'.frames = run.frames /\ run'.steps = Append(run.steps, x) /\ run'.effects = run.effects
    BY <1>1, <1>4 DEF IsRun, RunFields
  <1>6. ToSet(run'.steps) = ToSet(run.steps) \cup {x}
    BY <1>4, <1>5, Appended
  <1>7. ASSUME Healthy PROVE Healthy'
    <2>1. Quiet /\ IsSeq(run.effects) /\ Placed(ToSet(run.steps), Len(run.frames))
      BY <1>1, <1>3, <1>7 DEF Healthy, Following, Behind
    <2>2. Now.events = ToSet(run.frames) /\ Now.steps = ToSet(run.steps) /\ Now.effects = ToSet(run.effects)
      BY <1>3, Framed
    <2>3. Now'.events = ToSet(run'.frames) /\ Now'.steps = ToSet(run'.steps) /\ Now'.effects = ToSet(run'.effects)
      BY <1>3, FramedNext
    <2>4. Unread(Now', Now)
      <3>1. /\ Now'.events = Now.events /\ Now'.effects = Now.effects /\ Now'.steps = Now.steps \cup {x}
            /\ Placed(Now.steps, Len(run.frames)) /\ x.status # "Ok"
        BY <1>2, <1>5, <1>6, <2>1, <2>2, <2>3
      <3>. QED  BY <1>2, <3>1, UnplacedRead
    <2>5. Behind(Len(run.frames))'
      <3>1. NoOrdinal \in Int /\ NoOrdinal < Len(run.frames) /\ Len(run.frames) <= Len(run.frames)
            /\ Len(run.frames) \in Int
        BY <1>4 DEF NoOrdinal
      <3>2. Placed(ToSet(run.steps) \cup {x}, Len(run.frames))
        BY <1>2, <2>1, <3>1, PlacedMore
      <3>. QED  BY <1>5, <1>6, <3>2 DEF Behind
    <2>6. Quiet'
      BY <1>1, <2>1 DEF Quiet
    <2>. QED  BY <1>1, <1>3, <1>5, <1>7, <2>1, <2>4, <2>5, <2>6, FollowsOn
  <1>. QED  BY <1>1, <1>3, <1>7, GoesOn

LEMMA DeliverInputAnswers == ASSUME IInv, IInv', AnswerInv, DeliverInput PROVE AnswerInv'
  <1>. DEFINE refs == IF NamesRequest(Recorded) THEN request_ref(Recorded) ELSE {}
              request == IF refs = {} THEN <<>> ELSE RequestOf(CHOOSE r \in refs : TRUE)
              q == [op |-> "step", input |-> Input(Recorded, request)]
  <1>1. phase = "delivering" /\ IsInput
    BY DEF DeliverInput
  <1>2. CASE Fail
    BY <1>2, GivesUp DEF Fail
  <1>3. CASE ~Fail
    <2>1. /\ phase' = "stepping" /\ recording' = recording /\ UNCHANGED <<component, property, verdict, cursor>>
          /\ adapter' = adapter /\ responses' = responses /\ requests' = Append(requests, q)
          /\ run' = [run EXCEPT !.frames = push(@, Recorded)]
      BY <1>3 DEF DeliverInput, Goto, Send, case
    <2>2. /\ q.op = "step" /\ q.input.type = Recorded.type /\ q.input.body = Recorded.body
          /\ q.input.ordinal = Recorded.ordinal
      BY DEF Input
    <2>. HIDE DEF refs, request, q
    <2>3. Recorded' = Recorded /\ Recorded.type \in InputTypes
      BY <1>1, <2>1, InputRecorded DEF Recorded
    <2>4. Started /\ Started' /\ verdict = {} /\ verdict' = {}
      BY <1>1, <2>1, Delivering DEF Started
    <2>. DEFINE n == Len(run.frames)
    <2>5. IsRun(run) /\ IsSeq(run.frames) /\ n \in Nat
      BY <2>4, Framed
    <2>6. run'.frames = push(run.frames, Recorded) /\ run'.steps = run.steps /\ run'.effects = run.effects
      BY <2>1, <2>5 DEF IsRun, RunFields
    <2>7. Sound(Recorded)
      BY <2>4, Reading DEF FitsAt, Recorded
    <2>8. Len(run'.frames) = n + 1
      BY <2>5, <2>6, <2>7, Pushed
    <2>9. PICK g : /\ ToSet(run'.frames) = ToSet(run.frames) \cup {g} /\ g.ordinal = n
                   /\ g.type = Recorded.type /\ run'.frames[n + 1] = g
      BY <2>5, <2>6, <2>7, Pushed
    <2>. HIDE DEF n
    <2>10. ReplayedOrdinal' = n
      <3>1. Streams(run'.frames)
        BY <2>4, FramedNext
      <3>. DEFINE p == n + 1
      <3>2. /\ p \in 1..Len(run'.frames) /\ run'.frames[p].type \notin EffectTypes /\ p - 1 = n
            /\ \A j \in (p + 1)..Len(run'.frames) : run'.frames[j].type \in EffectTypes
        BY <2>3, <2>5, <2>8, <2>9 DEF InputTypes, EffectTypes
      <3>. HIDE DEF p
      <3>3. OrdinalIn(run'.frames) = p - 1
        BY <3>1, <3>2, PlaceOrdinal
      <3>. QED  BY <3>2, <3>3, OrdinalNow
    <2>11. ASSUME Healthy PROVE Healthy'
      <3>1. /\ Quiet /\ IsSeq(run.effects) /\ Placed(ToSet(run.steps), n) /\ variant \in Variant
            /\ Follows(Now, variant, state, goals_issued)
        BY <1>1, <2>4, <2>11 DEF Healthy, Following, Behind, n
      <3>2. Now.events = ToSet(run.frames) /\ Now.steps = ToSet(run.steps) /\ Now.effects = ToSet(run.effects)
        BY <2>4, Framed
      <3>3. Now'.events = ToSet(run'.frames) /\ Now'.steps = ToSet(run'.steps) /\ Now'.effects = ToSet(run'.effects)
        BY <2>4, FramedNext
      <3>4. Unread(Now', Now)
        <4>1. g.type \notin {"GoalSend", "CancelSend"}
          BY <2>3, <2>9 DEF InputTypes
        <4>2. /\ Now'.events = Now.events \cup {g} /\ Now'.steps = Now.steps /\ Now'.effects = Now.effects
              /\ Placed(Now.steps, n)
          BY <2>6, <2>9, <3>1, <3>2, <3>3
        <4>. QED  BY <2>5, <2>9, <4>1, <4>2, AddedRead
      <3>5. variant' = variant /\ state' = state /\ goals_issued' = goals_issued
        BY <2>1 DEF component
      <3>6. Follows(Now', variant', state', goals_issued')
        BY <3>1, <3>4, <3>5, FollowsStays
      <3>7. responses' = <<>> /\ requests' = <<q>>
        <4>1. Append(<<>>, q) = <<q>>
          OBVIOUS
        <4>. QED  BY <2>1, <3>1, <4>1 DEF Quiet
      <3>8. AskedStep'
        BY <2>2, <2>3, <2>8, <2>10, <3>6, <3>7 DEF AskedStep
      <3>9. Following'
        BY <2>1, <3>8 DEF Following
      <3>10. Behind(ReplayedOrdinal)'
        BY <2>6, <2>10, <3>1 DEF Behind
      <3>. QED  BY <2>1, <2>4, <2>6, <3>1, <3>5, <3>9, <3>10 DEF Healthy
    <2>. QED  BY <2>1, <2>4, <2>11, GoesOn
  <1>. QED  BY <1>2, <1>3

\* While a step is answered, a line that has arrived is one of its lines.
LEMMA AnswerArrives ==
    ASSUME IInv, Healthy, phase = "stepping", responses # <<>>
    PROVE  /\ Started /\ verdict = {} /\ Answering /\ variant \in Variant /\ IsSeq(run.effects)
           /\ Line = responses[1] /\ IsSeq(responses) /\ Len(responses) # 0 /\ Len(responses) \in Nat
           /\ Placed(ToSet(run.steps), ReplayedOrdinal)
           /\ ReplayedOrdinal \in Nat /\ ReplayedOrdinal < Len(run.frames) /\ Len(run.frames) \in Nat
  <1>1. Started /\ verdict = {} /\ InWork(recording, cursor, run.frames)
    BY Stepping
  <1>2. Streams(run.frames) /\ Len(run.frames) \in Nat
    BY <1>1, Framed
  <1>3. PICK p \in 1..Len(run.frames) : ReplayedOrdinal = p - 1
    BY <1>1, <1>2, WorkOrdinal
  <1>4. Answering /\ variant \in Variant /\ IsSeq(run.effects) /\ Placed(ToSet(run.steps), ReplayedOrdinal)
    BY <1>1 DEF Healthy, Following, AskedStep, Behind
  <1>5. IsSeq(responses) /\ Len(responses) # 0
    BY <1>4 DEF Answering, StepLines
  <1>6. Line = responses[1] /\ Len(responses) \in Nat
    BY <1>5, TailShape DEF Line
  <1>. QED  BY <1>1, <1>2, <1>3, <1>4, <1>5, <1>6

LEMMA ReceiveProgressAnswers == ASSUME IInv, IInv', AnswerInv, ReceiveProgress PROVE AnswerInv'
  <1>1. phase = "stepping" /\ responses # <<>> /\ Line.line = "progress"
    BY DEF ReceiveProgress, Received, Line
  <1>2. CASE Fail
    BY <1>2, GivesUp DEF Fail
  <1>3. CASE ~Fail
    <2>1. /\ UNCHANGED <<component, recorder, runner, adapter, requests>> /\ responses' = Tail(responses)
      BY <1>3 DEF ReceiveProgress, Consumes
    <2>2. /\ phase' = phase /\ Recorded' = Recorded /\ run' = run /\ verdict' = verdict /\ adapter' = adapter
          /\ variant' = variant /\ state' = state /\ goals_issued' = goals_issued /\ requests' = requests
      BY <2>1 DEF recorder, runner, component, Recorded
    <2>3. ReplayedOrdinal' = ReplayedOrdinal
      BY <2>2, OrdinalNow
    <2>4. Started /\ Started'
      BY <1>1, <2>2 DEF Started
    <2>5. ASSUME Healthy PROVE Healthy'
      <3>1. /\ Answering /\ verdict = {} /\ Line = responses[1] /\ Len(run.frames) \in Nat
        BY <1>1, <2>5, AnswerArrives
      <3>. DEFINE n == Len(run.frames)
      <3>2. /\ StepLines(Tail(responses)) /\ Ending(Tail(responses)) = Ending(responses)
            /\ Incoming(responses, n) = {} /\ IncomingCalls(responses, n) = {}
            /\ Incoming(Tail(responses), n) = {} /\ IncomingCalls(Tail(responses), n) = {}
        <4>1. responses[1].line # "stepped" /\ responses[1].line # "effect" /\ StepLines(responses)
          BY <1>1, <3>1 DEF Answering
        <4>. QED  BY <3>1, <4>1, LineTaken
      <3>3. \A x : Ahead(Now, x, Tail(responses), n) = Ahead(Now, x, responses, n)
        BY <3>2 DEF Ahead
      <3>4. Now' = Now
        BY <2>2 DEF Now
      <3>5. Answering'
        BY <2>1, <2>2, <2>3, <3>1, <3>2, <3>3, <3>4 DEF Answering
      <3>6. Following'
        BY <1>1, <2>2, <3>5 DEF Following
      <3>7. Behind(ReplayedOrdinal)' /\ IsSeq(run'.effects)
        BY <1>1, <2>2, <2>3, <2>4, <2>5 DEF Healthy, Behind
      <3>. QED  BY <1>1, <2>2, <2>5, <3>1, <3>6, <3>7 DEF Healthy
    <2>. QED  BY <2>2, <2>4, <2>5, GoesOn
  <1>. QED  BY <1>2, <1>3

LEMMA FrontShape ==
    ASSUME NEW s, IsSeq(s), Len(s) # 0
    PROVE  /\ Len(Front(s)) = Len(s) - 1 /\ ToSet(s) = ToSet(Front(s)) \cup {s[Len(s)]}
  <1>. DEFINE m == Len(s)
              k == m - 1
              u == SubSeq(s, 1, k)
  <1>1. m \in Nat /\ m > 0 /\ k \in 0..m /\ m \in 0..m
    BY SeqShape
  <1>2. Prefixed(u, s, k)
    BY <1>1, PrefixShape
  <1>3. SubSeq(s, 1, m) = Append(u, s[m]) /\ SubSeq(s, 1, m) = s
    BY <1>1, PrefixShape
  <1>4. IsSeq(u) /\ Len(u) = k
    BY <1>2 DEF Prefixed
  <1>. HIDE DEF u
  <1>5. Grown(s, u, s[m])
    BY <1>3, <1>4, AppendShape
  <1>6. ToSet(s) = ToSet(u) \cup {s[m]}
    BY <1>4, <1>5, GrownSet
  <1>. QED  BY <1>4, <1>6 DEF u, Front

\* The last line of a step has nothing behind it.
LEMMA LastLine ==
    ASSUME NEW lines, StepLines(lines), lines[1].line = "stepped", NEW n
    PROVE  /\ Ending(lines) = lines[1] /\ Tail(lines) = <<>>
           /\ Incoming(lines, n) = {} /\ IncomingCalls(lines, n) = {}
  <1>1. IsSeq(lines) /\ Len(lines) # 0 /\ Len(lines) \in Nat
    BY SeqShape DEF StepLines
  <1>2. 1 \in 1..Len(lines)
    BY <1>1
  <1>3. Len(lines) = 1
    BY <1>2 DEF StepLines
  <1>4. Tail(lines) = <<>>
    <2>. DEFINE t == Tail(lines)
    <2>1. IsSeq(t) /\ Len(t) = 0
      BY <1>1, <1>3, TailShape
    <2>2. PICK S : t \in Seq(S)
      BY <2>1 DEF IsSeq
    <2>. HIDE DEF t
    <2>3. t = <<>>
      BY <2>1, <2>2
    <2>. QED  BY <2>3 DEF t
  <1>5. EffectsOf(lines) = {}
    BY <1>3 DEF EffectsOf
  <1>. QED  BY <1>3, <1>4, <1>5 DEF Ending, Incoming, IncomingCalls

\* A refused input is taken back.
LEMMA TakenBack ==
    ASSUME NEW I, NEW J, NEW w, NEW x, NEW y, NEW n \in Nat, Placed(I.steps, n),
           w.ordinal = n, w.type \notin {"GoalSend", "CancelSend"}, x.replayed = n, x.status # "Ok",
           y.replayed = NoOrdinal, y.status # "Ok",
           I.events = J.events \cup {w}, J.steps = I.steps \cup {y}, J.effects = I.effects,
           NEW K, K.events = I.events, K.steps = I.steps \cup {x}, K.effects = I.effects
    PROVE  Unread(J, K)
  <1>1. /\ Consumed(K) = Consumed(I) /\ Consumed(J) = Consumed(I)
        /\ n \notin Consumed(I) /\ NoOrdinal \notin Consumed(I)
    BY DEF Consumed, Placed, NoOrdinal
  <1>2. \A e : e.ordinal \in Consumed(K) \/ e.type \in {"GoalSend", "CancelSend"} =>
                  (e \in J.events <=> e \in K.events)
    BY <1>1
  <1>3. \A s : s.replayed \in Consumed(K) => (s \in J.steps <=> s \in K.steps)
    BY <1>1
  <1>. QED  BY <1>1, <1>2, <1>3, UnreadMade

LEMMA ReceiveSteppedAnswers == ASSUME IInv, IInv', AnswerInv, ReceiveStepped PROVE AnswerInv'
  <1>. DEFINE s == Line.status
              n == Len(run.frames)
              x == step(Recorded.ordinal, ReplayedOrdinal, s)
              y == step(Recorded.ordinal, NoOrdinal, s)
              K == Ahead(Now, x, responses, n)
  <1>1. phase = "stepping" /\ responses # <<>> /\ Line.line = "stepped"
    BY DEF ReceiveStepped, Received, Line
  <1>2. CASE Fail
    BY <1>2, GivesUp DEF Fail
  <1>3. CASE ~Fail
    <2>1. /\ responses' = Tail(responses) /\ requests' = requests /\ adapter' = adapter
          /\ UNCHANGED <<component, verdict>>
      BY <1>3 DEF ReceiveStepped, Consumes
    <2>2. phase' = IF s = "Refused" THEN "stopping" ELSE "delivering"
      BY <1>3 DEF ReceiveStepped, Goto
    <2>3. Started /\ Started'
      BY <1>1, <2>2 DEF Started
    <2>4. IsRun(run) /\ IsSeq(run.frames) /\ n \in Nat /\ IsSeq(run.steps)
      BY <2>3, Framed
    <2>5. x.replayed = ReplayedOrdinal /\ x.status = s /\ y.replayed = NoOrdinal /\ y.status = s
      BY DEF step
    <2>6. variant' = variant /\ state' = state /\ goals_issued' = goals_issued
      BY <2>1 DEF component
    <2>7. ASSUME Healthy PROVE Healthy'
      <3>1. /\ Answering /\ verdict = {} /\ Line = responses[1] /\ variant \in Variant
            /\ Placed(ToSet(run.steps), ReplayedOrdinal) /\ IsSeq(run.effects)
            /\ ReplayedOrdinal \in Nat /\ ReplayedOrdinal < n
        BY <1>1, <2>7, AnswerArrives
      <3>2. /\ Ending(responses) = Line /\ Tail(responses) = <<>>
            /\ Incoming(responses, n) = {} /\ IncomingCalls(responses, n) = {}
        <4>1. StepLines(responses) /\ responses[1].line = "stepped"
          BY <1>1, <3>1 DEF Answering
        <4>. QED  BY <3>1, <4>1, LastLine
      <3>3. Quiet'
        BY <2>1, <3>1, <3>2 DEF Quiet, Answering
      <3>4. Follows(K, variant, state, goals_issued)
        BY <3>1, <3>2 DEF Answering
      <3>5. /\ K.events = Now.events /\ K.steps = Now.steps \cup {x} /\ K.effects = Now.effects
        BY <3>2 DEF Ahead
      <3>. HIDE DEF K, x, y, s, n
      <3>6. Now.events = ToSet(run.frames) /\ Now.steps = ToSet(run.steps) /\ Now.effects = ToSet(run.effects)
        BY <2>3, Framed
      <3>7. Now'.events = ToSet(run'.frames) /\ Now'.steps = ToSet(run'.steps) /\ Now'.effects = ToSet(run'.effects)
        BY <2>3, FramedNext
      <3>8. ASSUME s # "Refused" PROVE Unread(Now', K) /\ Behind(Len(run.frames))' /\ IsSeq(run'.effects)
        <4>1. run' = [run EXCEPT !.pending_after = Line.pending, !.steps = Append(@, x)]
          BY <1>3, <3>8 DEF ReceiveStepped, x, s
        <4>2. run'.frames = run.frames /\ run'.steps = Append(run.steps, x) /\ run'.effects = run.effects
          BY <2>4, <4>1 DEF IsRun, RunFields
        <4>3. ToSet(run'.steps) = ToSet(run.steps) \cup {x}
          BY <2>4, <4>2, Appended
        <4>4. Unread(Now', K)
          BY <3>5, <3>6, <3>7, <4>2, <4>3, SameRead
        <4>5. Placed(ToSet(run.steps) \cup {x}, n)
          <5>1. x.replayed \in Int /\ x.replayed < n /\ x.replayed \in Nat /\ n \in Int
                /\ ReplayedOrdinal \in Int /\ ReplayedOrdinal <= n
            BY <2>4, <2>5, <3>1
          <5>. QED  BY <3>1, <5>1, PlacedMore
        <4>. QED  BY <3>1, <4>2, <4>3, <4>4, <4>5 DEF Behind, n
      <3>9. ASSUME s = "Refused" PROVE Unread(Now', K) /\ Behind(Len(run.frames))' /\ IsSeq(run'.effects)
        <4>1. /\ run' = [run EXCEPT !.frames = Front(@), !.pending_after = Line.pending,
                                    !.steps = Append(@, y), !.stop = "Refused"]
              /\ n = ReplayedOrdinal + 1
          BY <1>3, <3>9 DEF ReceiveStepped, y, s, n
        <4>2. run'.frames = Front(run.frames) /\ run'.steps = Append(run.steps, y) /\ run'.effects = run.effects
          BY <2>4, <4>1 DEF IsRun, RunFields
        <4>3. ToSet(run'.steps) = ToSet(run.steps) \cup {y}
          BY <2>4, <4>2, Appended
        <4>. DEFINE w == run.frames[n]
        <4>4. ToSet(run.frames) = ToSet(run'.frames) \cup {w} /\ Len(run'.frames) = ReplayedOrdinal
          <5>1. Len(run.frames) # 0 /\ n - 1 = ReplayedOrdinal
            BY <2>4, <3>1, <4>1 DEF n
          <5>. QED  BY <2>4, <4>2, <5>1, FrontShape DEF n
        <4>5. w.ordinal = ReplayedOrdinal /\ w.type \notin {"GoalSend", "CancelSend"}
          <5>1. InWork(recording, cursor, run.frames) /\ Streams(run.frames)
            BY <1>1, <2>3, Stepping, Framed
          <5>2. PICK p \in 1..n : Content(run.frames[p]) = Content(recording[cursor]) /\ ReplayedOrdinal = p - 1
            BY <5>1, WorkOrdinal DEF n
          <5>3. p = n
            BY <2>4, <4>1, <5>2
          <5>4. w.type \in InputTypes
            BY <5>1, <5>2, <5>3 DEF InWork, Content
          <5>5. w.ordinal = n - 1
            BY <5>1, <5>2, <5>3 DEF Streams, FitsAt, n
          <5>. QED  BY <5>2, <5>3, <5>4, <5>5 DEF InputTypes
        <4>. HIDE DEF w
        <4>6. Unread(Now', K)
          <5>1. /\ Now.events = Now'.events \cup {w} /\ Now'.steps = Now.steps \cup {y}
                /\ Now'.effects = Now.effects /\ Placed(Now.steps, ReplayedOrdinal)
                /\ x.status # "Ok" /\ y.status # "Ok"
            BY <2>5, <3>1, <3>6, <3>7, <3>9, <4>2, <4>3, <4>4
          <5>. QED  BY <2>5, <3>1, <3>5, <4>5, <5>1, TakenBack
        <4>7. Placed(ToSet(run.steps) \cup {y}, ReplayedOrdinal)
          <5>1. y.replayed \in Int /\ y.replayed < ReplayedOrdinal /\ y.status # "Ok"
                /\ ReplayedOrdinal \in Int /\ ReplayedOrdinal <= ReplayedOrdinal
            BY <2>5, <3>1, <3>9 DEF NoOrdinal
          <5>. QED  BY <3>1, <5>1, PlacedMore
        <4>. QED  BY <3>1, <4>2, <4>3, <4>4, <4>6, <4>7 DEF Behind
      <3>10. Follows(Now', variant', state', goals_issued')
        BY <2>6, <3>4, <3>8, <3>9, FollowsStays
      <3>11. phase' \in {"stopping", "delivering"}
        BY <2>2
      <3>12. Following'
        BY <3>3, <3>10, <3>11 DEF Following
      <3>. QED  BY <2>1, <2>6, <3>1, <3>8, <3>9, <3>11, <3>12 DEF Healthy
    <2>. QED  BY <2>1, <2>3, <2>7, GoesOn
  <1>. QED  BY <1>2, <1>3

LEMMA EffectRecorded ==
    ASSUME NEW l, IsRun(run), IsSeq(run.frames), IsSeq(run.effects), NEW steps
    PROVE  LET n == Len(run.frames)
           IN  /\ Records(WithEffect(l), l, n) /\ WithEffect(l).steps = run.steps
               /\ Records(Evidenced(l, steps), l, n) /\ Evidenced(l, steps).steps = steps
               /\ Records(EvidenceNow(Evidenced(l, steps)), l, n)
               /\ EvidenceNow(Evidenced(l, steps)).steps = steps
               /\ EvidenceNow(Evidenced(l, steps)).reason = "Scope"
  <1>. DEFINE n == Len(run.frames)
              g == Arrived(l.effect, n)
              c == <<l.callback, n>>
              a == WithEffect(l)
              b == Evidenced(l, steps)
              e == EvidenceNow(b)
              t == Append(run.frames, g)
  <1>1. a = [run EXCEPT !.frames = push(@, EffectFrame(l.effect)), !.effects = Append(@, c)]
    BY DEF WithEffect
  <1>2. push(run.frames, EffectFrame(l.effect)) = t
    BY DEF push, Arrived
  <1>. HIDE DEF g, c, t
  <1>3. IsRun(a) /\ a.frames = t /\ a.effects = Append(run.effects, c) /\ a.steps = run.steps
    BY <1>1, <1>2 DEF IsRun, RunFields
  <1>. HIDE DEF a
  <1>4. IsRun(b) /\ b.frames = a.frames /\ b.effects = a.effects /\ b.steps = steps
    BY <1>3 DEF IsRun, RunFields, Evidenced, a
  <1>. HIDE DEF b
  <1>5. e.frames = b.frames /\ e.effects = b.effects /\ e.steps = b.steps /\ e.reason = "Scope"
    BY <1>4 DEF EvidenceNow, IsRun, RunFields
  <1>. HIDE DEF e
  <1>6. Grown(t, run.frames, g)
    BY AppendShape DEF t
  <1>7. /\ ToSet(t) = ToSet(run.frames) \cup {g} /\ Len(t) = n + 1 /\ t[n + 1] = g
        /\ \A i \in 1..n : t[i] = run.frames[i]
    BY <1>6, GrownSet DEF Grown
  <1>8. /\ IsSeq(Append(run.effects, c))
        /\ ToSet(Append(run.effects, c)) = ToSet(run.effects) \cup {c}
    BY Appended
  <1>9. ASSUME NEW r, r.frames = t, r.effects = Append(run.effects, c) PROVE Records(r, l, n)
    BY <1>7, <1>8, <1>9 DEF Records, g, c
  <1>10. Records(a, l, n) /\ Records(b, l, n) /\ Records(e, l, n)
    BY <1>3, <1>4, <1>5, <1>9
  <1>. QED  BY <1>3, <1>4, <1>5, <1>10 DEF a, b, e

\* The step goes on: its input stays the current one.
LEMMA OrdinalStays ==
    ASSUME NEW frames, NEW later, Streams(later), NEW n \in Nat, n = Len(frames), Len(later) = n + 1,
           \A i \in 1..n : later[i] = frames[i], later[n + 1].type \in EffectTypes,
           NEW p \in 1..n, frames[p].type \notin EffectTypes,
           \A j \in (p + 1)..n : frames[j].type \in EffectTypes
    PROVE  OrdinalIn(later) = p - 1
  <1>1. \A j \in (p + 1)..Len(later) : j \in (p + 1)..n \/ j = n + 1
    OBVIOUS
  <1>2. \A j \in (p + 1)..n : later[j] = frames[j]
    OBVIOUS
  <1>3. p \in 1..Len(later) /\ later[p] = frames[p]
    OBVIOUS
  <1>4. \A j \in (p + 1)..Len(later) : later[j].type \in EffectTypes
    BY <1>1, <1>2
  <1>. QED  BY <1>3, <1>4, PlaceOrdinal

LEMMA ReceiveEffectAnswers == ASSUME IInv, IInv', AnswerInv, ReceiveEffect PROVE AnswerInv'
  <1>. DEFINE l == Line
              n == Len(run.frames)
              o == ReplayedOrdinal
              x == step(Recorded.ordinal, o, "Ok")
              steps == Append(run.steps, x)
              with == Evidenced(l, steps)
              answer == evaluate(property, EvidenceNow(with))
              g == Arrived(l.effect, n)
              c == <<l.callback, n>>
  <1>1. phase = "stepping" /\ responses # <<>> /\ l.line = "effect"
    BY DEF ReceiveEffect, Received, Line
  <1>2. CASE Fail
    BY <1>2, GivesUp DEF Fail
  <1>3. CASE ~Fail
    <2>1. /\ responses' = Tail(responses) /\ requests' = requests /\ adapter' = adapter
          /\ UNCHANGED <<component, property, cursor>> /\ recording' = recording
          /\ EffectAllowed(l)
          /\ \/ /\ answer.result \in Terminal /\ verdict' = {answer}
                /\ run' = with /\ phase' = "stopping"
             \/ run' = WithEffect(l) /\ verdict' = verdict /\ phase' = phase
      BY <1>3 DEF ReceiveEffect, Consumes, Goto, recorder, case, Evidenced
    <2>2. Started /\ Started'
      BY <1>1, <2>1 DEF Started
    <2>3. /\ Streams(run.frames) /\ IsSeq(run.frames) /\ n \in Nat /\ IsSeq(run.steps) /\ IsRun(run)
          /\ Ordered(Now.events) /\ \A e \in Now.events : e.ordinal < n
      BY <2>2, Framed
    <2>4. Now.events = ToSet(run.frames) /\ Now.steps = ToSet(run.steps) /\ Now.effects = ToSet(run.effects)
      BY <2>2, Framed
    <2>5. /\ Now'.events = ToSet(run'.frames) /\ Now'.steps = ToSet(run'.steps)
          /\ Now'.effects = ToSet(run'.effects) /\ Ordered(Now'.events) /\ Streams(run'.frames)
      BY <2>2, FramedNext
    <2>6. variant' = variant /\ state' = state /\ goals_issued' = goals_issued /\ Recorded' = Recorded
      BY <2>1 DEF component, Recorded
    <2>7. x.replayed = o /\ x.status = "Ok"
      BY DEF step
    <2>8. ToSet(steps) = ToSet(run.steps) \cup {x}
      <3>. HIDE DEF x
      <3>. QED  BY <2>3, Appended
    <2>9. Emission(l.effect)
      BY <2>1, AllowedEmission
    <2>10. ASSUME Healthy PROVE Healthy'
      <3>1. /\ Answering /\ verdict = {} /\ l = responses[1] /\ variant \in Variant
            /\ Placed(ToSet(run.steps), o) /\ IsSeq(run.effects) /\ o \in Nat /\ o < n
        BY <1>1, <2>10, AnswerArrives
      <3>2. StepLines(responses) /\ responses[1].line = "effect" /\ responses[1].line # "stepped"
        BY <1>1, <3>1 DEF Answering
      <3>3. /\ StepLines(Tail(responses)) /\ Ending(Tail(responses)) = Ending(responses)
            /\ Incoming(responses, n) = {g} \cup Incoming(Tail(responses), n + 1)
            /\ IncomingCalls(responses, n) = {c} \cup IncomingCalls(Tail(responses), n + 1)
        BY <2>3, <3>1, <3>2, LineTaken
      <3>4. Ending(responses).status = "Ok"
        <4>1. 1 \in EffectsOf(responses)
          <5>1. Len(responses) \in Nat /\ Len(responses) # 0
            BY <1>1, <2>10, AnswerArrives
          <5>. QED  BY <3>2, <5>1 DEF EffectsOf
        <4>. QED  BY <3>2, <4>1 DEF StepLines
      <3>5. Follows(Ahead(Now, x, responses, n), variant, state, goals_issued)
        BY <3>1, <3>4 DEF Answering
      <3>6. CASE run' = WithEffect(l) /\ verdict' = verdict /\ phase' = phase
        <4>1. /\ ToSet(run'.frames) = ToSet(run.frames) \cup {g} /\ Len(run'.frames) = n + 1
              /\ run'.frames[n + 1] = g /\ \A i \in 1..n : run'.frames[i] = run.frames[i]
              /\ IsSeq(run'.effects) /\ ToSet(run'.effects) = ToSet(run.effects) \cup {c}
              /\ run'.steps = run.steps
          <5>. HIDE DEF l
          <5>1. Records(run', l, n) /\ run'.steps = run.steps
            BY <2>3, <3>1, <3>6, EffectRecorded
          <5>. QED  BY <5>1 DEF Records
        <4>2. ReplayedOrdinal' = o
          <5>1. InWork(recording, cursor, run.frames)
            BY <1>1, Stepping
          <5>2. PICK p \in 1..n : /\ Content(run.frames[p]) = Content(recording[cursor])
                                  /\ \A j \in (p + 1)..n : run.frames[j].type \in EffectTypes
                                  /\ o = p - 1
            BY <2>3, <5>1, WorkOrdinal
          <5>3. run.frames[p].type \notin EffectTypes
            BY <5>1, <5>2 DEF InWork, Content, InputTypes, EffectTypes
          <5>4. run'.frames[n + 1].type \in EffectTypes
            BY <2>9, <4>1, ArrivedMade DEF Emission
          <5>. HIDE DEF g, l, o
          <5>5. OrdinalIn(run'.frames) = p - 1
            BY <2>3, <2>5, <4>1, <5>2, <5>3, <5>4, OrdinalStays
          <5>. QED  BY <5>2, <5>5, OrdinalNow
        <4>3. Ahead(Now', x, Tail(responses), n + 1) = Ahead(Now, x, responses, n)
          <5>. HIDE DEF g, c, l, x
          <5>1. /\ Now'.events \cup Incoming(Tail(responses), n + 1) = Now.events \cup Incoming(responses, n)
                /\ Now'.steps = Now.steps
                /\ Now'.effects \cup IncomingCalls(Tail(responses), n + 1)
                      = Now.effects \cup IncomingCalls(responses, n)
            BY <2>4, <2>5, <3>3, <4>1
          <5>. QED  BY <5>1 DEF Ahead
        <4>4. Answering'
          BY <2>1, <2>6, <3>1, <3>3, <3>4, <3>5, <4>1, <4>2, <4>3 DEF Answering
        <4>5. Following'
          BY <1>1, <3>6, <4>4 DEF Following
        <4>6. Behind(ReplayedOrdinal)'
          BY <3>1, <4>1, <4>2 DEF Behind
        <4>. QED  BY <1>1, <2>6, <3>1, <3>6, <4>1, <4>5, <4>6 DEF Healthy
      <3>7. CASE answer.result \in Terminal /\ verdict' = {answer} /\ run' = with /\ phase' = "stopping"
        <4>. DEFINE E == property_input(EvidenceNow(with))
        <4>1. /\ E.events = ToSet(EvidenceNow(with).frames) /\ E.steps = ToSet(EvidenceNow(with).steps)
              /\ E.effects = ToSet(EvidenceNow(with).effects) /\ E.reason = EvidenceNow(with).reason
          BY DEF property_input
        <4>2. answer = answered(property, E)
          <5>. HIDE DEF with
          <5>. QED  BY Evaluated
        <4>. HIDE DEF E
        <4>3. /\ ToSet(EvidenceNow(with).frames) = ToSet(run.frames) \cup {g}
              /\ ToSet(EvidenceNow(with).effects) = ToSet(run.effects) \cup {c}
              /\ EvidenceNow(with).reason = "Scope"
          <5>. HIDE DEF l, steps
          <5>1. Records(EvidenceNow(with), l, n) /\ EvidenceNow(with).reason = "Scope"
            BY <2>3, <3>1, EffectRecorded
          <5>. HIDE DEF with
          <5>. QED  BY <5>1 DEF Records
        <4>4. /\ ToSet(run'.frames) = ToSet(run.frames) \cup {g} /\ Len(run'.frames) = n + 1
              /\ IsSeq(run'.effects) /\ ToSet(run'.effects) = ToSet(run.effects) \cup {c}
          <5>. HIDE DEF l, steps
          <5>1. Records(with, l, n)
            BY <2>3, <3>1, EffectRecorded
          <5>. HIDE DEF with
          <5>. QED  BY <3>7, <5>1 DEF Records
        <4>5. run'.steps = steps /\ EvidenceNow(with).steps = steps
          <5>. HIDE DEF l, steps
          <5>. QED  BY <2>3, <3>1, <3>7, EffectRecorded
        <4>. HIDE DEF answer, with, steps, x
        <4>6. /\ E.events = Now.events \cup {g} /\ E.steps = Now.steps \cup {x}
              /\ E.effects = Now.effects \cup {c} /\ E.reason = "Scope"
          BY <2>4, <2>8, <4>1, <4>3, <4>5
        <4>7. Final(property, E, answer) /\ Matches(property, variant, answer)
          <5>1. answered(property, E).result \in Terminal
            BY <3>7, <4>2
          <5>2. E.events = Now.events \cup {Arrived(responses[1].effect, n)}
                /\ E.effects = Now.effects \cup {<<responses[1].callback, n>>}
            BY <3>1, <4>6
          <5>. HIDE DEF g, c, l
          <5>3. Final(property, E, answered(property, E)) /\ Matches(property, variant, answered(property, E))
            BY <2>3, <3>2, <3>5, <4>6, <5>1, <5>2, EarlyAnswer
          <5>. QED  BY <4>2, <5>3
        <4>8. Later(Now', E)
          <5>. HIDE DEF g, c, l
          <5>1. Now'.events = E.events /\ Now'.steps = E.steps /\ Now'.effects = E.effects
            BY <2>4, <2>5, <2>8, <4>4, <4>5, <4>6
          <5>. QED  BY <5>1, SameRead
        <4>9. Final(property, Now', answer)
          BY <2>5, <4>7, <4>8, FinalStays
        <4>10. Settled'
          BY <2>1, <2>6, <3>7, <4>7, <4>9 DEF Settled
        <4>11. Behind(Len(run.frames))'
          <5>1. n + 1 \in Int /\ o \in Int /\ o <= n + 1 /\ x.replayed \in Int /\ x.replayed < n + 1
                /\ x.replayed \in Nat
            BY <2>3, <2>7, <3>1
          <5>2. Placed(ToSet(run.steps) \cup {x}, n + 1)
            BY <3>1, <5>1, PlacedMore
          <5>. QED  BY <2>8, <4>4, <4>5, <5>2 DEF Behind
        <4>. QED  BY <2>6, <3>1, <3>7, <4>4, <4>10, <4>11 DEF Healthy
      <3>. QED  BY <2>1, <3>6, <3>7
    <2>. QED  BY <2>1, <2>2, <2>10, GoesOn
  <1>. QED  BY <1>2, <1>3

LEMMA ReceiveLateAnswers == ASSUME IInv, IInv', AnswerInv, ReceiveLate PROVE AnswerInv'
  <1>. DEFINE l == Line
              n == Len(run.frames)
              g == Arrived(l.effect, n)
              c == <<l.callback, n>>
  <1>1. phase = "finishing"
    BY DEF ReceiveLate
  <1>2. CASE Fail
    BY <1>2, GivesUp DEF Fail
  <1>3. CASE ~Fail
    <2>1. /\ adapter' = adapter /\ phase' = phase /\ verdict # {}
          /\ UNCHANGED <<component, property, verdict>>
          /\ \/ l.line = "effect" /\ EffectAllowed(l) /\ run' = WithEffect(l)
             \/ run' = [run EXCEPT !.pending_after = l.pending]
             \/ run' = run
      BY <1>3 DEF ReceiveLate, recorder, Consumes, case
    <2>2. Started /\ Started'
      BY <1>1, <2>1 DEF Started
    <2>3. /\ IsRun(run) /\ IsSeq(run.frames) /\ n \in Nat
          /\ Ordered(Now.events) /\ \A e \in Now.events : e.ordinal < n
      BY <2>2, Framed
    <2>4. variant' = variant
      BY <2>1 DEF component
    <2>5. ASSUME Healthy PROVE Healthy'
      <3>1. IsSeq(run.effects) /\ Placed(ToSet(run.steps), n)
        BY <1>1, <2>2, <2>5 DEF Healthy, Behind
      <3>2. CASE run' = [run EXCEPT !.pending_after = l.pending] \/ run' = run
        <4>. HIDE DEF l
        <4>1. run'.frames = run.frames /\ run'.steps = run.steps /\ run'.effects = run.effects
          BY <2>3, <3>2 DEF IsRun, RunFields
        <4>. QED  BY <1>1, <2>1, <2>2, <2>5, <4>1, Proceeds
      <3>3. CASE EffectAllowed(l) /\ run' = WithEffect(l)
        <4>1. Emission(l.effect)
          BY <3>3, AllowedEmission
        <4>2. g.ordinal = n /\ g.type \in EffectTypes
          BY <4>1, ArrivedMade DEF Emission
        <4>3. /\ ToSet(run'.frames) = ToSet(run.frames) \cup {g} /\ Len(run'.frames) = n + 1
              /\ IsSeq(run'.effects) /\ ToSet(run'.effects) = ToSet(run.effects) \cup {c}
              /\ run'.steps = run.steps
          <5>. HIDE DEF l
          <5>1. Records(run', l, n) /\ run'.steps = run.steps
            BY <2>3, <3>1, <3>3, EffectRecorded
          <5>. QED  BY <5>1 DEF Records
        <4>4. c[2] = n
          OBVIOUS
        <4>. HIDE DEF g, c, l
        <4>5. Now.events = ToSet(run.frames) /\ Now.steps = ToSet(run.steps) /\ Now.effects = ToSet(run.effects)
          BY <2>2, Framed
        <4>6. Now'.events = ToSet(run'.frames) /\ Now'.steps = ToSet(run'.steps) /\ Now'.effects = ToSet(run'.effects)
          BY <2>2, FramedNext
        <4>7. Now'.events = Now.events \cup {g} /\ Now'.steps = Now.steps /\ Now'.effects = Now.effects \cup {c}
          BY <4>3, <4>5, <4>6
        <4>8. g.type \notin {"Message", "Clock", "GoalResponse"}
          BY <4>2 DEF EffectTypes
        <4>9. Later(Now', Now) /\ Ordered(Now'.events)
          <5>1. Now.effects \subseteq Now'.effects /\ \A d \in Now'.effects : d \in Now.effects \/ d[2] = n
            BY <4>4, <4>7
          <5>. QED  BY <2>3, <4>2, <4>7, <4>8, <5>1, AddedLater
        <4>10. Behind(Len(run.frames))'
          <5>1. Placed(ToSet(run.steps), n + 1)
            BY <2>3, <3>1 DEF Placed
          <5>. QED  BY <4>3, <5>1 DEF Behind
        <4>. QED  BY <1>1, <2>1, <2>2, <2>4, <2>5, <4>3, <4>9, <4>10, SettlesOn
      <3>. QED  BY <2>1, <3>2, <3>3
    <2>. QED  BY <2>1, <2>2, <2>5, GoesOn
  <1>. QED  BY <1>2, <1>3

LEMMA ConcludeAnswers == ASSUME IInv, AnswerInv, Conclude PROVE AnswerInv'
  <1>. DEFINE n == Len(run.frames)
              g == [EndMarker(n, session_sequence) EXCEPT !.observed_ns = 0]
              closed == [run EXCEPT !.frames = Append(@, g)]
              answer == evaluate(property, closed)
  <1>1. phase = "reaping" /\ adapter = "exited" /\ Started
    BY DEF Conclude, Started
  <1>2. CASE Fail
    BY <1>2, GivesUp DEF Fail
  <1>3. CASE ~Fail
    <2>1. /\ phase' = "done" /\ adapter' = adapter /\ UNCHANGED <<component, property>>
          /\ run' = closed /\ verdict' = IF verdict = {} THEN {answer} ELSE verdict
      BY <1>3 DEF Conclude, Goto, pipes, case
    <2>2. Healthy
      BY <1>1 DEF AnswerInv
    <2>3. /\ IsRun(run) /\ IsSeq(run.frames) /\ n \in Nat
          /\ Ordered(Now.events) /\ \A e \in Now.events : e.ordinal < n
      BY <1>1, Framed
    <2>4. /\ Now.events = ToSet(run.frames) /\ Now.steps = ToSet(run.steps)
          /\ Now.effects = ToSet(run.effects) /\ Now.pending = run.pending
      BY <1>1, Framed
    <2>5. g.ordinal = n /\ g.type = "End"
      BY DEF EndMarker, session_frame, frame
    <2>. HIDE DEF g
    <2>6. /\ run'.frames = Append(run.frames, g) /\ run'.steps = run.steps
          /\ run'.effects = run.effects /\ run'.pending = run.pending
      BY <2>1, <2>3 DEF IsRun, RunFields
    <2>7. ToSet(run'.frames) = ToSet(run.frames) \cup {g}
      BY <2>3, <2>6, Appended
    <2>8. /\ Now'.events = Now.events \cup {g} /\ Now'.steps = Now.steps /\ Now'.effects = Now.effects
          /\ Now'.pending = run.pending
      BY <2>4, <2>6, <2>7 DEF Now, property_input
    <2>. HIDE DEF n
    <2>9. Later(Now', Now) /\ Ordered(Now'.events)
      <3>1. Now.effects \subseteq Now'.effects /\ \A d \in Now'.effects : d \in Now.effects \/ d[2] = n
        BY <2>8
      <3>2. g.type \notin {"Message", "Clock", "GoalResponse"}
        BY <2>5
      <3>. QED  BY <2>3, <2>5, <2>8, <3>1, <3>2, AddedLater
    <2>10. evaluate(property, run') = answered(property, Now')
      <3>1. evaluate(property, run') = answered(property, property_input(run'))
        BY Evaluated
      <3>. QED  BY <3>1 DEF Now
    <2>11. \E v : verdict' = {v} /\ v = answered(property, Now') /\ Matches(property, variant, v)
      <3>1. CASE verdict # {}
        <4>1. PICK v : verdict = {v} /\ Final(property, Now, v) /\ Matches(property, variant, v)
          BY <1>1, <2>2, <3>1 DEF Healthy, Settled
        <4>2. answered(property, Now') = v
          BY <2>9, <4>1, FinalStays, FinalAnswers
        <4>. QED  BY <2>1, <3>1, <4>1, <4>2
      <3>2. CASE verdict = {}
        <4>1. verdict' = {answered(property, Now')}
          BY <2>1, <2>10, <3>2
        <4>2. Follows(Now, variant, state, goals_issued) /\ run.pending = waits(state)
          BY <1>1, <2>2, <3>2 DEF Healthy, Following
        <4>3. Unread(Now', Now)
          <5>1. Placed(Now.steps, n)
            BY <1>1, <2>2, <2>4 DEF Healthy, Behind, n
          <5>2. g.type \notin {"GoalSend", "CancelSend"}
            BY <2>5
          <5>. QED  BY <2>3, <2>5, <2>8, <5>1, <5>2, AddedRead
        <4>4. Follows(Now', variant, state, goals_issued)
          BY <4>2, <4>3, FollowsStays
        <4>5. Matches(property, variant, answered(property, Now'))
          BY <2>8, <2>9, <4>2, <4>4, SentMatches, UnsentMatches DEF Follows
        <4>. QED  BY <4>1, <4>5
      <3>. QED  BY <3>1, <3>2
    <2>12. property' = property /\ variant' = variant
      BY <2>1 DEF component
    <2>13. EarlyVerdictIsFinal'
      BY <2>10, <2>11, <2>12 DEF EarlyVerdictIsFinal
    <2>14. VerdictMatchesBuild'
      BY <2>11, <2>12 DEF VerdictMatchesBuild, Matches
    <2>. QED  BY <1>1, <2>1, <2>13, <2>14 DEF AnswerInv, Started
  <1>. QED  BY <1>2, <1>3

LEMMA RecordAnswers == ASSUME IInv, AnswerInv, Record PROVE AnswerInv'
  <1>1. RecordNext /\ run' = run /\ adapter' = adapter /\ requests' = requests /\ responses' = responses
    BY DEF Record, runner, pipes
  <1>2. phase = "recording"
    BY <1>1 DEF RecordNext, ServeCommand, ServeClock, ServeGoalResponse, ServeResult,
                ServeCancelResponse, Serve, RecordGap, RecordEnd
  <1>3. phase' \in {"recording", "bailed", "closed"}
    <2>1. Written(recording, counters)
      BY <1>2 DEF IInv, RecordingInv, Recording
    <2>. QED  BY <1>1, <2>1, RecordKeeps
  <1>4. Quiet'
    BY <1>1, <1>2 DEF AnswerInv, Quiet
  <1>5. adapter' = "unstarted" /\ run'.effects = <<>>
    BY <1>1, <1>2 DEF AnswerInv
  <1>. QED  BY <1>3, <1>4, <1>5 DEF AnswerInv, Started

\* Nothing of the replay moves, and no line.
LEMMA HealthRests ==
    ASSUME UNCHANGED <<component, recorder, case, runner, requests, responses>>
    PROVE  Healthy => Healthy'
  <1>1. UNCHANGED <<phase, recording, run, cursor, verdict, property, variant, state, goals_issued>>
    BY DEF component, recorder, case, runner
  <1>2. Quiet' = Quiet /\ Now' = Now /\ Recorded' = Recorded /\ ReplayedOrdinal' = ReplayedOrdinal
    BY <1>1, OrdinalNow DEF Quiet, Now, Recorded
  <1>3. Started' = Started /\ \A n : Behind(n)' = Behind(n)
    BY <1>1 DEF Started, Behind
  <1>4. AskedStep' = AskedStep /\ Answering' = Answering
    BY <1>1, <1>2 DEF AskedStep, Answering
  <1>5. Asked("start")' = Asked("start") /\ Asked("finish")' = Asked("finish")
    BY <1>1 DEF Asked
  <1>6. Following => Following'
    BY <1>1, <1>2, <1>4, <1>5 DEF Following
  <1>7. Settled => Settled'
    BY <1>1, <1>2 DEF Settled
  <1>. QED  BY <1>1, <1>2, <1>3, <1>5, <1>6, <1>7 DEF Healthy, Behind

LEMMA Rests ==
    ASSUME AnswerInv, UNCHANGED <<component, recorder, case, runner, pipes>>
    PROVE  AnswerInv'
  <1>1. /\ UNCHANGED <<phase, run, verdict, property, variant, adapter, requests, responses>>
    BY DEF component, recorder, case, runner, pipes
  <1>2. Quiet' = Quiet /\ Started' = Started
    BY <1>1 DEF Quiet, Started
  <1>3. Healthy => Healthy'
    BY <1>1, HealthRests
  <1>4. EarlyVerdictIsFinal' = EarlyVerdictIsFinal /\ VerdictMatchesBuild' = VerdictMatchesBuild
    BY <1>1 DEF EarlyVerdictIsFinal, VerdictMatchesBuild
  <1>. QED  BY <1>1, <1>2, <1>3, <1>4 DEF AnswerInv

\* A step of the adapter: an answer that was given is not affected.
LEMMA AdapterMoves ==
    ASSUME AnswerInv, adapter \in {"running", "leaving"}, UNCHANGED <<recorder, case, runner>>,
           variant' = variant,
           phase = "starting" /\ Healthy => Healthy',
           Started /\ verdict = {} /\ Healthy => Following'
    PROVE  AnswerInv'
  <1>1. UNCHANGED <<phase, recording, run, cursor, verdict, property>>
    BY DEF recorder, case, runner
  <1>2. Now' = Now /\ Started' = Started /\ ReplayedOrdinal' = ReplayedOrdinal
    BY <1>1, OrdinalNow DEF Now, Started
  <1>3. phase' \notin {"recording", "bailed", "closed", "done"}
    BY <1>1 DEF AnswerInv
  <1>4. ASSUME Started PROVE Healthy'
    <2>1. Healthy
      BY <1>4 DEF AnswerInv
    <2>2. verdict # {} => Settled'
      BY <1>1, <1>2, <1>4, <2>1 DEF Healthy, Settled
    <2>3. IsSeq(run'.effects) /\ Behind(IF phase = "stepping" THEN ReplayedOrdinal ELSE Len(run.frames))'
      BY <1>1, <1>2, <1>4, <2>1 DEF Healthy, Behind
    <2>4. verdict = {} => Following'
      BY <1>4, <2>1
    <2>5. phase' # "starting"
      BY <1>1, <1>4 DEF Started
    <2>. QED  BY <1>1, <1>2, <2>1, <2>2, <2>3, <2>4, <2>5 DEF Healthy
  <1>5. ASSUME phase = "starting" PROVE Healthy'
    BY <1>5 DEF AnswerInv
  <1>. QED  BY <1>1, <1>2, <1>3, <1>4, <1>5 DEF AnswerInv

\* What a request in the pipe says of a replay that goes well.
LEMMA Requested ==
    ASSUME Healthy, requests # <<>>, (Started /\ verdict = {}) \/ phase = "starting"
    PROVE  /\ responses = <<>> /\ \E q : requests = <<q>>
           /\ phase = "starting" => Request.op = "start"
           /\ phase # "starting" => phase \in {"stepping", "finishing"}
           /\ phase = "stepping" => Request.op = "step" /\ AskedStep
           /\ phase = "finishing" => Request.op = "finish"
  <1>1. \A q : requests = <<q>> => Request = q
    BY DEF Request
  <1>2. CASE phase = "starting"
    BY <1>1, <1>2 DEF Healthy, Asked
  <1>3. CASE Started /\ verdict = {}
    <2>1. Following /\ phase # "starting"
      BY <1>3 DEF Healthy, Started
    <2>2. phase \in {"stepping", "finishing"}
      BY <1>3, <2>1 DEF Following, Started, Quiet
    <2>3. CASE phase = "stepping"
      BY <1>1, <2>1, <2>3 DEF Following, Answering, AskedStep
    <2>4. CASE phase = "finishing"
      BY <1>1, <2>1, <2>4 DEF Following, Asked
    <2>. QED  BY <2>1, <2>2, <2>3, <2>4
  <1>. QED  BY <1>2, <1>3

LEMMA OneLine ==
    ASSUME NEW z
    PROVE  <<>> \o <<z>> = <<z>> /\ Tail(<<z>>) = <<>>
  <1>1. <<z>> \in Seq({z})
    OBVIOUS
  <1>. QED  BY <1>1

LEMMA AdapterStartAnswers ==
    ASSUME AnswerInv, AdapterStart, UNCHANGED <<recorder, case, runner>> PROVE AnswerInv'
  <1>. DEFINE z == [line |-> "started", variant |-> variant]
  <1>1. /\ adapter = "running" /\ requests # <<>> /\ Request.op = "start" /\ state' = Idle /\ goals_issued' = 0
        /\ variant' = variant /\ requests' = Tail(requests) /\ responses' = responses \o <<z>>
    BY DEF AdapterStart, AdapterReads, Reply
  <1>. HIDE DEF z
  <1>2. ASSUME phase = "starting", Healthy PROVE Healthy'
    <2>1. responses = <<>> /\ \E q : requests = <<q>>
      BY <1>1, <1>2, Requested
    <2>2. PICK q : requests = <<q>>
      BY <2>1
    <2>3. responses' = <<z>> /\ requests' = <<>>
      BY <1>1, <2>1, <2>2, OneLine
    <2>4. phase' = "starting" /\ run' = run
      BY <1>2 DEF recorder, runner
    <2>. QED  BY <1>1, <1>2, <2>3, <2>4 DEF Healthy, Started
  <1>3. ASSUME Started, verdict = {}, Healthy PROVE FALSE
    BY <1>1, <1>3, Requested DEF Started
  <1>. QED  BY <1>1, <1>2, <1>3, AdapterMoves

LEMMA AdapterFinishAnswers ==
    ASSUME AnswerInv, AdapterFinish, UNCHANGED <<recorder, case, runner>> PROVE AnswerInv'
  <1>. DEFINE z == [line |-> "finished", reason |-> Request.reason, pending |-> waits(state),
                    effects |-> reported]
  <1>1. /\ adapter = "running" /\ requests # <<>> /\ Request.op = "finish" /\ UNCHANGED component
        /\ requests' = Tail(requests) /\ responses' = responses \o <<z>> /\ z.pending = waits(state)
    BY DEF AdapterFinish, AdapterReads, Reply
  <1>. HIDE DEF z
  <1>2. variant' = variant /\ state' = state /\ goals_issued' = goals_issued
    BY <1>1 DEF component
  <1>3. ASSUME phase = "starting", Healthy PROVE FALSE
    BY <1>1, <1>3, Requested
  <1>4. ASSUME Started, verdict = {}, Healthy PROVE Following'
    <2>1. phase = "finishing" /\ responses = <<>> /\ \E q : requests = <<q>>
      BY <1>1, <1>4, Requested DEF Started
    <2>2. PICK q : requests = <<q>>
      BY <2>1
    <2>3. responses' = <<z>> /\ requests' = <<>>
      BY <1>1, <2>1, <2>2, OneLine
    <2>4. phase' = phase /\ Now' = Now
      BY DEF recorder, runner, Now
    <2>5. Follows(Now, variant, state, goals_issued)
      BY <1>4, <2>1 DEF Healthy, Following
    <2>. QED  BY <1>1, <1>2, <2>1, <2>3, <2>4, <2>5 DEF Following
  <1>. QED  BY <1>1, <1>2, <1>3, <1>4, AdapterMoves

LEMMA AdapterExitAnswers ==
    ASSUME AnswerInv, AdapterExit, UNCHANGED <<recorder, case, runner>> PROVE AnswerInv'
  <1>1. adapter = "leaving" /\ UNCHANGED <<component, requests, responses>>
    BY DEF AdapterExit
  <1>2. variant' = variant /\ phase' = phase /\ verdict' = verdict /\ Started' = Started
    BY <1>1 DEF component, recorder, runner, Started
  <1>3. Healthy => Healthy'
    BY <1>1, HealthRests
  <1>4. Started /\ verdict = {} /\ Healthy => Following'
    BY <1>2, <1>3 DEF Healthy
  <1>. QED  BY <1>1, <1>2, <1>3, <1>4, AdapterMoves

LEMMA AdapterDiesAnswers ==
    ASSUME AnswerInv, AdapterDies, UNCHANGED <<recorder, case, runner>> PROVE AnswerInv'
  <1>1. adapter \in {"running", "leaving"} /\ adapter' = "dead" /\ phase' = phase
    BY DEF AdapterDies, recorder
  <1>2. phase \notin {"recording", "bailed", "closed", "done"}
    BY <1>1 DEF AnswerInv
  <1>. QED  BY <1>1, <1>2 DEF AnswerInv

\* The input in work, when nothing of its answer has arrived.
LEMMA InputInWork ==
    ASSUME IInv, phase = "stepping", Healthy, AskedStep
    PROVE  LET w == run.frames[Len(run.frames)]
           IN  /\ w.ordinal = ReplayedOrdinal /\ ReplayedOrdinal \in Nat
               /\ w.type = Recorded.type /\ w.body = Recorded.body /\ w.type \in InputTypes
               /\ Trails(w, Now.events)
               /\ Ordered(Now.events) /\ Placed(Now.steps, ReplayedOrdinal)
               /\ Len(run.frames) = ReplayedOrdinal + 1
  <1>. DEFINE n == Len(run.frames)
              w == run.frames[n]
  <1>1. Started /\ InWork(recording, cursor, run.frames) /\ verdict = {}
    BY Stepping
  <1>2. /\ Streams(run.frames) /\ n \in Nat /\ Ordered(Now.events)
        /\ Now.events = ToSet(run.frames) /\ Now.steps = ToSet(run.steps)
        /\ \A e \in Now.events : e.ordinal < n
    BY <1>1, Framed
  <1>3. PICK p \in 1..n : Content(run.frames[p]) = Content(recording[cursor]) /\ ReplayedOrdinal = p - 1
    BY <1>1, <1>2, WorkOrdinal
  <1>4. p = n /\ n = ReplayedOrdinal + 1 /\ ReplayedOrdinal \in Nat
    BY <1>2, <1>3 DEF AskedStep
  <1>5. Content(w) = Content(Recorded) /\ Recorded.type \in InputTypes
    BY <1>1, <1>3, <1>4 DEF Recorded, InWork
  <1>. HIDE DEF w
  <1>6. w.type = Recorded.type /\ w.body = Recorded.body
    BY <1>5 DEF Content
  <1>7. w \in Now.events /\ w.ordinal = n - 1
    <2>1. n \in 1..n
      BY <1>2, <1>4
    <2>. QED  BY <1>2, <2>1, StreamOrdered DEF w
  <1>. HIDE DEF n
  <1>8. \A e \in Now.events : e = w \/ e.ordinal < w.ordinal
    <2>1. \A e \in Now.events : e.ordinal \in Nat
      BY <1>2 DEF Ordered
    <2>2. \A e \in Now.events : e.ordinal = w.ordinal \/ e.ordinal < w.ordinal
      BY <1>2, <1>4, <1>7, <2>1
    <2>. QED  BY <1>2, <1>7, <2>2 DEF Ordered
  <1>9. Placed(Now.steps, ReplayedOrdinal)
    BY <1>1, <1>2 DEF Healthy, Behind
  <1>10. w.ordinal = ReplayedOrdinal
    BY <1>4, <1>7
  <1>. QED  BY <1>2, <1>4, <1>5, <1>6, <1>7, <1>8, <1>9, <1>10 DEF w, n, Trails

\* What is ahead once a step is answered follows the state after it.
LEMMA AnswerFollows ==
    ASSUME NEW in, Step(in), variant \in Variant, NEW I, Ordered(I.events), NEW w, Trails(w, I.events),
           w.type = in.type, w.body = in.body, w.type \in InputTypes,
           Placed(I.steps, w.ordinal),
           NEW x, x.replayed = w.ordinal, x.recorded = in.ordinal, x.status = Status(outcome'.consumed),
           NEW lines, NEW n, n = w.ordinal + 1, Tells(lines, outcome'.effects, outcome'.callback),
           Follows(I, variant, state, goals_issued)
    PROVE  Follows(Ahead(I, x, lines, n), variant', state', goals_issued')
  <1>. DEFINE es == outcome'.effects
              cb == outcome'.callback
              J == Ahead(I, x, lines, n)
  <1>1. /\ SentInOrder(es) /\ outcome'.consumed \in {"Yes", "No", "Refused"}
    BY StepAnswers
  <1>2. IsSeq(es)
    BY StepEmits, EmittedSeq
  <1>3. Applied \in BOOLEAN /\ (Applied <=> x.status = "Ok")
    BY <1>1 DEF Status, Applied
  <1>. HIDE DEF es, cb
  <1>4. /\ Incoming(lines, n) = Arrivals(es, n)
        /\ IncomingCalls(lines, n) = Calls(cb, Arrivals(es, n))
    <2>1. Tells(lines, es, cb)
      BY DEF es, cb
    <2>. QED  BY <2>1, LinesArrive
  <1>5. Grows(J, I, w, Applied, cb, Arrivals(es, w.ordinal + 1)) /\ StepsAt(J, w.ordinal) = {x}
    <2>. DEFINE ok == Applied
    <2>1. ok \in BOOLEAN /\ (ok <=> x.status = "Ok")
      BY <1>3
    <2>. HIDE DEF ok, J
    <2>2. /\ Grows(Ahead(I, x, lines, n), I, w, ok, cb, Arrivals(es, w.ordinal + 1))
          /\ StepsAt(Ahead(I, x, lines, n), w.ordinal) = {x}
      BY <1>1, <1>2, <1>4, <2>1, AheadGrows
    <2>. QED  BY <2>2 DEF ok, J
  <1>. HIDE DEF J
  <1>6. Follows(J, variant', state', goals_issued')
    <2>1. Grows(J, I, w, Applied, outcome'.callback, Arrivals(outcome'.effects, w.ordinal + 1))
      BY <1>5 DEF es, cb
    <2>. QED  BY <1>5, <2>1, StepFollows
  <1>. QED  BY <1>6 DEF J

\* The lines of AdapterStep.
LEMMA StepReplied ==
    ASSUME NEW in, Step(in), NEW a, NEW b, NEW z, NEW n,
           a = [i \in DOMAIN outcome'.effects |->
                  [line |-> "effect", step |-> n, callback |-> outcome'.callback,
                   effect |-> outcome'.effects[i]]],
           b = [i \in DOMAIN outcome'.progress |->
                  [line |-> "progress", step |-> n, callback |-> outcome'.callback]],
           z.line = "stepped", z.status = Status(outcome'.consumed)
    PROVE  LET lines == a \o b \o <<z>>
           IN  /\ StepLines(lines) /\ Ending(lines) = z /\ <<>> \o lines = lines
               /\ Tells(lines, outcome'.effects, outcome'.callback)
  <1>. DEFINE es == outcome'.effects
              ps == outcome'.progress
              cb == outcome'.callback
              lines == a \o b \o <<z>>
  <1>1. SentInOrder(es) /\ IsSeq(ps) /\ (Applied \/ Silent)
    BY StepAnswers
  <1>2. IsSeq(es) /\ \A i \in DOMAIN es : Emission(es[i])
    BY StepEmits, EmittedSeq
  <1>3. es # <<>> => z.status = "Ok"
    BY <1>1 DEF Applied, Silent, Status
  <1>. HIDE DEF es, ps, cb
  <1>4. EffectLines(a, es, cb)
    BY DEF EffectLines, es, cb
  <1>5. ProgressLines(b, ps)
    BY DEF ProgressLines, ps
  <1>6. StepLines(lines) /\ Ending(lines) = z /\ Tells(lines, es, cb)
    BY <1>1, <1>2, <1>3, <1>4, <1>5, LinesMade
  <1>. HIDE DEF lines
  <1>7. <<>> \o lines = lines
    <2>1. PICK S : lines \in Seq(S)
      BY <1>6 DEF StepLines, IsSeq
    <2>. QED  BY <2>1
  <1>. QED  BY <1>6, <1>7 DEF lines, es, cb

LEMMA AdapterStepAnswers ==
    ASSUME IInv, AnswerInv, AdapterStep, UNCHANGED <<recorder, case, runner>> PROVE AnswerInv'
  <1>. DEFINE in == Request.input
              o == outcome'
              a == [i \in DOMAIN o.effects |->
                      [line |-> "effect", step |-> in.ordinal, callback |-> o.callback,
                       effect |-> o.effects[i]]]
              b == [i \in DOMAIN o.progress |->
                      [line |-> "progress", step |-> in.ordinal, callback |-> o.callback]]
              z == [line |-> "stepped", ordinal |-> in.ordinal, status |-> Status(o.consumed),
                    pending |-> waits(state')]
              lines == a \o b \o <<z>>
  <1>1. /\ adapter = "running" /\ requests # <<>> /\ Request.op = "step" /\ Step(in)
        /\ requests' = Tail(requests) /\ responses' = responses \o lines
    BY DEF AdapterStep, AdapterReads, Reply
  <1>2. variant' = variant
    BY <1>1, StepAnswers
  <1>3. /\ StepLines(lines) /\ Ending(lines) = z /\ <<>> \o lines = lines
        /\ Tells(lines, o.effects, o.callback)
    <2>1. z.line = "stepped" /\ z.status = Status(o.consumed)
      OBVIOUS
    <2>. HIDE DEF in, z
    <2>. QED  BY <1>1, <2>1, StepReplied
  <1>4. z.status = Status(outcome'.consumed)
    OBVIOUS
  <1>. HIDE DEF a, b, z, lines, in, o
  <1>5. ASSUME phase = "starting", Healthy PROVE FALSE
    BY <1>1, <1>5, Requested
  <1>6. ASSUME Started, verdict = {}, Healthy PROVE Following'
    <2>1. phase = "stepping" /\ AskedStep
      BY <1>1, <1>6, Requested DEF Started
    <2>2. PICK q : /\ requests = <<q>> /\ q.input.type = Recorded.type /\ q.input.body = Recorded.body
                   /\ q.input.ordinal = Recorded.ordinal
      BY <2>1 DEF AskedStep
    <2>3. in = q.input
      BY <2>2 DEF in, Request
    <2>4. /\ responses = <<>> /\ Follows(Now, variant, state, goals_issued)
      BY <2>1 DEF AskedStep
    <2>5. requests' = <<>> /\ responses' = lines
      BY <1>1, <1>3, <2>2, <2>4, OneLine
    <2>6. /\ phase' = phase /\ Now' = Now /\ ReplayedOrdinal' = ReplayedOrdinal /\ Recorded' = Recorded
          /\ run' = run
      BY OrdinalNow DEF recorder, runner, Now, Recorded
    <2>. DEFINE n == Len(run.frames)
                w == run.frames[n]
                x == step(Recorded.ordinal, ReplayedOrdinal, z.status)
    <2>7. /\ w.ordinal = ReplayedOrdinal /\ w.type = Recorded.type /\ w.body = Recorded.body
          /\ w.type \in InputTypes /\ Trails(w, Now.events) /\ Ordered(Now.events)
          /\ Placed(Now.steps, ReplayedOrdinal) /\ n = ReplayedOrdinal + 1
      BY <1>6, <2>1, InputInWork
    <2>8. x.replayed = ReplayedOrdinal /\ x.recorded = Recorded.ordinal /\ x.status = z.status
      BY DEF step
    <2>. HIDE DEF n, w, x
    <2>9. Follows(Ahead(Now, x, lines, n), variant', state', goals_issued')
      <3>1. variant \in Variant
        BY <1>6 DEF Healthy
      <3>2. /\ w.type = in.type /\ w.body = in.body /\ Placed(Now.steps, w.ordinal)
            /\ x.replayed = w.ordinal /\ x.recorded = in.ordinal /\ x.status = Status(outcome'.consumed)
            /\ n = w.ordinal + 1
        BY <1>4, <2>2, <2>3, <2>7, <2>8
      <3>3. Tells(lines, outcome'.effects, outcome'.callback)
        BY <1>3 DEF o
      <3>. QED  BY <1>1, <2>4, <2>7, <3>1, <3>2, <3>3, AnswerFollows
    <2>10. Answering'
      BY <1>3, <2>5, <2>6, <2>9 DEF Answering, x, n
    <2>. QED  BY <2>1, <2>6, <2>10 DEF Following
  <1>. QED  BY <1>1, <1>2, <1>5, <1>6, AdapterMoves

LEMMA InitAnswers == Init => AnswerInv
  <1>. SUFFICES ASSUME Init PROVE AnswerInv
    OBVIOUS
  <1>1. /\ phase = "recording" /\ adapter = "unstarted" /\ requests = <<>> /\ responses = <<>>
        /\ run.effects = <<>>
    BY DEF Init, RecordInit
  <1>. QED  BY <1>1 DEF AnswerInv, Quiet, Started

LEMMA NextAnswers == IInv /\ IInv' /\ AnswerInv /\ [Next]_vars => AnswerInv'
  <1>. SUFFICES ASSUME IInv, IInv', AnswerInv, [Next]_vars PROVE AnswerInv'
    OBVIOUS
  <1>1. CASE Record
    BY <1>1, RecordAnswers
  <1>2. CASE Adapter
    BY <1>2, AdapterStartAnswers, AdapterStepAnswers, AdapterFinishAnswers, AdapterExitAnswers,
       AdapterDiesAnswers DEF Adapter
  <1>3. CASE RunnerNext
    <2>1. CASE GiveUp
      BY <2>1, GivesUp DEF GiveUp
    <2>2. CASE Launch \/ ReceiveStarted \/ SkipFrame \/ StopAtMarker \/ RefuseInput \/ DeliverInput
      BY <2>2, LaunchAnswers, ReceiveStartedAnswers, SkipFrameAnswers, StopAtMarkerAnswers,
         RefuseInputAnswers, DeliverInputAnswers
    <2>3. CASE ReceiveEffect \/ ReceiveProgress \/ ReceiveStepped \/ SendFinish
      BY <2>3, ReceiveEffectAnswers, ReceiveProgressAnswers, ReceiveSteppedAnswers, SendFinishAnswers
    <2>4. CASE ReceiveLate \/ ReceiveFinished \/ Conclude
      BY <2>4, ReceiveLateAnswers, ReceiveFinishedAnswers, ConcludeAnswers
    <2>. QED  BY <1>3, <2>1, <2>2, <2>3, <2>4 DEF RunnerNext
  <1>4. CASE UNCHANGED vars
    BY <1>4, Rests DEF vars
  <1>. QED  BY <1>1, <1>2, <1>3, <1>4 DEF Next

\* The component is deterministic: its memory and what it says after a step are a
\* function of the build, the memory before and the input.
LEMMA StepIs ==
    ASSUME NEW in, Step(in)
    PROVE  [to |-> Memory', says |-> outcome'] = After(variant, Memory, in)
  <1>. DEFINE m == Memory
  <1>1. m.state = state /\ m.goals = goals_issued /\ m.sequences = sequences
    BY DEF Memory
  <1>2. ASSUME NEW cb, NEW es, NEW progress, Consume(cb, es, progress)
        PROVE  [to |-> Memory', says |-> outcome'] = Used(m, state', goals_issued', cb, es, progress)
    BY <1>1, <1>2 DEF Consume, Used, Memory
  <1>3. ASSUME NEW how, NotApplied(in, how)
        PROVE  [to |-> Memory', says |-> outcome'] = Unused(m, in, how)
    BY <1>3 DEF NotApplied, Unused, Memory
  <1>4. /\ \A text : status_effect(text) = StatusIn(m, text)
        /\ \A id, goal : goal_send(id, goal) = SendIn(m, id, goal)
        /\ \A id, now : cancel_send(id, now) = CancelIn(m, id, now)
    BY <1>1 DEF status_effect, goal_send, cancel_send, effect, StatusIn, SendIn, CancelIn, EffectIn
  <1>. HIDE DEF m
  <1>5. ASSUME OnGoalCommand(in)
        PROVE  [to |-> Memory', says |-> outcome'] = AfterCommand(variant, m, in)
    BY <1>1, <1>2, <1>3, <1>5 DEF OnGoalCommand, AfterCommand
  <1>6. ASSUME PollDeadline(in) PROVE [to |-> Memory', says |-> outcome'] = AfterPoll(variant, m, in)
    BY <1>1, <1>2, <1>4, <1>6 DEF PollDeadline, DeadlinePassed, AfterPoll
  <1>7. ASSUME SendGoal(in) PROVE [to |-> Memory', says |-> outcome'] = AfterSend(variant, m, in)
    BY <1>1, <1>2, <1>4, <1>7 DEF SendGoal, goal_id, AfterSend
  <1>8. ASSUME OnClock(in) PROVE [to |-> Memory', says |-> outcome'] = AfterClock(variant, m, in)
    <2>1. AnswersPendingRead(in) <=> ReadPending(m, in)
      BY <1>1 DEF AnswersPendingRead, ReadPending
    <2>. QED  BY <1>1, <1>3, <1>6, <1>7, <1>8, <2>1 DEF OnClock, AfterClock, LeavesNoRoom
  <1>9. ASSUME NotApplied(in, IF AfterCancel(in) THEN "Refused" ELSE "No")
        PROVE  [to |-> Memory', says |-> outcome'] = Unusable(m, in)
    BY <1>1, <1>3, <1>9 DEF AfterCancel, Unusable
  <1>10. ASSUME OnGoalResponse(in)
         PROVE  [to |-> Memory', says |-> outcome'] = AfterGoalResponse(variant, m, in)
    BY <1>1, <1>2, <1>4, <1>9, <1>10 DEF OnGoalResponse, AfterGoalResponse, AfterResponse
  <1>11. ASSUME OnResult(in) PROVE [to |-> Memory', says |-> outcome'] = AfterResult(variant, m, in)
    BY <1>1, <1>2, <1>4, <1>9, <1>11 DEF OnResult, AfterResult
  <1>12. ASSUME OnCancelResponse(in)
         PROVE  [to |-> Memory', says |-> outcome'] = AfterCancelResponse(variant, m, in)
    BY <1>1, <1>2, <1>3, <1>4, <1>12 DEF OnCancelResponse, AfterCancelResponse
  <1>13. ASSUME Unhandled(in)
         PROVE  /\ ~Handles(in, CH_GOAL_COMMAND, "Message") /\ ~Handles(in, CH_CLOCK, "Clock")
                /\ ~Handles(in, CH_ACTION_RESPONSE, "GoalResponse")
                /\ ~Handles(in, CH_ACTION_RESPONSE, "Result")
                /\ ~Handles(in, CH_ACTION_RESPONSE, "CancelResponse")
    BY <1>13 DEF Unhandled
  <1>14. CASE Unhandled(in)
    BY <1>1, <1>2, <1>3, <1>13, <1>14 DEF Step, After, m
  <1>15. CASE ~Unhandled(in)
    <2>1. \A c, d, a, b : a # b => ~(Handles(in, c, a) /\ Handles(in, d, b))
      BY DEF Handles
    <2>. QED  BY <1>5, <1>8, <1>10, <1>11, <1>12, <1>15, <2>1 DEF Step, After, m
  <1>. QED  BY <1>14, <1>15

LEMMA EffectsNotInputs == \A x : ~(x \in EffectTypes /\ x \in InputTypes)
  BY DEF EffectTypes, InputTypes

LEMMA SentMore ==
    ASSUME NEW s, NEW t, NEW n \in Nat, NEW m \in Nat, n <= m, \A i \in 1..n : t[i] = s[i]
    PROVE  SentBy(s, n) \subseteq SentBy(t, m)
  <1>. SUFFICES ASSUME NEW id \in SentBy(s, n) PROVE id \in SentBy(t, m)
    OBVIOUS
  <1>1. PICK k \in 1..n : s[k].type = "GoalSend" /\ id = s[k].body.goal_id
    BY DEF SentBy
  <1>2. k \in 1..m /\ t[k] = s[k]
    OBVIOUS
  <1>. QED  BY <1>1, <1>2 DEF SentBy

\* What was written stays explained when more is.
LEMMA ExplainsStay ==
    ASSUME NEW s, NEW t, IsSeq(s), IsSeq(t), Extends(t, s), NEW v, NEW a, NEW b,
           NEW j \in 1..Len(s), Explains(s, v, a, b, j)
    PROVE  Explains(t, v, a, b, j)
  <1>1. Len(s) \in Nat /\ Len(t) \in Nat /\ Len(t) >= Len(s) /\ \A i \in 1..Len(s) : t[i] = s[i]
    BY SeqShape DEF Extends
  <1>2. t[j] = s[j] /\ j - 1 \in Nat
    BY <1>1
  <1>3. CASE s[j].type \notin InputTypes
    BY <1>2, <1>3 DEF Explains
  <1>4. CASE s[j].type \in InputTypes
    <2>1. Serves(s, v, a, b, j)
      BY <1>4 DEF Explains
    <2>2. Refers(t, j)
      <3>1. SentBy(s, j - 1) \subseteq SentBy(t, j - 1)
        <4>1. \A i \in 1..(j - 1) : t[i] = s[i]
          BY <1>1
        <4>. QED  BY <1>2, <4>1, SentMore
      <3>2. ASSUME NamesRequest(s[j])
            PROVE  \E k \in 1..(j - 1) : t[j].body.request = k - 1 /\ Answers(t[j], t[k], SentBy(t, j - 1))
        <4>1. PICK k \in 1..(j - 1) : s[j].body.request = k - 1 /\ Answers(s[j], s[k], SentBy(s, j - 1))
          BY <2>1, <3>2 DEF Serves, Refers
        <4>2. t[k] = s[k]
          BY <1>1
        <4>3. Answers(t[j], t[k], SentBy(t, j - 1))
          BY <1>2, <3>1, <4>1, <4>2 DEF Answers
        <4>. QED  BY <1>2, <4>1, <4>3
      <3>. QED  BY <1>2, <3>2 DEF Refers
    <2>3. InputAt(t, j) = InputAt(s, j)
      <3>1. ASSUME NamesRequest(s[j]) PROVE t[s[j].body.request + 1] = s[s[j].body.request + 1]
        <4>1. PICK k \in 1..(j - 1) : s[j].body.request = k - 1
          BY <2>1, <3>1 DEF Serves, Refers
        <4>2. s[j].body.request + 1 = k /\ t[k] = s[k]
          BY <1>1, <4>1
        <4>. QED  BY <4>2
      <3>. QED  BY <1>2, <3>1 DEF InputAt, RequestIn
    <2>. DEFINE es == After(v, a, InputAt(s, j)).says.effects
    <2>4. ShownAfter(s, j, es)
      BY <2>1 DEF Serves
    <2>5. ShownAfter(t, j, es)
      <3>. HIDE DEF es
      <3>. DEFINE m == Len(es)
      <3>1. m \in Nat /\ j + m <= Len(s) /\ \A i \in 1..m : Shows(s[j + i], es[i])
        BY <2>4 DEF ShownAfter
      <3>2. j + m < Len(s) => s[j + m + 1].type \notin EffectTypes
        BY <2>4 DEF ShownAfter
      <3>. HIDE DEF m
      <3>3. \A i \in 1..m : t[j + i] = s[j + i]
        BY <1>1, <3>1
      <3>4. j + m <= Len(t)
        BY <1>1, <3>1
      <3>5. j + m < Len(t) => t[j + m + 1].type \notin EffectTypes
        <4>1. CASE j + m < Len(s)
          <5>1. t[j + m + 1] = s[j + m + 1]
            BY <1>1, <3>1, <4>1
          <5>. QED  BY <3>2, <4>1, <5>1
        <4>2. CASE ~(j + m < Len(s))
          <5>1. j + m = Len(s)
            BY <1>1, <3>1, <4>2
          <5>. QED  BY <1>1, <5>1 DEF Extends
        <4>. QED  BY <4>1, <4>2
      <3>. QED  BY <3>1, <3>3, <3>4, <3>5 DEF ShownAfter, m
    <2>. QED  BY <1>2, <1>4, <2>1, <2>2, <2>3, <2>5 DEF Explains, Serves, es
  <1>. QED  BY <1>3, <1>4

\* A frame more, with the effects of the step it is an input of.
LEMMA TraceGrown ==
    ASSUME NEW s, NEW t, IsSeq(s), IsSeq(t), Extends(t, s), NEW v, NEW m, NEW b, Reaches(s, v, m),
           NEW n, n = Len(s) + 1, n <= Len(t), Explains(t, v, m, b, n),
           \A i \in (n + 1)..Len(t) : t[i].type \notin InputTypes
    PROVE  Reaches(t, v, b)
  <1>1. Len(s) \in Nat /\ Len(t) \in Nat /\ Len(t) > Len(s) /\ n \in Nat /\ n - 1 = Len(s)
    BY SeqShape
  <1>2. PICK c : Traced(s, v, c) /\ c[Len(s)] = m
    BY DEF Reaches
  <1>. DEFINE d == [j \in 0..Len(t) |-> IF j <= Len(s) THEN c[j] ELSE b]
  <1>3. /\ \A j \in 0..Len(s) : d[j] = c[j]
        /\ \A j \in n..Len(t) : d[j] = b
    BY <1>1
  <1>. HIDE DEF d
  <1>4. ASSUME NEW j \in 1..Len(t) PROVE Explains(t, v, d[j - 1], d[j], j)
    <2>1. CASE j \in 1..Len(s)
      <3>1. d[j - 1] = c[j - 1] /\ d[j] = c[j]
        BY <1>1, <1>3, <2>1
      <3>2. Explains(s, v, c[j - 1], c[j], j)
        BY <1>2, <2>1 DEF Traced
      <3>. QED  BY <2>1, <3>1, <3>2, ExplainsStay
    <2>2. CASE j = n
      <3>1. d[j - 1] = m /\ d[j] = b
        BY <1>1, <1>2, <1>3, <2>2
      <3>. QED  BY <2>2, <3>1
    <2>3. CASE j \in (n + 1)..Len(t)
      <3>1. d[j - 1] = b /\ d[j] = b /\ t[j].type \notin InputTypes
        BY <1>1, <1>3, <2>3
      <3>. QED  BY <3>1 DEF Explains
    <2>. QED  BY <1>1, <2>1, <2>2, <2>3
  <1>5. d[0] = Blank /\ d[Len(t)] = b
    BY <1>1, <1>2, <1>3 DEF Traced
  <1>. QED  BY <1>4, <1>5 DEF Reaches, Traced

\* The opening is explained by any build.
LEMMA OpeningTraced == \A v : Reaches(Opening, v, Blank)
  <1>. TAKE v
  <1>. DEFINE f == session_frame(0, SESSION_ACTOR_ID, 0, "Session", [uuid |-> "u"])
              g == session_frame(1, COMPONENT_ACTOR_ID, 1, "StartingState", [method |-> "fresh"])
              c == [j \in 0..2 |-> Blank]
              in == InputAt(Opening, 2)
  <1>1. f.type = "Session"
    BY FrameMade DEF session_frame, Made
  <1>2. g.type = "StartingState" /\ g.dst = COMPONENT_ACTOR_ID
    BY FrameMade DEF session_frame, Made
  <1>. HIDE DEF f, g
  <1>3. Opening = <<f, g>>
    BY DEF Opening, f, g
  <1>4. Len(Opening) = 2 /\ Opening[1] = f /\ Opening[2] = g
    BY <1>3
  <1>5. in.type = "StartingState" /\ in.dst = COMPONENT_ACTOR_ID
    BY <1>2, <1>4 DEF InputAt, Input
  <1>6. After(v, Blank, in) = Used(Blank, Blank.state, Blank.goals, in.ordinal, <<>>, <<>>)
    <2>. HIDE DEF in
    <2>. QED  BY <1>5 DEF After, Handles
  <1>7. \A cb : Used(Blank, Blank.state, Blank.goals, cb, <<>>, <<>>).to = Blank
    BY DEF Used, Blank
  <1>8. \A cb : LET says == Used(Blank, Blank.state, Blank.goals, cb, <<>>, <<>>).says
                IN  says.consumed = "Yes" /\ says.effects = <<>>
    BY DEF Used
  <1>9. ShownAfter(Opening, 2, <<>>)
    BY <1>4, EmptyShape DEF ShownAfter
  <1>10. Refers(Opening, 2)
    BY <1>2, <1>4 DEF Refers, NamesRequest
  <1>. HIDE DEF in
  <1>11. Serves(Opening, v, Blank, Blank, 2)
    BY <1>6, <1>7, <1>8, <1>9, <1>10 DEF Serves, in
  <1>12. Explains(Opening, v, Blank, Blank, 2) /\ Explains(Opening, v, Blank, Blank, 1)
    BY <1>1, <1>2, <1>4, <1>11 DEF Explains, InputTypes
  <1>13. \A j \in 0..2 : c[j] = Blank
    OBVIOUS
  <1>. HIDE DEF c
  <1>14. Traced(Opening, v, c)
    <2>1. \A j \in 1..2 : j = 1 \/ j = 2
      OBVIOUS
    <2>2. \A j \in 1..2 : c[j] = Blank /\ c[j - 1] = Blank
      BY <1>13
    <2>3. \A j \in 1..2 : Explains(Opening, v, c[j - 1], c[j], j)
      BY <1>12, <2>1, <2>2
    <2>. QED  BY <1>4, <1>13, <2>3 DEF Traced
  <1>. QED  BY <1>4, <1>13, <1>14 DEF Reaches

LEMMA SendsKnown ==
    ASSUME NEW v, NEW m, NEW in, NEW sent, KnownGoal(m, sent)
    PROVE  LET after == After(v, m, in)
               more  == sent \cup GoalsIn(after.says.effects)
           IN  KnownGoal(after.to, more) /\ SendsTo(after.says.effects, more)
  <1>. DEFINE Fine(a) == /\ KnownGoal(a.to, sent \cup GoalsIn(a.says.effects))
                         /\ SendsTo(a.says.effects, sent \cup GoalsIn(a.says.effects))
  <1>1. ASSUME NEW how PROVE Fine(Unused(m, in, how))
    <2>1. DOMAIN <<>> = {}
      OBVIOUS
    <2>. QED  BY <2>1 DEF Unused, KnownGoal, SendsTo
  <1>2. ASSUME NEW st, NEW goals, NEW cb, NEW es, NEW progress,
               st.tag = "AwaitGoalResponse" => st.goal_id \in sent \cup GoalsIn(es),
               SendsTo(es, sent \cup GoalsIn(es))
        PROVE  Fine(Used(m, st, goals, cb, es, progress))
    BY <1>2 DEF Used, KnownGoal
  <1>3. SendsTo(<<>>, sent \cup GoalsIn(<<>>))
    <2>1. DOMAIN <<>> = {}
      OBVIOUS
    <2>. QED  BY <2>1 DEF SendsTo
  <1>4. ASSUME NEW text PROVE SendsTo(<<StatusIn(m, text)>>, sent \cup GoalsIn(<<StatusIn(m, text)>>))
    <2>. DEFINE e == StatusIn(m, text)
    <2>1. e.type = "Status"
      BY DEF StatusIn, EffectIn
    <2>. HIDE DEF e
    <2>2. DOMAIN <<e>> = {1} /\ <<e>>[1] = e
      OBVIOUS
    <2>3. SendsTo(<<e>>, sent \cup GoalsIn(<<e>>))
      BY <2>1, <2>2 DEF SendsTo
    <2>. QED  BY <2>3 DEF e
  <1>5. ASSUME NEW id, NEW now, id \in sent
        PROVE  SendsTo(<<CancelIn(m, id, now)>>, sent \cup GoalsIn(<<CancelIn(m, id, now)>>))
    <2>. DEFINE e == CancelIn(m, id, now)
    <2>1. e.type = "CancelSend" /\ e.dst = ACTOR_ACTION_SERVER /\ e.body.goal_id = id
      BY DEF CancelIn, EffectIn
    <2>. HIDE DEF e
    <2>2. DOMAIN <<e>> = {1} /\ <<e>>[1] = e
      OBVIOUS
    <2>3. SendsTo(<<e>>, sent \cup GoalsIn(<<e>>))
      BY <1>5, <2>1, <2>2 DEF SendsTo
    <2>. QED  BY <2>3 DEF e
  <1>6. ASSUME NEW id, NEW goal
        PROVE  /\ id \in GoalsIn(<<SendIn(m, id, goal)>>)
               /\ SendsTo(<<SendIn(m, id, goal)>>, sent \cup GoalsIn(<<SendIn(m, id, goal)>>))
    <2>. DEFINE e == SendIn(m, id, goal)
    <2>1. e.type = "GoalSend" /\ e.dst = ACTOR_ACTION_SERVER /\ e.body.goal_id = id
      BY DEF SendIn, EffectIn
    <2>. HIDE DEF e
    <2>2. DOMAIN <<e>> = {1} /\ <<e>>[1] = e
      OBVIOUS
    <2>3. id \in GoalsIn(<<e>>) /\ SendsTo(<<e>>, sent \cup GoalsIn(<<e>>))
      BY <2>1, <2>2 DEF SendsTo, GoalsIn
    <2>. QED  BY <2>3 DEF e
  <1>7. ASSUME NEW id, NEW goal, NEW now
        PROVE  LET es == <<SendIn(m, id, goal), CancelIn(m, id, now)>>
               IN  id \in GoalsIn(es) /\ SendsTo(es, sent \cup GoalsIn(es))
    <2>. DEFINE e == SendIn(m, id, goal)
                f == CancelIn(m, id, now)
    <2>1. /\ e.type = "GoalSend" /\ e.dst = ACTOR_ACTION_SERVER /\ e.body.goal_id = id
          /\ f.type = "CancelSend" /\ f.dst = ACTOR_ACTION_SERVER /\ f.body.goal_id = id
      BY DEF SendIn, CancelIn, EffectIn
    <2>. HIDE DEF e, f
    <2>2. DOMAIN <<e, f>> = {1, 2} /\ <<e, f>>[1] = e /\ <<e, f>>[2] = f
      OBVIOUS
    <2>3. id \in GoalsIn(<<e, f>>)
      BY <2>1, <2>2 DEF GoalsIn
    <2>4. SendsTo(<<e, f>>, sent \cup GoalsIn(<<e, f>>))
      BY <2>1, <2>2, <2>3 DEF SendsTo
    <2>. QED  BY <2>3, <2>4 DEF e, f
  <1>. HIDE DEF Fine
  <1>8. m.state.tag = "AwaitGoalResponse" => m.state.goal_id \in sent
    BY DEF KnownGoal
  <1>9. \A how : Fine(Unused(m, in, how))
    BY <1>1
  <1>10. Idle.tag # "AwaitGoalResponse"
    BY DEF Idle
  <1>11. Fine(AfterCommand(v, m, in))
    <2>1. ASSUME NEW st, NEW cb, st.tag = "AwaitGoalResponse" => st.goal_id \in sent
          PROVE  Fine(Used(m, st, m.goals, cb, <<>>, <<>>))
      BY <1>2, <1>3, <2>1
    <2>2. [tag |-> "AwaitClockForSend", callback |-> in.ordinal, goal |-> in.body.goal].tag # "AwaitGoalResponse"
      OBVIOUS
    <2>. QED  BY <1>8, <1>9, <2>1, <2>2 DEF AfterCommand
  <1>12. m.state.tag = "AwaitGoalResponse" => Fine(AfterPoll(v, m, in))
    <2>. SUFFICES ASSUME m.state.tag = "AwaitGoalResponse" PROVE Fine(AfterPoll(v, m, in))
      OBVIOUS
    <2>1. \A goals, cb, es, progress : es = <<>> => Fine(Used(m, m.state, goals, cb, es, progress))
      BY <1>2, <1>3, <1>8
    <2>2. ASSUME NEW st, st.tag = "AwaitCancelResponse", NEW goals, NEW cb, NEW now, NEW progress
          PROVE  Fine(Used(m, st, goals, cb, <<CancelIn(m, m.state.goal_id, now)>>, progress))
      BY <1>2, <1>5, <1>8, <2>2
    <2>3. \A goals, cb, text, progress : Fine(Used(m, Idle, goals, cb, <<StatusIn(m, text)>>, progress))
      BY <1>2, <1>4, <1>10
    <2>. QED  BY <2>1, <2>2, <2>3 DEF AfterPoll
  <1>13. Fine(AfterSend(v, m, in))
    <2>1. ASSUME NEW st, st.tag = "AwaitCancelResponse", NEW goals, NEW cb, NEW id, NEW goal, NEW now, NEW progress
          PROVE  Fine(Used(m, st, goals, cb, <<SendIn(m, id, goal), CancelIn(m, id, now)>>, progress))
      BY <1>2, <1>7, <2>1
    <2>2. ASSUME NEW id, NEW st, st.goal_id = id, NEW goals, NEW cb, NEW goal, NEW progress
          PROVE  Fine(Used(m, st, goals, cb, <<SendIn(m, id, goal)>>, progress))
      BY <1>2, <1>6, <2>2
    <2>. QED  BY <2>1, <2>2 DEF AfterSend
  <1>14. Fine(AfterClock(v, m, in))
    BY <1>9, <1>12, <1>13 DEF AfterClock
  <1>15. ASSUME NEW st, st.tag # "AwaitGoalResponse", NEW goals, NEW cb, NEW text, NEW progress
         PROVE  Fine(Used(m, st, goals, cb, <<StatusIn(m, text)>>, progress))
    BY <1>2, <1>4, <1>15
  <1>16. Fine(Unusable(m, in))
    BY <1>9 DEF Unusable
  <1>17. Fine(AfterGoalResponse(v, m, in))
    BY <1>10, <1>15, <1>16 DEF AfterGoalResponse
  <1>18. Fine(AfterResult(v, m, in))
    BY <1>10, <1>15, <1>16 DEF AfterResult
  <1>19. Fine(AfterCancelResponse(v, m, in))
    BY <1>9, <1>10, <1>15 DEF AfterCancelResponse
  <1>20. Fine(Used(m, m.state, m.goals, in.ordinal, <<>>, <<>>))
    BY <1>2, <1>3, <1>8
  <1>21. Fine(After(v, m, in))
    BY <1>9, <1>11, <1>14, <1>17, <1>18, <1>19, <1>20 DEF After
  <1>. QED  BY <1>21 DEF Fine

LEMMA LatestHeld ==
    ASSUME NEW s, NEW t, NEW last, NEW type, Held(s, last, type), Len(s) \in Nat, Len(t) \in Nat,
           Len(t) >= Len(s), \A i \in 1..Len(s) : t[i] = s[i],
           NEW frames, \A f \in ToSet(frames) : \E k \in 1..Len(t) : t[k] = f,
           \A f \in ToSet(frames) : f.type = type => f.dst = ACTOR_ACTION_SERVER
    PROVE  Held(t, Latest(Seen(frames, type), last), type)
  <1>. SUFFICES ASSUME NEW g \in Latest(Seen(frames, type), last)
                PROVE  g.type = type /\ g.dst = ACTOR_ACTION_SERVER /\ \E k \in 1..Len(t) : t[k] = g
    BY DEF Held
  <1>1. CASE g \in last
    <2>1. PICK k \in 1..Len(s) : s[k] = g
      BY <1>1 DEF Held
    <2>2. k \in 1..Len(t) /\ t[k] = g
      BY <2>1
    <2>. QED  BY <1>1, <2>2 DEF Held
  <1>2. CASE g \in Seen(frames, type)
    <2>1. g \in ToSet(frames) /\ g.type = type
      BY <1>2 DEF Seen, ToSet
    <2>. QED  BY <2>1
  <1>. QED  BY <1>1, <1>2 DEF Latest

LEMMA ServeWrites ==
    ASSUME Written(recording, counters), phase = "recording", Writing,
           NEW src \in Endpoint \ {SESSION_ACTOR_ID, COMPONENT_ACTOR_ID},
           NEW channel \in ChannelId, NEW type \in InputTypes \ {"StartingState"}, NEW body,
           NEW request, Serve(src, channel, type, body, request),
           Scripted(recording, frame(Len(recording), src, COMPONENT_ACTOR_ID, channel,
                                     counters[<<src, channel>>], type, {}, body), request),
           recorded_with' = recorded_with, phase' = "recording"
    PROVE  Writing'
  <1>. DEFINE n == Len(recording)
              f == frame(n, src, COMPONENT_ACTOR_ID, channel, counters[<<src, channel>>], type, {}, body)
              es == outcome'.effects
              pushed == EffectFrames(n, es)
              u == Append(recording, f)
              t == recording'
              in == Input(f, request)
  <1>1. Made(f, n, src, COMPONENT_ACTOR_ID, channel, counters[<<src, channel>>], type, {}, body)
    BY FrameMade
  <1>2. /\ Step(in)
        /\ outcome'.consumed = "Yes" /\ \A i \in DOMAIN pushed : pushed[i].seq = es[i].seq
        /\ t = u \o pushed
        /\ last_goal' = Latest(Seen(pushed, "GoalSend"), last_goal)
        /\ last_cancel' = Latest(Seen(pushed, "CancelSend"), last_cancel)
    <2>1. "recording" # "bailed"
      OBVIOUS
    <2>. QED  BY <2>1 DEF Serve
  <1>3. pushed = [i \in DOMAIN es |-> pushed[i]] /\ DOMAIN pushed = DOMAIN es
    BY DEF EffectFrames
  <1>4. \A i \in DOMAIN es : /\ pushed[i].src = COMPONENT_ACTOR_ID /\ pushed[i].dst = es[i].dst
                             /\ pushed[i].channel = es[i].channel /\ pushed[i].type = es[i].type
                             /\ pushed[i].flags = es[i].flags /\ pushed[i].body = es[i].body
    BY DEF EffectFrames, frame
  <1>. HIDE DEF pushed, f, in
  <1>5. IsSeq(es) /\ \A i \in DOMAIN es : Emission(es[i])
    BY <1>2, StepEmits, EmittedSeq
  <1>6. variant' = variant /\ [to |-> Memory', says |-> outcome'] = After(variant, Memory, in)
    BY <1>2, StepAnswers, StepIs
  <1>. HIDE DEF es
  <1>7. DOMAIN es = 1..Len(es) /\ Len(es) \in Nat
    BY <1>5, SeqShape
  <1>8. IsSeq(pushed) /\ Len(pushed) = Len(es) /\ DOMAIN pushed = 1..Len(pushed)
    BY <1>3, <1>5, MappedShape, SeqShape
  <1>9. \A i \in 1..Len(es) : Shows(pushed[i], es[i])
    BY <1>2, <1>3, <1>4, <1>5, <1>7 DEF Shows, Emission
  <1>10. IsSeq(recording) /\ n \in Nat
    BY SeqShape DEF Written, Begun
  <1>11. Grown(u, recording, f)
    BY <1>10, AppendShape
  <1>. HIDE DEF u
  <1>12. IsSeq(u \o pushed) /\ Joined(u \o pushed, u, pushed)
    BY <1>8, <1>11, JoinShape DEF Grown
  <1>13. IsSeq(t) /\ Joined(t, u, pushed)
    BY <1>2, <1>12
  <1>. HIDE DEF t, n
  <1>14. /\ IsSeq(u) /\ Len(u) = n + 1 /\ u[n + 1] = f /\ \A i \in 1..n : u[i] = recording[i]
    BY <1>11 DEF Grown, n
  <1>15. /\ Len(t) = n + 1 + Len(es) /\ Len(t) \in Nat /\ t[n + 1] = f
         /\ \A i \in 1..n : t[i] = recording[i]
    BY <1>7, <1>8, <1>10, <1>13, <1>14 DEF Joined
  <1>16. ASSUME NEW i \in 1..Len(es) PROVE t[n + 1 + i] = pushed[i]
    <2>1. n + 1 + i \in (Len(u) + 1)..(Len(u) + Len(pushed)) /\ (n + 1 + i) - Len(u) = i
      BY <1>7, <1>8, <1>10, <1>14
    <2>. QED  BY <1>13, <2>1 DEF Joined
  <1>17. f.type = type /\ type \notin EffectTypes
    BY <1>1, EffectsNotInputs DEF Made
  <1>18. Extends(t, recording)
    BY <1>10, <1>15, <1>17 DEF Extends, n
  <1>19. SentBy(recording, n) \subseteq SentBy(t, n) /\ SentBy(recording, n) \subseteq SentBy(t, Len(t))
    <2>1. n <= Len(t) /\ n <= n
      BY <1>7, <1>10, <1>15
    <2>. QED  BY <1>10, <1>15, <2>1, SentMore
  <1>20. Refers(t, n + 1) /\ InputAt(t, n + 1) = in
    <2>1. Scripted(recording, f, request)
      BY DEF f, n
    <2>2. CASE NamesRequest(f)
      <3>1. PICK k \in 1..n : /\ f.body.request = k - 1 /\ request = RequestOf(recording[k])
                              /\ Answers(f, recording[k], SentBy(recording, n))
        BY <2>1, <2>2 DEF Scripted, n
      <3>2. t[k] = recording[k] /\ f.body.request + 1 = k /\ (n + 1) - 1 = n
        BY <1>10, <1>15, <3>1
      <3>3. Answers(f, t[k], SentBy(t, n))
        BY <1>19, <3>1, <3>2 DEF Answers
      <3>4. Refers(t, n + 1)
        BY <1>15, <3>1, <3>2, <3>3 DEF Refers
      <3>5. InputAt(t, n + 1) = in
        BY <1>15, <2>2, <3>1, <3>2 DEF InputAt, RequestIn, in
      <3>. QED  BY <3>4, <3>5
    <2>3. CASE ~NamesRequest(f)
      BY <1>15, <2>1, <2>3 DEF Scripted, Refers, InputAt, RequestIn, in
    <2>. QED  BY <2>2, <2>3
  <1>21. ShownAfter(t, n + 1, es)
    BY <1>7, <1>9, <1>10, <1>15, <1>16 DEF ShownAfter
  <1>22. /\ After(variant, Memory, in).to = Memory' /\ After(variant, Memory, in).says = outcome'
    BY <1>6
  <1>23. Serves(t, variant, Memory, Memory', n + 1)
    BY <1>2, <1>20, <1>21, <1>22 DEF Serves, es
  <1>24. Reaches(t, variant, Memory')
    <2>1. Explains(t, variant, Memory, Memory', n + 1)
      BY <1>15, <1>17, <1>23 DEF Explains
    <2>2. ASSUME NEW i \in (n + 1 + 1)..Len(t) PROVE t[i].type \notin InputTypes
      <3>1. i - (n + 1) \in 1..Len(es) /\ n + 1 + (i - (n + 1)) = i
        BY <1>7, <1>10, <1>15
      <3>2. t[i] = pushed[i - (n + 1)] /\ Shows(pushed[i - (n + 1)], es[i - (n + 1)])
        BY <1>9, <1>16, <3>1
      <3>. QED  BY <3>2, EffectsNotInputs DEF Shows
    <2>3. n + 1 <= Len(t)
      BY <1>7, <1>10, <1>15
    <2>. QED  BY <1>10, <1>13, <1>18, <2>1, <2>2, <2>3, TraceGrown DEF Writing, n
  <1>25. /\ KnownGoal(Memory', SentBy(recording, n) \cup GoalsIn(es))
         /\ SendsTo(es, SentBy(recording, n) \cup GoalsIn(es))
    <2>1. KnownGoal(Memory, SentBy(recording, n))
      BY DEF Writing, n
    <2>. QED  BY <1>22, <2>1, SendsKnown DEF es
  <1>26. SentBy(recording, n) \cup GoalsIn(es) \subseteq SentBy(t, Len(t))
    <2>1. ASSUME NEW id \in GoalsIn(es) PROVE id \in SentBy(t, Len(t))
      <3>1. PICK i \in 1..Len(es) : es[i].type = "GoalSend" /\ id = es[i].body.goal_id
        BY <1>7 DEF GoalsIn
      <3>2. t[n + 1 + i].type = "GoalSend" /\ id = t[n + 1 + i].body.goal_id
        BY <1>9, <1>16, <3>1 DEF Shows
      <3>3. n + 1 + i \in 1..Len(t)
        BY <1>7, <1>10, <1>15
      <3>. QED  BY <3>2, <3>3 DEF SentBy
    <2>. QED  BY <1>19, <2>1
  <1>27. KnownGoal(Memory', SentBy(t, Len(t)))
    BY <1>25, <1>26 DEF KnownGoal
  <1>28. ASSUME NEW g \in ToSet(pushed)
         PROVE  /\ \E k \in 1..Len(t) : t[k] = g
                /\ g.type \in {"GoalSend", "CancelSend"} => g.dst = ACTOR_ACTION_SERVER
                /\ g.type = "CancelSend" => g.body.goal_id \in SentBy(t, Len(t))
    <2>1. PICK i \in 1..Len(es) : g = pushed[i]
      BY <1>8 DEF ToSet
    <2>2. n + 1 + i \in 1..Len(t) /\ t[n + 1 + i] = g /\ Shows(g, es[i])
      BY <1>7, <1>9, <1>10, <1>15, <1>16, <2>1
    <2>. QED  BY <1>7, <1>25, <1>26, <2>2 DEF SendsTo, Shows
  <1>29. /\ Held(t, Latest(Seen(pushed, "GoalSend"), last_goal), "GoalSend")
         /\ Held(t, Latest(Seen(pushed, "CancelSend"), last_cancel), "CancelSend")
    <2>1. Len(t) >= n
      BY <1>7, <1>10, <1>15
    <2>. QED  BY <1>10, <1>15, <1>28, <2>1, LatestHeld DEF Writing, n
  <1>30. ASSUME NEW g \in Latest(Seen(pushed, "CancelSend"), last_cancel)
         PROVE  g.body.goal_id \in SentBy(t, Len(t))
    <2>1. CASE g \in last_cancel
      BY <1>19, <2>1 DEF Writing, n
    <2>2. CASE g \in Seen(pushed, "CancelSend")
      <3>1. g \in ToSet(pushed) /\ g.type = "CancelSend"
        BY <2>2 DEF Seen, ToSet
      <3>. QED  BY <1>28, <3>1
    <2>. QED  BY <2>1, <2>2 DEF Latest
  <1>. QED  BY <1>2, <1>6, <1>24, <1>27, <1>29, <1>30 DEF Writing, t

LEMMA MarkerTraced ==
    ASSUME NEW s, IsSeq(s), NEW v, NEW m, Reaches(s, v, m), NEW f, f.type \in {"Gap", "End"}
    PROVE  Reaches(Append(s, f), v, m) /\ IsSeq(Append(s, f))
  <1>. DEFINE t == Append(s, f)
              n == Len(s) + 1
  <1>1. Grown(t, s, f) /\ Len(s) \in Nat
    BY AppendShape, SeqShape
  <1>. HIDE DEF t
  <1>2. IsSeq(t) /\ Len(t) = n /\ t[n] = f /\ \A i \in 1..Len(s) : t[i] = s[i]
    BY <1>1 DEF Grown
  <1>3. f.type \notin EffectTypes /\ f.type \notin InputTypes
    BY DEF EffectTypes, InputTypes
  <1>4. Extends(t, s) /\ n <= Len(t)
    BY <1>1, <1>2, <1>3 DEF Extends
  <1>5. Explains(t, v, m, m, n)
    BY <1>2, <1>3 DEF Explains
  <1>6. \A i \in (n + 1)..Len(t) : t[i].type \notin InputTypes
    BY <1>1, <1>2
  <1>7. Reaches(t, v, m)
    BY <1>2, <1>4, <1>5, <1>6, TraceGrown
  <1>. QED  BY <1>2, <1>7 DEF t

LEMMA CloseExplains ==
    ASSUME NEW frames, IsSeq(frames), NEW m, Reaches(frames, recorded_with, m), NEW seq,
           Close(frames, seq), recorded_with' = recorded_with
    PROVE  Explained'
  <1>. DEFINE f == EndMarker(Len(frames), seq)
              t == Append(frames, f)
  <1>1. f.type = "End" /\ f.flags = {}
    BY FrameMade DEF EndMarker, session_frame, Made
  <1>. HIDE DEF f
  <1>2. Reaches(t, recorded_with, m) /\ Grown(t, frames, f)
    BY <1>1, MarkerTraced, AppendShape
  <1>3. recording' = t
    BY DEF Close, f
  <1>. HIDE DEF t
  <1>4. Len(t) = Len(frames) + 1 /\ t[Len(t)] = f
    BY <1>2 DEF Grown
  <1>. QED  BY <1>1, <1>2, <1>3, <1>4 DEF Explained, Reaches

LEMMA RecordExplains ==
    ASSUME IInv, phase = "recording" => Writing, Record
    PROVE  /\ phase' = "recording" => Writing'
           /\ phase' \in {"recording", "bailed", "closed"}
           /\ phase' = "closed" => Explained'
  <1>1. RecordNext /\ recorded_with' = recorded_with
    BY DEF Record, case
  <1>2. phase = "recording" /\ Writing
    BY <1>1 DEF RecordNext, ServeCommand, ServeClock, ServeGoalResponse, ServeResult,
                ServeCancelResponse, RecordGap, RecordEnd, Serve
  <1>3. Written(recording, counters)
    BY <1>2 DEF IInv, RecordingInv, Recording
  <1>4. IsSeq(recording) /\ Len(recording) \in Nat /\ \A i \in 1..Len(recording) : FitsAt(recording, i)
    BY <1>3, SeqShape DEF Written, Begun
  <1>5. /\ ACTOR_COMMAND \in Endpoint \ {SESSION_ACTOR_ID, COMPONENT_ACTOR_ID}
        /\ ACTOR_CLOCK \in Endpoint \ {SESSION_ACTOR_ID, COMPONENT_ACTOR_ID}
        /\ ACTOR_ACTION_SERVER \in Endpoint \ {SESSION_ACTOR_ID, COMPONENT_ACTOR_ID}
        /\ CH_GOAL_COMMAND \in ChannelId /\ CH_CLOCK \in ChannelId /\ CH_ACTION_RESPONSE \in ChannelId
        /\ {"Message", "Clock", "GoalResponse", "Result", "CancelResponse"}
              \subseteq InputTypes \ {"StartingState"}
    BY DEF Endpoint, ChannelId, ACTOR_COMMAND, ACTOR_CLOCK, ACTOR_ACTION_SERVER, SESSION_ACTOR_ID,
           COMPONENT_ACTOR_ID, InputTypes
  <1>6. ASSUME NEW src, NEW channel, NEW type, NEW body, NEW request,
               Serve(src, channel, type, body, request)
        PROVE  phase' \in {"recording", "bailed"}
    BY <1>6 DEF Serve
  <1>. DEFINE Input0(src, channel, type, body) ==
                 frame(Len(recording), src, COMPONENT_ACTOR_ID, channel, counters[<<src, channel>>], type, {}, body)
  <1>7. \A src, channel, type, body : Made(Input0(src, channel, type, body), Len(recording), src,
             COMPONENT_ACTOR_ID, channel, counters[<<src, channel>>], type, {}, body)
    BY FrameMade
  <1>. HIDE DEF Input0
  <1>8. ASSUME NEW src, NEW channel, NEW type, NEW body, type \in {"Message", "Clock"}
        PROVE  Scripted(recording, Input0(src, channel, type, body), <<>>)
    BY <1>7, <1>8 DEF Made, Scripted, NamesRequest
  <1>9. ASSUME NEW g \in last_goal, NEW type, NEW body, type \in {"GoalResponse", "Result"},
               body.request = g.ordinal, body.goal_id = g.body.goal_id
        PROVE  Scripted(recording, Input0(ACTOR_ACTION_SERVER, CH_ACTION_RESPONSE, type, body), RequestOf(g))
    <2>. DEFINE f == Input0(ACTOR_ACTION_SERVER, CH_ACTION_RESPONSE, type, body)
    <2>1. f.src = ACTOR_ACTION_SERVER /\ f.dst = COMPONENT_ACTOR_ID /\ f.type = type /\ f.body = body
      BY <1>7 DEF Made
    <2>. HIDE DEF f
    <2>2. PICK k \in 1..Len(recording) : recording[k] = g /\ g.type = "GoalSend" /\ g.dst = ACTOR_ACTION_SERVER
      BY <1>2 DEF Writing, Held
    <2>3. g.ordinal = k - 1
      BY <1>4, <2>2 DEF FitsAt
    <2>4. Answers(f, recording[k], SentBy(recording, Len(recording)))
      BY <1>9, <2>1, <2>2 DEF Answers, EffectTypes
    <2>5. NamesRequest(f) /\ f.body.request = k - 1
      BY <1>9, <2>1, <2>3 DEF NamesRequest
    <2>. QED  BY <2>2, <2>4, <2>5 DEF Scripted, f
  <1>10. ASSUME NEW g \in last_cancel, NEW body, body.request = g.ordinal, body.goals = {g.body.goal_id}
         PROVE  Scripted(recording, Input0(ACTOR_ACTION_SERVER, CH_ACTION_RESPONSE, "CancelResponse", body), RequestOf(g))
    <2>. DEFINE f == Input0(ACTOR_ACTION_SERVER, CH_ACTION_RESPONSE, "CancelResponse", body)
    <2>1. f.src = ACTOR_ACTION_SERVER /\ f.dst = COMPONENT_ACTOR_ID /\ f.type = "CancelResponse" /\ f.body = body
      BY <1>7 DEF Made
    <2>. HIDE DEF f
    <2>2. PICK k \in 1..Len(recording) : recording[k] = g /\ g.type = "CancelSend" /\ g.dst = ACTOR_ACTION_SERVER
      BY <1>2 DEF Writing, Held
    <2>3. g.ordinal = k - 1 /\ g.body.goal_id \in SentBy(recording, Len(recording))
      BY <1>2, <1>4, <2>2 DEF FitsAt, Writing
    <2>4. Answers(f, recording[k], SentBy(recording, Len(recording)))
      BY <1>10, <2>1, <2>2, <2>3 DEF Answers, EffectTypes
    <2>5. NamesRequest(f) /\ f.body.request = k - 1
      BY <1>10, <2>1, <2>3 DEF NamesRequest
    <2>. QED  BY <2>2, <2>4, <2>5 DEF Scripted, f
  <1>11. ASSUME NEW src \in Endpoint \ {SESSION_ACTOR_ID, COMPONENT_ACTOR_ID}, NEW channel \in ChannelId,
                NEW type \in InputTypes \ {"StartingState"}, NEW body, NEW request,
                Serve(src, channel, type, body, request),
                Scripted(recording, Input0(src, channel, type, body), request)
         PROVE  phase' = "recording" => Writing'
    BY <1>1, <1>2, <1>3, <1>11, ServeWrites DEF Input0
  <1>12. ASSUME NEW goal, ServeCommand(goal)
         PROVE  (phase' = "recording" => Writing') /\ phase' \in {"recording", "bailed"}
    BY <1>5, <1>6, <1>8, <1>11, <1>12 DEF ServeCommand
  <1>13. ASSUME NEW value, ServeClock(value)
         PROVE  (phase' = "recording" => Writing') /\ phase' \in {"recording", "bailed"}
    BY <1>5, <1>6, <1>8, <1>11, <1>13 DEF ServeClock
  <1>14. ASSUME NEW accepted, ServeGoalResponse(accepted)
         PROVE  (phase' = "recording" => Writing') /\ phase' \in {"recording", "bailed"}
    <2>1. PICK g \in last_goal :
             Serve(ACTOR_ACTION_SERVER, CH_ACTION_RESPONSE, "GoalResponse",
                   [request |-> g.ordinal, goal_id |-> g.body.goal_id, accepted |-> accepted], RequestOf(g))
      BY <1>14 DEF ServeGoalResponse
    <2>. QED  BY <1>5, <1>6, <1>9, <1>11, <2>1
  <1>15. ASSUME ServeResult
         PROVE  (phase' = "recording" => Writing') /\ phase' \in {"recording", "bailed"}
    <2>1. PICK g \in last_goal :
             Serve(ACTOR_ACTION_SERVER, CH_ACTION_RESPONSE, "Result",
                   [request |-> g.ordinal, goal_id |-> g.body.goal_id], RequestOf(g))
      BY <1>15 DEF ServeResult
    <2>. QED  BY <1>5, <1>6, <1>9, <1>11, <2>1
  <1>16. ASSUME ServeCancelResponse
         PROVE  (phase' = "recording" => Writing') /\ phase' \in {"recording", "bailed"}
    <2>1. PICK g \in last_cancel :
             Serve(ACTOR_ACTION_SERVER, CH_ACTION_RESPONSE, "CancelResponse",
                   [request |-> g.ordinal, goals |-> {g.body.goal_id}], RequestOf(g))
      BY <1>16 DEF ServeCancelResponse
    <2>. QED  BY <1>5, <1>6, <1>10, <1>11, <2>1
  <1>17. Reaches(recording, recorded_with, Memory)
    BY <1>2 DEF Writing
  <1>18. ASSUME RecordGap PROVE Explained' /\ phase' = "closed"
    <2>. DEFINE f == session_frame(Len(recording), SESSION_ACTOR_ID, SessionCount, "Gap", [lost_known |-> TRUE])
                s == Append(recording, f)
    <2>1. f.type = "Gap"
      BY FrameMade DEF session_frame, Made
    <2>2. Close(s, SessionCount + 1)
      BY <1>18 DEF RecordGap
    <2>. HIDE DEF f
    <2>3. Reaches(s, recorded_with, Memory) /\ IsSeq(s)
      BY <1>4, <1>17, <2>1, MarkerTraced
    <2>. HIDE DEF s
    <2>. QED  BY <1>1, <2>2, <2>3, CloseExplains DEF Close
  <1>19. ASSUME RecordEnd PROVE Explained' /\ phase' = "closed"
    BY <1>1, <1>4, <1>17, <1>19, CloseExplains DEF RecordEnd, Close
  <1>. QED  BY <1>1, <1>12, <1>13, <1>14, <1>15, <1>16, <1>18, <1>19 DEF RecordNext

LEMMA SameEnvelope ==
    ASSUME NEW f, NEW g, envelope(f) = envelope(g)
    PROVE  /\ f.ordinal = g.ordinal /\ f.src = g.src /\ f.dst = g.dst /\ f.channel = g.channel
           /\ f.seq = g.seq /\ f.type = g.type /\ f.flags = g.flags /\ f.body = g.body
           /\ IsEmit(f) <=> IsEmit(g)
  BY DEF envelope, IsEmit

\* A frame more that is as recorded.
LEMMA MirrorsMore ==
    ASSUME NEW s, NEW frames, IsSeq(frames), NEW g, Mirrors(s, frames), Len(frames) + 1 <= Len(s),
           envelope(g) = envelope(s[Len(frames) + 1])
    PROVE  Mirrors(s, Append(frames, g)) /\ Len(Append(frames, g)) = Len(frames) + 1
  <1>. DEFINE t == Append(frames, g)
  <1>1. Grown(t, frames, g) /\ Len(frames) \in Nat
    BY AppendShape, SeqShape
  <1>. HIDE DEF t
  <1>2. \A i \in 1..Len(t) : i \in 1..Len(frames) \/ i = Len(frames) + 1
    BY <1>1 DEF Grown
  <1>. QED  BY <1>1, <1>2 DEF Grown, Mirrors, t

LEMMA GoalsGrown ==
    ASSUME NEW s, IsSeq(s), NEW e
    PROVE  /\ IsSeq(Goals(s))
           /\ Goals(Append(s, e)) = IF e.type = "GoalSend" THEN Append(Goals(s), e) ELSE Goals(s)
  <1>. DEFINE t == Append(s, e)
              I == {i \in DOMAIN s : s[i].type = "GoalSend"}
              J == {i \in DOMAIN t : t[i].type = "GoalSend"}
  <1>1. Grown(t, s, e) /\ Len(s) \in Nat /\ DOMAIN s = 1..Len(s)
    BY AppendShape, SeqShape
  <1>. HIDE DEF t
  <1>2. DOMAIN t = 1..(Len(s) + 1)
    BY <1>1, SeqShape DEF Grown
  <1>3. \A k \in 1..Len(s) : k \in I <=> k \in J
    BY <1>1, <1>2 DEF Grown
  <1>4. Len(s) + 1 \in J <=> e.type = "GoalSend"
    BY <1>1, <1>2 DEF Grown
  <1>. HIDE DEF I, J
  <1>5. Keep(Append(s, e), J) = IF Len(s) + 1 \in J THEN Append(Keep(s, I), e) ELSE Keep(s, I)
    BY <1>3, KeepGrown
  <1>6. IsSeq(Keep(s, I))
    BY <1>3, KeepGrown
  <1>7. CASE Len(s) + 1 \in J
    BY <1>4, <1>5, <1>6, <1>7 DEF Goals, I, J, t
  <1>8. CASE Len(s) + 1 \notin J
    BY <1>4, <1>5, <1>6, <1>8 DEF Goals, I, J, t
  <1>. QED  BY <1>7, <1>8

LEMMA GoalsAlike ==
    ASSUME NEW s, IsSeq(s), NEW frames, IsSeq(frames), Mirrors(s, frames),
           NEW k \in 1..Len(frames), s[k].type = "GoalSend"
    PROVE  GoalBefore(Goals(s), Goals(frames), s[k], frames[k])
  <1>. DEFINE L == Len(s)
              n == Len(frames)
              pre(m) == Goals(SubSeq(s, 1, m))
              cut(m) == IF m <= n THEN m ELSE n
              has(m) == Goals(SubSeq(frames, 1, cut(m)))
              R(m) == /\ m <= n => Len(pre(m)) = Len(has(m))
                      /\ k <= m => GoalBefore(pre(m), has(m), s[k], frames[k])
              P == {m \in 0..L : R(m)}
  <1>1. L \in Nat /\ n \in Nat /\ n <= L /\ k \in 1..L
    BY SeqShape DEF Mirrors
  <1>2. \A m \in 0..L : IsSeq(SubSeq(s, 1, m)) /\ IsSeq(pre(m))
    BY PrefixShape, GoalsGrown DEF Prefixed
  <1>3. \A m \in 0..n : IsSeq(SubSeq(frames, 1, m)) /\ IsSeq(Goals(SubSeq(frames, 1, m)))
    BY PrefixShape, GoalsGrown DEF Prefixed
  <1>4. ASSUME NEW m \in 1..L
        PROVE  pre(m) = IF s[m].type = "GoalSend" THEN Append(pre(m - 1), s[m]) ELSE pre(m - 1)
    <2>1. m \in 0..L /\ m - 1 \in 0..L /\ m > 0
      BY <1>1
    <2>2. SubSeq(s, 1, m) = Append(SubSeq(s, 1, m - 1), s[m])
      BY <2>1, PrefixShape
    <2>. QED  BY <1>2, <2>1, <2>2, GoalsGrown
  <1>5. ASSUME NEW m \in 1..n
        PROVE  Goals(SubSeq(frames, 1, m)) =
                  IF frames[m].type = "GoalSend" THEN Append(Goals(SubSeq(frames, 1, m - 1)), frames[m])
                  ELSE Goals(SubSeq(frames, 1, m - 1))
    <2>1. m \in 0..n /\ m - 1 \in 0..n /\ m > 0
      BY <1>1
    <2>2. SubSeq(frames, 1, m) = Append(SubSeq(frames, 1, m - 1), frames[m])
      BY <2>1, PrefixShape
    <2>. QED  BY <1>3, <2>1, <2>2, GoalsGrown
  <1>6. 0 \in P
    <2>1. SubSeq(s, 1, 0) = <<>> /\ SubSeq(frames, 1, 0) = <<>> /\ cut(0) = 0
      <3>1. 0 \in 0..L /\ 0 \in 0..n
        BY <1>1
      <3>. QED  BY <1>1, <3>1, PrefixShape
    <2>2. pre(0) = has(0)
      BY <2>1
    <2>3. ~(k <= 0) /\ 0 \in 0..L
      BY <1>1
    <2>. HIDE DEF pre, has
    <2>. QED  BY <2>2, <2>3
  <1>7. ASSUME NEW m \in 1..L, m - 1 \in P PROVE m \in P
    <2>. DEFINE a == pre(m - 1)
                b == has(m - 1)
    <2>1. R(m - 1) /\ m - 1 \in 0..L /\ m \in 0..L
      BY <1>1, <1>7
    <2>2. IsSeq(a) /\ Len(a) \in Nat
      BY <1>2, <2>1, SeqShape
    <2>3. CASE m <= n
      <3>1. m \in 1..n /\ m - 1 \in 0..n /\ cut(m) = m /\ cut(m - 1) = m - 1
        BY <1>1, <2>3
      <3>2. has(m) = IF frames[m].type = "GoalSend" THEN Append(b, frames[m]) ELSE b
        BY <1>5, <3>1
      <3>3. IsSeq(b) /\ Len(b) \in Nat /\ Len(a) = Len(b)
        BY <1>3, <2>1, <3>1, SeqShape
      <3>4. frames[m].type = s[m].type
        BY <3>1, SameEnvelope DEF Mirrors
      <3>5. CASE s[m].type = "GoalSend"
        <4>. DEFINE c == pre(m)
                    d == has(m)
        <4>1. c = Append(a, s[m]) /\ d = Append(b, frames[m])
          BY <1>4, <3>2, <3>4, <3>5
        <4>2. Grown(c, a, s[m]) /\ Grown(d, b, frames[m])
          <5>1. Grown(Append(a, s[m]), a, s[m])
            BY <2>2, AppendShape
          <5>2. Grown(Append(b, frames[m]), b, frames[m])
            BY <3>3, AppendShape
          <5>. HIDE DEF a, b, c, d
          <5>. QED  BY <4>1, <5>1, <5>2
        <4>3. Len(c) = Len(d)
          BY <3>3, <4>2 DEF Grown
        <4>. HIDE DEF a, b, c, d
        <4>4. ASSUME k <= m PROVE GoalBefore(c, d, s[k], frames[k])
          <5>1. CASE k = m
            <6>1. Len(b) + 1 \in 1..Len(d) /\ Len(b) + 1 \in 1..Len(c)
              BY <3>3, <4>2 DEF Grown
            <6>2. c[Len(b) + 1] = s[m] /\ d[Len(b) + 1] = frames[m]
              BY <3>3, <4>2 DEF Grown
            <6>. QED  BY <5>1, <6>1, <6>2 DEF GoalBefore
          <5>2. CASE k # m
            <6>1. PICK j \in 1..Len(b) : j \in 1..Len(a) /\ a[j] = s[k] /\ b[j] = frames[k]
              <7>1. k <= m - 1
                BY <1>1, <4>4, <5>2
              <7>2. GoalBefore(a, b, s[k], frames[k])
                BY <2>1, <7>1 DEF a, b
              <7>. QED  BY <7>2 DEF GoalBefore
            <6>2. j \in 1..Len(c) /\ j \in 1..Len(d) /\ c[j] = s[k] /\ d[j] = frames[k]
              BY <3>3, <4>2, <6>1 DEF Grown
            <6>. QED  BY <6>2 DEF GoalBefore
          <5>. QED  BY <5>1, <5>2
        <4>5. R(m)
          BY <4>3, <4>4 DEF c, d
        <4>. HIDE DEF R
        <4>. QED  BY <2>1, <4>5
      <3>6. CASE s[m].type # "GoalSend"
        <4>1. pre(m) = a /\ has(m) = b
          BY <1>4, <3>2, <3>4, <3>6
        <4>2. k <= m => k <= m - 1
          BY <1>1, <3>6
        <4>3. GoalBefore(a, b, s[k], frames[k]) \/ ~(k <= m)
          BY <2>1, <4>2
        <4>4. R(m)
          <5>. HIDE DEF a, b, pre, has
          <5>. QED  BY <3>3, <4>1, <4>3
        <4>. HIDE DEF R
        <4>. QED  BY <2>1, <4>4
      <3>. QED  BY <3>5, <3>6
    <2>4. CASE ~(m <= n)
      <3>1. cut(m) = n /\ cut(m - 1) = n /\ k <= m - 1
        BY <1>1, <2>4
      <3>2. has(m) = b
        BY <3>1
      <3>3. PICK j \in 1..Len(b) : j \in 1..Len(a) /\ a[j] = s[k] /\ b[j] = frames[k]
        <4>1. GoalBefore(a, b, s[k], frames[k])
          BY <2>1, <3>1
        <4>. QED  BY <4>1 DEF GoalBefore
      <3>. DEFINE c == pre(m)
      <3>4. c = Append(a, s[m]) \/ c = a
        BY <1>4
      <3>5. Grown(Append(a, s[m]), a, s[m])
        BY <2>2, AppendShape
      <3>. HIDE DEF a, b, c
      <3>6. j \in 1..Len(c) /\ c[j] = s[k]
        BY <2>2, <3>3, <3>4, <3>5 DEF Grown
      <3>7. GoalBefore(c, b, s[k], frames[k])
        BY <3>3, <3>6 DEF GoalBefore
      <3>8. R(m)
        BY <2>4, <3>2, <3>7 DEF c
      <3>. HIDE DEF R
      <3>. QED  BY <2>1, <3>8
    <2>. QED  BY <2>3, <2>4
  <1>. HIDE DEF P
  <1>8. \A m \in 0..L : m \in P
    BY <1>1, <1>6, <1>7, UpToInduction
  <1>9. L \in 0..L /\ cut(L) = n /\ k <= L
    BY <1>1
  <1>10. R(L)
    BY <1>8, <1>9 DEF P
  <1>11. SubSeq(s, 1, L) = s /\ SubSeq(frames, 1, n) = frames
    BY <1>1, PrefixShape
  <1>12. pre(L) = Goals(s) /\ has(L) = Goals(frames)
    BY <1>9, <1>11
  <1>. QED  BY <1>9, <1>10, <1>12

-----------------------------------------------------------------------------
(***************************************************************************)
(* SelfInv is kept.                                                        *)
(***************************************************************************)
\* A recording tells of every input.
LEMMA RecordingTells ==
    ASSUME IInv, Explained, Started \/ phase = "starting"
    PROVE  /\ Trace[0] = Blank
           /\ \A j \in 1..Len(recording) : Explains(recording, recorded_with, Trace[j - 1], Trace[j], j)
           /\ IsSeq(recording) /\ Len(recording) \in Nat /\ Len(recording) >= 2
           /\ cursor \in 1..Len(recording)
           /\ \A j \in 1..Len(recording) : FitsAt(recording, j) /\ (recording[j].type = "End" <=> j = Len(recording))
  <1>1. Traced(recording, recorded_with, Trace)
    BY DEF Explained, Trace
  <1>. QED  BY <1>1, Reading DEF Traced, Closed, Begun

\* The replay goes on.
LEMMA Resumes ==
    ASSUME SelfInv, Started \/ phase = "starting", Started',
           UNCHANGED <<recording, recorded_with, variant>>, adapter' = adapter,
           adapter # "dead", variant = recorded_with, Repeating => Repeating'
    PROVE  SelfInv'
  <1>1. phase \notin {"recording", "bailed"} /\ phase' \notin {"recording", "bailed", "done"} /\ ~Over'
    BY DEF Started, Over
  <1>2. Explained' = Explained
    BY DEF Explained
  <1>. QED  BY <1>1, <1>2 DEF SelfInv, SelfReplay

LEMMA GoesWrong ==
    ASSUME SelfInv, Started \/ phase = "starting", Started' \/ phase' \in {"error", "lost"},
           UNCHANGED <<recording, recorded_with, variant>>,
           phase' \in {"error", "lost"} \/ adapter' = "dead" \/ variant # recorded_with
    PROVE  SelfInv'
  <1>1. phase \notin {"recording", "bailed"} /\ phase' \notin {"recording", "bailed", "done", "starting"}
    BY DEF Started
  <1>2. Explained' = Explained /\ (Started' \/ Over')
    BY DEF Explained, Over
  <1>3. ~(Started' /\ adapter' # "dead" /\ variant' = recorded_with')
    BY DEF Started
  <1>. QED  BY <1>1, <1>2, <1>3 DEF SelfInv, SelfReplay

LEMMA AbortReplays ==
    ASSUME SelfInv, Started \/ phase = "starting", NEW p \in {"error", "lost"}, Abort(p)
    PROVE  SelfInv'
  BY GoesWrong DEF Abort, Goto, component, case

\* An action of the runner that goes on.
LEMMA Continues ==
    ASSUME SelfInv, Started \/ phase = "starting", Started',
           UNCHANGED <<recording, recorded_with, variant>>, adapter' = adapter,
           adapter # "dead" /\ variant = recorded_with /\ Repeating => Repeating'
    PROVE  SelfInv'
  <1>1. CASE adapter # "dead" /\ variant = recorded_with
    BY <1>1, Resumes
  <1>2. CASE adapter = "dead" \/ variant # recorded_with
    BY <1>2, GoesWrong
  <1>. QED  BY <1>1, <1>2

\* A line that is no effect is taken or added.
LEMMA LineTakenOwing ==
    ASSUME NEW s, IsSeq(s), NEW lines, NEW n \in Nat, Owing(s, lines, n), Len(lines) # 0
    PROVE  /\ IF lines[1].line = "effect"
              THEN Shows(s[n + 1], lines[1].effect) /\ n + 1 <= Len(s) /\ Owing(s, Tail(lines), n + 1)
              ELSE Owing(s, Tail(lines), n)
           /\ lines[1].line # "effect" => n + 1 <= Len(s) /\ s[n + 1].type \notin EffectTypes
  <1>1. PICK e \in Nat : /\ EffectsOf(lines) = 1..e /\ \A i \in 1..e : Shows(s[n + i], lines[i].effect)
                         /\ n + e + 1 <= Len(s) /\ s[n + e + 1].type \notin EffectTypes
    BY DEF Owing
  <1>. DEFINE t == Tail(lines)
  <1>2. /\ IsSeq(t) /\ Len(t) = Len(lines) - 1 /\ Len(lines) \in Nat
        /\ \A i \in 1..(Len(lines) - 1) : t[i] = lines[i + 1]
    BY TailShape DEF Owing
  <1>. HIDE DEF t
  <1>3. \A i \in 1..Len(lines) : lines[i].line = "effect" <=> i \in 1..e
    BY <1>1 DEF EffectsOf
  <1>4. \A i \in 1..e : i <= Len(lines)
    BY <1>1, <1>2 DEF EffectsOf
  <1>5. 1 \in 1..Len(lines) /\ Len(s) \in Nat
    BY <1>2, SeqShape
  <1>6. CASE lines[1].line = "effect"
    <2>1. 1 \in 1..e
      BY <1>3, <1>5, <1>6
    <2>2. e - 1 \in Nat /\ (n + 1) + (e - 1) + 1 = n + e + 1
      BY <2>1
    <2>3. EffectsOf(t) = 1..(e - 1)
      <3>1. ASSUME NEW i \in 1..Len(t) PROVE t[i].line = "effect" <=> i \in 1..(e - 1)
        <4>1. i + 1 \in 1..Len(lines) /\ t[i] = lines[i + 1]
          BY <1>2
        <4>2. i + 1 \in 1..e <=> i \in 1..(e - 1)
          OBVIOUS
        <4>. QED  BY <1>3, <4>1, <4>2
      <3>2. \A i \in 1..(e - 1) : i \in 1..Len(t)
        <4>1. e <= Len(lines)
          BY <1>4, <2>1
        <4>. QED  BY <1>2, <4>1
      <3>. QED  BY <3>1, <3>2 DEF EffectsOf
    <2>4. ASSUME NEW i \in 1..(e - 1) PROVE Shows(s[(n + 1) + i], t[i].effect)
      <3>1. i + 1 \in 1..e /\ i \in 1..(Len(lines) - 1) /\ n + (i + 1) = (n + 1) + i
        BY <1>2, <1>4
      <3>. QED  BY <1>1, <1>2, <3>1
    <2>5. Shows(s[n + 1], lines[1].effect) /\ n + 1 <= Len(s)
      BY <1>1, <1>5, <2>1
    <2>6. Owing(s, t, n + 1)
      BY <1>1, <1>2, <2>2, <2>3, <2>4 DEF Owing
    <2>. QED  BY <1>6, <2>5, <2>6 DEF t
  <1>7. CASE lines[1].line # "effect"
    <2>1. e = 0
      BY <1>3, <1>5, <1>7
    <2>2. EffectsOf(t) = 1..e
      <3>1. ASSUME NEW i \in 1..Len(t) PROVE t[i].line # "effect"
        <4>1. i + 1 \in 1..Len(lines) /\ t[i] = lines[i + 1]
          BY <1>2
        <4>. QED  BY <1>3, <2>1, <4>1
      <3>. QED  BY <2>1, <3>1 DEF EffectsOf
    <2>3. Owing(s, t, n)
      <3>1. \A i \in 1..e : Shows(s[n + i], t[i].effect)
        BY <2>1
      <3>. QED  BY <1>1, <1>2, <2>2, <3>1 DEF Owing
    <2>. QED  BY <1>1, <1>7, <2>1, <2>3 DEF t
  <1>. QED  BY <1>6, <1>7

LEMMA LineAddedOwing ==
    ASSUME NEW s, NEW lines, NEW n, Owing(s, lines, n), NEW z, z.line # "effect"
    PROVE  Owing(s, lines \o <<z>>, n)
  <1>. DEFINE t == <<z>>
              u == lines \o t
  <1>1. IsSeq(t) /\ Len(t) = 1 /\ t[1] = z
    <2>1. <<z>> \in Seq({z}) /\ Len(<<z>>) = 1 /\ <<z>>[1] = z
      OBVIOUS
    <2>. QED  BY <2>1 DEF IsSeq
  <1>2. IsSeq(lines) /\ Len(lines) \in Nat
    BY SeqShape DEF Owing
  <1>. HIDE DEF t
  <1>3. IsSeq(u) /\ Joined(u, lines, t)
    BY <1>1, <1>2, JoinShape
  <1>. HIDE DEF u
  <1>4. EffectsOf(u) = EffectsOf(lines)
    <2>1. Len(u) = Len(lines) + 1
      BY <1>1, <1>2, <1>3 DEF Joined
    <2>2. \A i \in 1..Len(lines) : u[i] = lines[i]
      BY <1>2, <1>3 DEF Joined
    <2>3. u[Len(lines) + 1] = z
      <3>1. Len(lines) + 1 \in (Len(lines) + 1)..(Len(lines) + Len(t)) /\ (Len(lines) + 1) - Len(lines) = 1
        BY <1>1, <1>2
      <3>. QED  BY <1>1, <1>3, <3>1 DEF Joined
    <2>4. \A i \in 1..Len(u) : i \in 1..Len(lines) \/ i = Len(lines) + 1
      BY <1>2, <2>1
    <2>5. \A i \in 1..Len(lines) : i \in 1..Len(u)
      BY <1>2, <2>1
    <2>. QED  BY <2>2, <2>3, <2>4, <2>5 DEF EffectsOf
  <1>5. \A i \in EffectsOf(lines) : u[i] = lines[i]
    BY <1>2, <1>3 DEF EffectsOf, Joined
  <1>6. PICK e \in Nat : /\ EffectsOf(lines) = 1..e /\ \A i \in 1..e : Shows(s[n + i], lines[i].effect)
                         /\ n + e + 1 <= Len(s) /\ s[n + e + 1].type \notin EffectTypes
    BY DEF Owing
  <1>7. Owing(s, u, n)
    BY <1>3, <1>4, <1>5, <1>6 DEF Owing
  <1>. QED  BY <1>7 DEF u, t

LEMMA RecordedPushed ==
    ASSUME NEW s, NEW frames, IsSeq(frames), Mirrors(s, frames), NEW f, Due(s, frames, f),
           Sound(f), f.ordinal = Len(frames)
    PROVE  Mirrors(s, push(frames, f)) /\ Len(push(frames, f)) = Len(frames) + 1
  <1>. DEFINE g == [f EXCEPT !.ordinal = Len(frames), !.observed_ns = 0]
  <1>1. envelope(g) = envelope(f)
    BY DEF Sound, IsFrame, FrameFields, envelope
  <1>. HIDE DEF g
  <1>2. Mirrors(s, Append(frames, g)) /\ Len(Append(frames, g)) = Len(frames) + 1
    BY <1>1, MirrorsMore DEF Due
  <1>. QED  BY <1>2 DEF push, g

LEMMA EffectAlike ==
    ASSUME NEW s, NEW frames, IsSeq(frames), Mirrors(s, frames), NEW f, Due(s, frames, f),
           NEW e, Shows(f, e), f.ordinal = Len(frames)
    PROVE  Mirrors(s, push(frames, EffectFrame(e))) /\ Len(push(frames, EffectFrame(e))) = Len(frames) + 1
  <1>. DEFINE g == [EffectFrame(e) EXCEPT !.ordinal = Len(frames), !.observed_ns = 0]
  <1>1. envelope(g) = envelope(f)
    BY DEF EffectFrame, frame, Shows, envelope
  <1>. HIDE DEF g
  <1>2. Mirrors(s, Append(frames, g)) /\ Len(Append(frames, g)) = Len(frames) + 1
    BY <1>1, MirrorsMore DEF Due
  <1>. QED  BY <1>2 DEF push, g

\* The goal of a recorded send, if the replay has sent it too.
LEMMA GoalPaired ==
    ASSUME IInv, Started, Mirrors(recording, run.frames), IsSeq(recording),
           NEW k \in 1..Len(run.frames), recording[k].type = "GoalSend"
    PROVE  <<recording[k].ordinal, recording[k].body.goal_id>> \in PairedIds
  <1>. DEFINE there == Goals(recording)
              here == Goals(run.frames)
  <1>1. IsSeq(run.frames)
    BY Framed
  <1>2. GoalBefore(there, here, recording[k], run.frames[k])
    BY <1>1, GoalsAlike
  <1>3. DOMAIN there = 1..Len(there) /\ DOMAIN here = 1..Len(here)
    BY <1>1, GoalsGrown, SeqShape
  <1>4. run.frames[k].body = recording[k].body
    BY SameEnvelope DEF Mirrors
  <1>. HIDE DEF there, here
  <1>5. PICK j \in 1..Len(here) : j \in 1..Len(there) /\ there[j] = recording[k] /\ here[j] = run.frames[k]
    BY <1>2 DEF GoalBefore
  <1>6. j + 0 = j
    OBVIOUS
  <1>7. j \in {i \in DOMAIN here : /\ i + 0 \in DOMAIN there
                                   /\ there[i + 0].body.goal_id = here[i].body.goal_id}
    BY <1>3, <1>4, <1>5, <1>6
  <1>8. <<there[j + 0].ordinal, there[j + 0].body.goal_id>> \in PairedIds
    BY <1>7 DEF PairedIds, PairedBy, there, here
  <1>. QED  BY <1>5, <1>6, <1>8

\* A recorded response finds the request it names, and the replay has made it.
LEMMA OwnRequest ==
    ASSUME IInv, Started, NEW j \in 1..Len(recording), recording[j].type \in InputTypes,
           NamesRequest(recording[j]), Refers(recording, j),
           Mirrors(recording, run.frames), j - 1 = Len(run.frames)
    PROVE  \E k \in 1..(j - 1) :
              /\ recording[j].body.request = k - 1 /\ request_ref(recording[j]) = {recording[k]}
              /\ Equivalent(recording[k]) /\ Correlated(recording[j], recording[k])
  <1>. DEFINE f == recording[j]
  <1>1. /\ IsSeq(recording) /\ Len(recording) \in Nat /\ \A i \in 1..Len(recording) : FitsAt(recording, i)
    BY Reading
  <1>2. IsSeq(run.frames) /\ Len(run.frames) \in Nat
    BY Framed
  <1>3. PICK k \in 1..(j - 1) : f.body.request = k - 1 /\ Answers(f, recording[k], SentBy(recording, j - 1))
    BY DEF Refers
  <1>. DEFINE r == recording[k]
  <1>4. /\ k \in 1..Len(recording) /\ k \in 1..Len(run.frames) /\ r.ordinal = k - 1 /\ f.ordinal = j - 1
        /\ k - 1 < j - 1
    BY <1>1, <1>3 DEF FitsAt
  <1>5. f.dst = COMPONENT_ACTOR_ID /\ r.type \in EffectTypes /\ f.src = r.dst
    BY <1>3 DEF Answers
  <1>6. r.src = COMPONENT_ACTOR_ID /\ IsEmit(r)
    BY <1>1, <1>4, <1>5, KindsUsed DEF FitsAt, Sound
  <1>7. ToSet(recording) = {recording[i] : i \in 1..Len(recording)}
    BY <1>1, SeqShape DEF ToSet
  <1>8. request_ref(f) = {r}
    <2>1. r \in request_ref(f)
      BY <1>3, <1>4, <1>5, <1>6, <1>7 DEF request_ref
    <2>2. ASSUME NEW x \in request_ref(f) PROVE x = r
      <3>1. PICK i \in 1..Len(recording) : x = recording[i]
        BY <1>7 DEF request_ref
      <3>2. x.ordinal = f.body.request /\ x.ordinal = i - 1
        BY <1>1, <3>1 DEF request_ref, FitsAt
      <3>3. i = k
        BY <1>3, <3>2
      <3>. QED  BY <3>1, <3>3
    <2>. QED  BY <2>1, <2>2
  <1>9. Equivalent(r)
    <2>. DEFINE g == run.frames[k]
    <2>1. /\ g.src = r.src /\ g.dst = r.dst /\ g.channel = r.channel /\ g.seq = r.seq /\ g.type = r.type
          /\ g.flags = r.flags /\ g.body = r.body /\ (IsEmit(g) <=> IsEmit(r))
      BY <1>4, SameEnvelope DEF Mirrors
    <2>2. g \in ToSet(run.frames)
      BY <1>2, <1>4, SeqShape DEF ToSet
    <2>. HIDE DEF g, r
    <2>3. g \in Issued(r)
      BY <1>6, <2>1, <2>2 DEF Issued
    <2>. QED  BY <2>1, <2>3 DEF Equivalent
  <1>10. Correlated(f, r)
    <2>1. CASE f.type = "CancelResponse"
      <3>1. r.type = "CancelSend" /\ f.body.goals \subseteq SentBy(recording, j - 1)
        BY <1>3, <2>1 DEF Answers
      <3>2. ASSUME NEW id \in SentBy(recording, j - 1) PROVE \E p \in PairedIds : p[2] = id
        <4>1. PICK i \in 1..(j - 1) : recording[i].type = "GoalSend" /\ id = recording[i].body.goal_id
          BY DEF SentBy
        <4>2. <<recording[i].ordinal, recording[i].body.goal_id>> \in PairedIds
          BY <1>1, <4>1, GoalPaired
        <4>. QED  BY <4>1, <4>2
      <3>. QED  BY <2>1, <3>1, <3>2 DEF Correlated
    <2>2. CASE f.type # "CancelResponse"
      <3>1. r.type = "GoalSend" /\ r.body.goal_id = f.body.goal_id
        BY <1>3, <2>2 DEF Answers
      <3>2. <<r.ordinal, r.body.goal_id>> \in PairedIds
        BY <1>1, <1>4, <3>1, GoalPaired
      <3>. QED  BY <2>2, <3>1, <3>2 DEF Correlated
    <2>. QED  BY <2>1, <2>2
  <1>. QED  BY <1>3, <1>8, <1>9, <1>10

\* The facts of a replay of the recorded build.
LEMMA Recreating ==
    ASSUME IInv, AnswerInv, SelfInv, Started, adapter # "dead", variant = recorded_with, Repeating
    PROVE  /\ Healthy /\ Explained /\ Mirrors(recording, run.frames)
           /\ IsSeq(run.frames) /\ Len(run.frames) \in Nat /\ IsRun(run)
  <1>1. phase \notin {"recording", "bailed"}
    BY DEF Started
  <1>. QED  BY <1>1, Framed DEF AnswerInv, SelfInv, Repeating

LEMMA RecordReplays == ASSUME IInv, SelfInv, Record PROVE SelfInv'
  <1>1. /\ phase' = "recording" => Writing'
        /\ phase' \in {"recording", "bailed", "closed"} /\ (phase' = "closed" => Explained')
    BY RecordExplains DEF SelfInv
  <1>2. phase = "recording" /\ run' = run
    BY DEF Record, runner, RecordNext, ServeCommand, ServeClock, ServeGoalResponse, ServeResult,
           ServeCancelResponse, RecordGap, RecordEnd, Serve
  <1>3. ~Started /\ ~Over /\ ~Started' /\ phase' # "done" /\ phase' # "starting"
    BY <1>1, <1>2 DEF Started, Over
  <1>. QED  BY <1>1, <1>2, <1>3 DEF SelfInv, SelfReplay

LEMMA LaunchReplays == ASSUME SelfInv, Launch PROVE SelfInv'
  <1>1. /\ phase = "closed" /\ phase' = "starting" /\ run' = run /\ requests' = <<[op |-> "start"]>>
        /\ UNCHANGED <<recording, recorded_with>>
    BY DEF Launch, Goto, runner
  <1>2. Explained' /\ run.stop = "Exhausted"
    BY <1>1 DEF SelfInv, Explained, Started, Over
  <1>3. Repeating'
    <2>1. ~Started' /\ requests' # <<>>
      BY <1>1 DEF Started
    <2>. QED  BY <1>1, <2>1 DEF Repeating
  <1>. QED  BY <1>1, <1>2, <1>3 DEF SelfInv, SelfReplay

LEMMA ReceiveStartedReplays == ASSUME IInv, AnswerInv, SelfInv, ReceiveStarted PROVE SelfInv'
  <1>1. phase = "starting" /\ responses # <<>>
    BY DEF ReceiveStarted, Received
  <1>2. CASE Fail
    BY <1>1, <1>2, AbortReplays DEF Fail
  <1>3. CASE ~Fail
    <2>1. /\ phase' = "delivering" /\ UNCHANGED <<component, case, runner, recording, adapter, requests>>
      BY <1>3 DEF ReceiveStarted, Goto, Consumes
    <2>2. /\ Started' /\ ~Started /\ ~Over /\ UNCHANGED <<recorded_with, variant, run, cursor>>
          /\ Memory' = Memory
      BY <1>1, <2>1 DEF Started, Over, case, component, runner, Memory
    <2>3. ASSUME adapter # "dead", variant = recorded_with, Repeating PROVE Repeating'
      <3>1. cursor = 1 /\ run.frames = <<>> /\ run.stop = "Exhausted"
        BY <2>2 DEF IInv, CursorInv, Fresh, SelfInv
      <3>2. requests = <<>>
        BY <1>1, <2>3 DEF AnswerInv, Healthy, Asked
      <3>3. Memory = Blank
        BY <1>1, <2>3, <3>2 DEF Repeating
      <3>4. Explained
        BY <1>1 DEF SelfInv
      <3>5. Trace' = Trace
        BY <2>1, <2>2 DEF Trace
      <3>6. /\ Trace[0] = Blank /\ Len(recording) \in Nat /\ Len(recording) >= 2 /\ FitsAt(recording, 1)
        BY <1>1, <3>4, RecordingTells
      <3>7. recording[1].type \notin EffectTypes
        BY <3>6 DEF FitsAt, EffectTypes
      <3>8. Len(run.frames) = 0
        BY <3>1, EmptyShape
      <3>9. AtRest(recording, Trace, 1, 0, Blank)
        BY <3>6, <3>7 DEF AtRest
      <3>10. Mirrors(recording, run.frames)
        BY <3>6, <3>8 DEF Mirrors
      <3>. QED  BY <2>1, <2>2, <3>1, <3>3, <3>5, <3>8, <3>9, <3>10 DEF Repeating
    <2>. QED  BY <1>1, <2>1, <2>2, <2>3, Continues
  <1>. QED  BY <1>2, <1>3

\* Between two steps a frame that is no effect is the next one to repeat.
LEMMA AtPlace ==
    ASSUME IInv, Explained, phase = "delivering", NEW n \in Nat, NEW m, NEW c,
           AtRest(recording, c, cursor, n, m), Recorded.type \notin EffectTypes
    PROVE  cursor = n + 1
  <1>1. cursor - 1 <= n /\ cursor \in Nat /\ \A i \in cursor..n : recording[i].type \in EffectTypes
    BY RecordingTells DEF AtRest, Started
  <1>2. ~(cursor <= n)
    BY <1>1 DEF Recorded
  <1>. QED  BY <1>1, <1>2

LEMMA SkipFrameReplays == ASSUME IInv, AnswerInv, SelfInv, SkipFrame PROVE SelfInv'
  <1>1. /\ phase = "delivering" /\ phase' = "delivering" /\ cursor' = cursor + 1
        /\ UNCHANGED <<component, case, recording, adapter, requests, responses, verdict>>
        /\ Recorded.type = "Session" \/ IsEmit(Recorded)
    BY DEF SkipFrame, recorder, pipes
  <1>2. Started /\ Started' /\ UNCHANGED <<recorded_with, variant>> /\ Memory' = Memory
    BY <1>1 DEF Started, case, component, Memory
  <1>3. ASSUME adapter # "dead", variant = recorded_with, Repeating PROVE Repeating'
    <2>. DEFINE n == Len(run.frames)
                s == recording
    <2>1. Explained /\ Mirrors(s, run.frames) /\ IsSeq(run.frames) /\ n \in Nat /\ IsRun(run)
      BY <1>2, <1>3, Recreating
    <2>2. /\ IsSeq(s) /\ Len(s) \in Nat /\ Len(s) >= 2 /\ cursor \in 1..Len(s)
          /\ \A j \in 1..Len(s) : FitsAt(s, j) /\ Explains(s, recorded_with, Trace[j - 1], Trace[j], j)
      BY <1>2, <2>1, RecordingTells
    <2>3. AtRest(s, Trace, cursor, n, Memory) /\ run.stop = "Exhausted"
      BY <1>1, <1>3 DEF Repeating
    <2>4. Trace' = Trace
      BY <1>1, <1>2 DEF Trace
    <2>5. Sound(Recorded)
      BY <2>2 DEF FitsAt, Recorded
    <2>6. Recorded.type \notin InputTypes /\ (IsEmit(Recorded) <=> Recorded.type \in EffectTypes)
      BY <1>1, <2>5, KindsUsed, EffectsNotInputs DEF Sound, InputTypes
    <2>7. Trace[cursor] = Trace[cursor - 1]
      BY <2>2, <2>6 DEF Explains, Recorded
    <2>. HIDE DEF n
    <2>8. CASE Recorded.type # "Session"
      <3>1. run' = run /\ Recorded.type \in EffectTypes
        BY <1>1, <2>6, <2>8 DEF SkipFrame
      <3>2. cursor # n + 1
        BY <2>3, <3>1 DEF AtRest, Recorded
      <3>3. AtRest(s, Trace, cursor + 1, n, Memory)
        <4>1. (cursor + 1) - 1 = cursor /\ cursor <= n
          BY <2>1, <2>2, <2>3, <3>2 DEF AtRest
        <4>2. \A i \in (cursor + 1)..n : i \in cursor..n
          BY <2>1, <2>2
        <4>. QED  BY <2>3, <2>7, <4>1, <4>2 DEF AtRest
      <3>. QED  BY <1>1, <1>2, <2>1, <2>3, <2>4, <3>1, <3>3 DEF Repeating, n
    <2>9. CASE Recorded.type = "Session"
      <3>1. run' = [run EXCEPT !.frames = push(@, Recorded)]
        BY <2>9 DEF SkipFrame
      <3>2. run'.frames = push(run.frames, Recorded) /\ run'.stop = run.stop
        BY <2>1, <3>1 DEF IsRun, RunFields
      <3>3. cursor = n + 1 /\ Recorded.ordinal = n
        <4>1. cursor = n + 1
          BY <1>1, <2>1, <2>3, <2>9, AtPlace DEF EffectTypes
        <4>. QED  BY <2>1, <2>2, <4>1 DEF FitsAt, Recorded
      <3>4. cursor = 1
        BY <2>2, <2>9 DEF FitsAt, Recorded
      <3>5. Mirrors(s, run'.frames) /\ Len(run'.frames) = 1
        <4>1. n = Len(run.frames) /\ n = 0 /\ n + 1 <= Len(s) /\ n + 1 = 1
          BY <2>1, <2>2, <3>3, <3>4 DEF n
        <4>2. Due(s, run.frames, Recorded)
          BY <3>3, <4>1 DEF Due, Recorded
        <4>3. Mirrors(s, push(run.frames, Recorded)) /\ Len(push(run.frames, Recorded)) = n + 1
          BY <2>1, <2>5, <3>3, <4>1, <4>2, RecordedPushed
        <4>. QED  BY <3>2, <4>1, <4>3
      <3>6. s[2].type \notin EffectTypes
        BY <1>2, Reading DEF Begun, EffectTypes
      <3>7. AtRest(s, Trace, 2, 1, Memory)
        BY <2>2, <2>3, <2>7, <3>4, <3>6 DEF AtRest
      <3>. QED  BY <1>1, <1>2, <2>3, <2>4, <3>2, <3>4, <3>5, <3>7 DEF Repeating
    <2>. QED  BY <2>8, <2>9
  <1>. QED  BY <1>1, <1>2, <1>3, Continues

LEMMA StopAtMarkerReplays == ASSUME IInv, AnswerInv, SelfInv, StopAtMarker PROVE SelfInv'
  <1>1. /\ phase = "delivering" /\ phase' = "stopping" /\ Recorded.type \in {"End", "Gap"}
        /\ UNCHANGED <<component, case, cursor, verdict, recording, adapter, requests, responses>>
        /\ run' = [run EXCEPT !.stop = IF Recorded.type = "Gap" THEN "Gap" ELSE @]
    BY DEF StopAtMarker, Goto, pipes, Markers
  <1>2. Started /\ Started' /\ UNCHANGED <<recorded_with, variant>>
    BY <1>1 DEF Started, case, component
  <1>3. ASSUME adapter # "dead", variant = recorded_with, Repeating PROVE Repeating'
    <2>. DEFINE n == Len(run.frames)
                s == recording
    <2>1. /\ Explained /\ Mirrors(s, run.frames) /\ n \in Nat /\ IsRun(run) /\ Healthy
      BY <1>2, <1>3, Recreating
    <2>2. AtRest(s, Trace, cursor, n, Memory) /\ run.stop = "Exhausted"
      BY <1>1, <1>3 DEF Repeating
    <2>3. cursor = n + 1
      BY <1>1, <2>1, <2>2, AtPlace DEF EffectTypes
    <2>4. run'.frames = run.frames /\ run'.stop = IF Recorded.type = "Gap" THEN "Gap" ELSE "Exhausted"
      BY <1>1, <2>1, <2>2 DEF IsRun, RunFields
    <2>5. verdict = {} /\ requests = <<>> /\ responses = <<>>
      BY <1>1, <1>2, <2>1, Delivering DEF Healthy, Following, Quiet
    <2>6. Owing(s, <<>>, n)
      <3>1. IsSeq(<<>>) /\ EffectsOf(<<>>) = 1..0
        BY EmptyShape DEF EffectsOf
      <3>2. 0 \in Nat /\ n + 0 + 1 <= Len(s) /\ s[n + 0 + 1].type \notin EffectTypes
        <4>1. Len(s) \in Nat
          BY <1>2, Reading
        <4>. QED  BY <2>1, <2>2, <4>1 DEF AtRest
      <3>3. \A i \in 1..0 : Shows(s[n + i], <<>>[i].effect)
        OBVIOUS
      <3>. HIDE DEF n
      <3>. QED  BY <3>1, <3>2, <3>3 DEF Owing
    <2>7. Stopped(s, cursor, n, run'.stop, {})
      BY <1>1, <2>3, <2>4 DEF Stopped, Recorded
    <2>. QED  BY <1>1, <1>2, <2>1, <2>4, <2>5, <2>6, <2>7 DEF Repeating
  <1>. QED  BY <1>1, <1>2, <1>3, Continues

\* The next input of a replay of the recorded build.
LEMMA NextInput ==
    ASSUME IInv, AnswerInv, SelfInv, phase = "delivering", IsInput,
           adapter # "dead", variant = recorded_with, Repeating
    PROVE  /\ cursor = Len(run.frames) + 1 /\ Recorded.type \in InputTypes
           /\ NamesRequest(Recorded) =>
                 \E k \in 1..(cursor - 1) :
                    /\ Recorded.body.request = k - 1 /\ request_ref(Recorded) = {recording[k]}
                    /\ Equivalent(recording[k]) /\ Correlated(Recorded, recording[k])
  <1>1. Started /\ Explained /\ Mirrors(recording, run.frames) /\ Len(run.frames) \in Nat
    BY Recreating DEF Started
  <1>2. Recorded.type \in InputTypes
    BY InputRecorded DEF Recorded
  <1>3. AtRest(recording, Trace, cursor, Len(run.frames), Memory)
    BY DEF Repeating
  <1>4. cursor = Len(run.frames) + 1
    BY <1>1, <1>2, <1>3, AtPlace, EffectsNotInputs
  <1>5. cursor \in 1..Len(recording) /\ Explains(recording, recorded_with, Trace[cursor - 1], Trace[cursor], cursor)
    BY <1>1, RecordingTells
  <1>6. Refers(recording, cursor)
    BY <1>2, <1>5 DEF Explains, Serves, Recorded
  <1>7. cursor - 1 = Len(run.frames)
    BY <1>1, <1>4
  <1>. QED  BY <1>1, <1>2, <1>4, <1>5, <1>6, <1>7, OwnRequest DEF Recorded

LEMMA RefuseInputReplays == ASSUME IInv, AnswerInv, SelfInv, RefuseInput PROVE SelfInv'
  <1>1. /\ phase = "delivering" /\ phase' = "stopping" /\ IsInput /\ NamesRequest(Recorded)
        /\ \E r \in request_ref(Recorded) : ~Equivalent(r) \/ ~Correlated(Recorded, r)
        /\ UNCHANGED <<component, case, recording, adapter>>
    BY DEF RefuseInput, Goto, pipes
  <1>2. Started /\ Started' /\ UNCHANGED <<recorded_with, variant>>
    BY <1>1 DEF Started, case, component
  <1>3. ASSUME adapter # "dead", variant = recorded_with, Repeating PROVE FALSE
    BY <1>1, <1>3, NextInput
  <1>. QED  BY <1>1, <1>2, <1>3, Continues

LEMMA DeliverInputReplays == ASSUME IInv, AnswerInv, SelfInv, DeliverInput PROVE SelfInv'
  <1>. DEFINE refs == IF NamesRequest(Recorded) THEN request_ref(Recorded) ELSE {}
              request == IF refs = {} THEN <<>> ELSE RequestOf(CHOOSE r \in refs : TRUE)
              q == [op |-> "step", input |-> Input(Recorded, request)]
  <1>1. phase = "delivering" /\ IsInput /\ Started
    BY DEF DeliverInput, Started
  <1>2. CASE Fail
    BY <1>1, <1>2, AbortReplays DEF Fail
  <1>3. CASE ~Fail
    <2>1. /\ phase' = "stepping" /\ UNCHANGED <<component, case, recording, cursor, adapter, responses>>
          /\ requests' = Append(requests, q) /\ run' = [run EXCEPT !.frames = push(@, Recorded)]
      BY <1>3 DEF DeliverInput, Goto, Send
    <2>2. Started' /\ UNCHANGED <<recorded_with, variant>> /\ Memory' = Memory
      BY <2>1 DEF Started, case, component, Memory
    <2>. HIDE DEF q
    <2>3. ASSUME adapter # "dead", variant = recorded_with, Repeating PROVE Repeating'
      <3>. DEFINE n == Len(run.frames)
                  s == recording
      <3>1. /\ Explained /\ Mirrors(s, run.frames) /\ IsSeq(run.frames) /\ n \in Nat /\ IsRun(run) /\ Healthy
        BY <1>1, <2>3, Recreating
      <3>2. /\ cursor = n + 1 /\ Recorded.type \in InputTypes
            /\ NamesRequest(Recorded) =>
                  \E k \in 1..(cursor - 1) : Recorded.body.request = k - 1 /\ request_ref(Recorded) = {s[k]}
        BY <1>1, <2>3, NextInput
      <3>3. q = [op |-> "step", input |-> InputAt(s, cursor)]
        <4>1. request = RequestIn(s, Recorded)
          <5>1. CASE ~NamesRequest(Recorded)
            BY <5>1 DEF RequestIn
          <5>2. CASE NamesRequest(Recorded)
            <6>1. PICK k \in 1..(cursor - 1) : Recorded.body.request = k - 1 /\ request_ref(Recorded) = {s[k]}
              BY <3>2, <5>2
            <6>2. refs = {s[k]} /\ Recorded.body.request + 1 = k
              BY <3>1, <3>2, <5>2, <6>1
            <6>. HIDE DEF refs
            <6>3. (CHOOSE r \in refs : TRUE) = s[k]
              BY <6>2
            <6>4. request = RequestOf(s[k])
              BY <6>2, <6>3
            <6>. QED  BY <5>2, <6>2, <6>4 DEF RequestIn
          <5>. QED  BY <5>1, <5>2
        <4>. HIDE DEF request
        <4>. QED  BY <4>1 DEF q, InputAt, Recorded
      <3>4. requests = <<>>
        BY <1>1, <3>1, Delivering DEF Healthy, Following, Quiet
      <3>5. requests' = <<[op |-> "step", input |-> InputAt(s, cursor)]>>
        <4>1. Append(<<>>, q) = <<q>>
          OBVIOUS
        <4>. QED  BY <2>1, <3>3, <3>4, <4>1
      <3>6. run'.frames = push(run.frames, Recorded) /\ run'.stop = run.stop
        BY <2>1, <3>1 DEF IsRun, RunFields
      <3>7. /\ cursor \in 1..Len(s) /\ Len(s) \in Nat /\ Sound(Recorded) /\ Recorded.ordinal = n
        <4>1. cursor \in 1..Len(s) /\ Len(s) \in Nat /\ FitsAt(s, cursor) /\ cursor - 1 = n
          BY <1>1, <3>1, <3>2, RecordingTells
        <4>. QED  BY <4>1 DEF FitsAt, Recorded
      <3>8. Mirrors(s, run'.frames) /\ Len(run'.frames) = cursor
        <4>1. n = Len(run.frames) /\ n + 1 <= Len(s) /\ n + 1 = cursor
          BY <3>2, <3>7
        <4>2. Due(s, run.frames, Recorded)
          BY <4>1 DEF Due, Recorded
        <4>. HIDE DEF n
        <4>3. Mirrors(s, push(run.frames, Recorded)) /\ Len(push(run.frames, Recorded)) = n + 1
          BY <3>1, <3>7, <4>1, <4>2, RecordedPushed
        <4>. QED  BY <3>6, <4>1, <4>3
      <3>9. AtRest(s, Trace, cursor, n, Memory) /\ run.stop = "Exhausted" /\ Trace' = Trace
        BY <1>1, <2>1, <2>2, <2>3 DEF Repeating, Trace
      <3>10. InStep(s, Trace, cursor, cursor, Memory, requests', responses')
        <4>1. \A i \in (cursor + 1)..cursor : FALSE
          BY <3>7
        <4>2. cursor <= cursor
          BY <3>7
        <4>. QED  BY <3>2, <3>5, <3>9, <4>1, <4>2 DEF InStep, AtRest, Recorded
      <3>. QED  BY <2>1, <2>2, <3>6, <3>8, <3>9, <3>10 DEF Repeating
    <2>. QED  BY <1>1, <2>1, <2>2, <2>3, Continues
  <1>. QED  BY <1>2, <1>3

\* A line of a step of the recorded build.
LEMMA LineRepeats ==
    ASSUME IInv, AnswerInv, SelfInv, phase = "stepping", responses # <<>>,
           adapter # "dead", variant = recorded_with, Repeating
    PROVE  LET n == Len(run.frames)
               s == recording
           IN  /\ Started /\ verdict = {} /\ requests = <<>> /\ run.stop = "Exhausted"
               /\ IsSeq(responses) /\ Len(responses) # 0 /\ StepLines(responses)
               /\ Line = responses[1] /\ Memory = Trace[cursor] /\ Ending(responses).status = "Ok"
               /\ Owing(s, responses, n)
               /\ cursor <= n /\ s[cursor].type \in InputTypes
               /\ \A i \in (cursor + 1)..n : s[i].type \in EffectTypes
               /\ n \in Nat /\ Mirrors(s, run.frames) /\ IsSeq(run.frames) /\ IsRun(run)
               /\ cursor \in 1..Len(s) /\ IsSeq(s) /\ Len(s) \in Nat
               /\ \A j \in 1..Len(s) : FitsAt(s, j) /\ (s[j].type = "End" <=> j = Len(s))
  <1>1. Started
    BY DEF Started
  <1>2. /\ Healthy /\ Explained /\ Mirrors(recording, run.frames) /\ IsSeq(run.frames)
        /\ Len(run.frames) \in Nat /\ IsRun(run)
    BY <1>1, Recreating
  <1>3. Answering /\ Line = responses[1] /\ IsSeq(responses) /\ Len(responses) # 0 /\ verdict = {}
    BY <1>2, AnswerArrives
  <1>4. requests = <<>> /\ StepLines(responses)
    BY <1>3 DEF Answering
  <1>5. InStep(recording, Trace, cursor, Len(run.frames), Memory, requests, responses) /\ run.stop = "Exhausted"
    BY DEF Repeating
  <1>6. \A q : <<>> # <<q>>
    OBVIOUS
  <1>7. /\ Memory = Trace[cursor] /\ Owing(recording, responses, Len(run.frames))
        /\ Ending(responses).status = "Ok"
    BY <1>4, <1>5, <1>6 DEF InStep
  <1>8. /\ cursor <= Len(run.frames) /\ recording[cursor].type \in InputTypes
        /\ \A i \in (cursor + 1)..Len(run.frames) : recording[i].type \in EffectTypes
    BY <1>5 DEF InStep
  <1>9. /\ cursor \in 1..Len(recording) /\ IsSeq(recording) /\ Len(recording) \in Nat
        /\ \A j \in 1..Len(recording) : FitsAt(recording, j) /\ (recording[j].type = "End" <=> j = Len(recording))
    BY <1>1, <1>2, RecordingTells
  <1>. QED  BY <1>1, <1>2, <1>3, <1>4, <1>5, <1>7, <1>8, <1>9

\* An effect that was due is pushed.
LEMMA OwedPushed ==
    ASSUME NEW s, IsSeq(s), \A j \in 1..Len(s) : FitsAt(s, j), NEW frames, IsSeq(frames), Mirrors(s, frames),
           NEW lines, Owing(s, lines, Len(frames)), Len(lines) # 0, lines[1].line = "effect"
    PROVE  LET t == push(frames, EffectFrame(lines[1].effect))
           IN  /\ Mirrors(s, t) /\ Len(t) = Len(frames) + 1 /\ Owing(s, Tail(lines), Len(frames) + 1)
               /\ s[Len(frames) + 1].type \in EffectTypes
  <1>. DEFINE n == Len(frames)
              f == s[n + 1]
  <1>1. n \in Nat /\ Len(s) \in Nat
    BY SeqShape
  <1>2. Shows(f, lines[1].effect) /\ n + 1 <= Len(s) /\ Owing(s, Tail(lines), n + 1)
    BY <1>1, LineTakenOwing
  <1>3. f.ordinal = n
    BY <1>1, <1>2 DEF FitsAt
  <1>4. Due(s, frames, f)
    BY <1>2 DEF Due
  <1>. HIDE DEF f
  <1>5. /\ Mirrors(s, push(frames, EffectFrame(lines[1].effect)))
        /\ Len(push(frames, EffectFrame(lines[1].effect))) = n + 1
    BY <1>2, <1>3, <1>4, EffectAlike
  <1>6. f.type \in EffectTypes
    BY <1>2 DEF Shows
  <1>. QED  BY <1>2, <1>5, <1>6 DEF f

LEMMA ReceiveEffectReplays == ASSUME IInv, AnswerInv, SelfInv, ReceiveEffect PROVE SelfInv'
  <1>. DEFINE l == Line
              now == WithEffect(l)
              steps == Append(run.steps, step(Recorded.ordinal, ReplayedOrdinal, "Ok"))
              answer == evaluate(property, EvidenceNow([now EXCEPT !.steps = steps]))
  <1>1. phase = "stepping" /\ responses # <<>> /\ Line.line = "effect" /\ Started
    BY DEF ReceiveEffect, Received, Line, Started
  <1>2. CASE Fail
    BY <1>1, <1>2, AbortReplays DEF Fail
  <1>3. CASE ~Fail
    <2>1. /\ responses' = Tail(responses) /\ UNCHANGED <<component, case, cursor, recording, adapter, requests>>
          /\ \/ phase' = "stopping" /\ verdict' = {answer} /\ run' = [now EXCEPT !.steps = steps]
             \/ phase' = phase /\ verdict' = verdict /\ run' = now
      BY <1>3 DEF ReceiveEffect, Consumes, Goto, recorder
    <2>. HIDE DEF answer, steps
    <2>2. Started' /\ UNCHANGED <<recorded_with, variant>> /\ Memory' = Memory
      BY <1>1, <2>1 DEF Started, case, component, Memory
    <2>3. ASSUME adapter # "dead", variant = recorded_with, Repeating PROVE Repeating'
      <3>. DEFINE n == Len(run.frames)
                  s == recording
                  t == push(run.frames, EffectFrame(l.effect))
      <3>1. /\ verdict = {} /\ requests = <<>> /\ run.stop = "Exhausted"
            /\ IsSeq(responses) /\ Len(responses) # 0 /\ StepLines(responses)
            /\ l = responses[1] /\ Memory = Trace[cursor] /\ Ending(responses).status = "Ok"
            /\ Owing(s, responses, n)
            /\ cursor <= n /\ s[cursor].type \in InputTypes
            /\ \A i \in (cursor + 1)..n : s[i].type \in EffectTypes
            /\ n \in Nat /\ Mirrors(s, run.frames) /\ IsSeq(run.frames) /\ IsRun(run)
            /\ cursor \in 1..Len(s) /\ IsSeq(s) /\ \A j \in 1..Len(s) : FitsAt(s, j)
        BY <1>1, <2>3, LineRepeats
      <3>2. /\ Mirrors(s, t) /\ Len(t) = n + 1 /\ Owing(s, Tail(responses), n + 1)
            /\ s[n + 1].type \in EffectTypes
        BY <1>1, <3>1, OwedPushed
      <3>3. run'.frames = t /\ run'.stop = "Exhausted"
        BY <2>1, <3>1 DEF WithEffect, IsRun, RunFields
      <3>4. Ending(Tail(responses)) = Ending(responses)
        BY <1>1, <3>1, LineTaken
      <3>5. Trace' = Trace
        BY <2>1, <2>2 DEF Trace
      <3>. HIDE DEF t, l, n
      <3>6. InStep(s, Trace, cursor, n + 1, Memory, <<>>, Tail(responses))
        <4>1. cursor <= n + 1 /\ \A i \in (cursor + 1)..(n + 1) : i \in (cursor + 1)..n \/ i = n + 1
          BY <3>1
        <4>. QED  BY <3>1, <3>2, <3>4, <4>1 DEF InStep
      <3>7. CASE phase' = "stopping" /\ verdict' = {answer}
        <4>1. Stopped(s, cursor, n + 1, run'.stop, verdict')
          BY <3>3, <3>7 DEF Stopped
        <4>. QED  BY <2>1, <2>2, <3>1, <3>2, <3>3, <3>7, <4>1 DEF Repeating
      <3>8. CASE phase' = phase
        BY <1>1, <2>1, <2>2, <3>1, <3>2, <3>3, <3>5, <3>6, <3>8 DEF Repeating
      <3>. QED  BY <2>1, <3>7, <3>8
    <2>. QED  BY <1>1, <2>1, <2>2, <2>3, Continues
  <1>. QED  BY <1>2, <1>3

LEMMA ReceiveProgressReplays == ASSUME IInv, AnswerInv, SelfInv, ReceiveProgress PROVE SelfInv'
  <1>1. phase = "stepping" /\ responses # <<>> /\ Line.line = "progress" /\ Started
    BY DEF ReceiveProgress, Received, Line, Started
  <1>2. CASE Fail
    BY <1>1, <1>2, AbortReplays DEF Fail
  <1>3. CASE ~Fail
    <2>1. /\ responses' = Tail(responses) /\ phase' = phase
          /\ UNCHANGED <<component, case, cursor, run, recording, adapter, requests>>
      BY <1>3 DEF ReceiveProgress, Consumes, recorder, runner
    <2>2. Started' /\ UNCHANGED <<recorded_with, variant>> /\ Memory' = Memory
      BY <1>1, <2>1 DEF Started, case, component, Memory
    <2>3. ASSUME adapter # "dead", variant = recorded_with, Repeating PROVE Repeating'
      <3>. DEFINE n == Len(run.frames)
                  s == recording
      <3>1. /\ requests = <<>> /\ run.stop = "Exhausted" /\ Len(responses) # 0 /\ StepLines(responses)
            /\ Line = responses[1] /\ Memory = Trace[cursor] /\ Ending(responses).status = "Ok"
            /\ Owing(s, responses, n) /\ cursor <= n /\ s[cursor].type \in InputTypes
            /\ \A i \in (cursor + 1)..n : s[i].type \in EffectTypes
            /\ n \in Nat /\ Mirrors(s, run.frames) /\ IsSeq(s)
        BY <1>1, <2>3, LineRepeats
      <3>2. Owing(s, Tail(responses), n)
        BY <1>1, <3>1, LineTakenOwing
      <3>3. Ending(Tail(responses)) = Ending(responses)
        BY <1>1, <3>1, LineTaken
      <3>4. Trace' = Trace
        BY <2>1, <2>2 DEF Trace
      <3>5. InStep(s, Trace, cursor, n, Memory, <<>>, Tail(responses))
        BY <3>1, <3>2, <3>3 DEF InStep
      <3>. QED  BY <1>1, <2>1, <2>2, <3>1, <3>4, <3>5 DEF Repeating
    <2>. QED  BY <1>1, <2>1, <2>2, <2>3, Continues
  <1>. QED  BY <1>2, <1>3

LEMMA ReceiveSteppedReplays == ASSUME IInv, AnswerInv, SelfInv, ReceiveStepped PROVE SelfInv'
  <1>. DEFINE st == Line.status
  <1>1. phase = "stepping" /\ responses # <<>> /\ Line.line = "stepped" /\ Started
    BY DEF ReceiveStepped, Received, Line, Started
  <1>2. CASE Fail
    BY <1>1, <1>2, AbortReplays DEF Fail
  <1>3. CASE ~Fail
    <2>1. /\ UNCHANGED <<component, case, recording, adapter, requests>> /\ responses' = Tail(responses)
          /\ phase' \in {"delivering", "stopping"}
          /\ st # "Refused" =>
                /\ phase' = "delivering" /\ cursor' = cursor + 1
                /\ run' = [run EXCEPT !.pending_after = Line.pending,
                              !.steps = Append(@, step(Recorded.ordinal, ReplayedOrdinal, st))]
      BY <1>3 DEF ReceiveStepped, Consumes, Goto
    <2>2. Started' /\ UNCHANGED <<recorded_with, variant>> /\ Memory' = Memory
      BY <2>1 DEF Started, case, component, Memory
    <2>3. ASSUME adapter # "dead", variant = recorded_with, Repeating PROVE Repeating'
      <3>. DEFINE n == Len(run.frames)
                  s == recording
      <3>1. /\ run.stop = "Exhausted" /\ Len(responses) # 0 /\ StepLines(responses)
            /\ Line = responses[1] /\ Memory = Trace[cursor] /\ Ending(responses).status = "Ok"
            /\ Owing(s, responses, n) /\ cursor <= n
            /\ \A i \in (cursor + 1)..n : s[i].type \in EffectTypes
            /\ n \in Nat /\ Mirrors(s, run.frames) /\ IsRun(run) /\ IsSeq(s) /\ Len(s) \in Nat
            /\ cursor \in 1..Len(s)
        BY <1>1, <2>3, LineRepeats
      <3>2. st = "Ok"
        BY <1>1, <3>1, LastLine
      <3>3. run'.frames = run.frames /\ run'.stop = "Exhausted" /\ phase' = "delivering" /\ cursor' = cursor + 1
        BY <2>1, <3>1, <3>2 DEF IsRun, RunFields
      <3>4. n + 1 <= Len(s) /\ s[n + 1].type \notin EffectTypes
        BY <1>1, <3>1, LineTakenOwing
      <3>5. AtRest(s, Trace, cursor + 1, n, Memory)
        <4>1. (cursor + 1) - 1 = cursor /\ n < Len(s)
          BY <3>1, <3>4
        <4>. QED  BY <3>1, <3>4, <4>1 DEF AtRest
      <3>6. Trace' = Trace
        BY <2>1, <2>2 DEF Trace
      <3>. QED  BY <2>1, <2>2, <3>1, <3>3, <3>5, <3>6 DEF Repeating
    <2>. QED  BY <1>1, <2>1, <2>2, <2>3, Continues
  <1>. QED  BY <1>2, <1>3

LEMMA SendFinishReplays == ASSUME IInv, AnswerInv, SelfInv, SendFinish PROVE SelfInv'
  <1>. DEFINE reason == IF run.stop = "Exhausted" /\ verdict = {} THEN "Exhausted" ELSE "Scope"
              q == [op |-> "finish", reason |-> reason]
  <1>1. /\ phase = "stopping" /\ phase' = "finishing" /\ requests' = Append(requests, q)
        /\ run' = [run EXCEPT !.reason = reason]
        /\ UNCHANGED <<component, case, cursor, verdict, recording, adapter, responses>>
    BY DEF SendFinish, Goto, Send
  <1>2. Started /\ Started' /\ UNCHANGED <<recorded_with, variant>>
    BY <1>1 DEF Started, case, component
  <1>3. q.op = "finish" /\ (reason = "Exhausted" => run.stop = "Exhausted" /\ verdict = {})
    OBVIOUS
  <1>. HIDE DEF q, reason
  <1>4. ASSUME adapter # "dead", variant = recorded_with, Repeating PROVE Repeating'
    <2>1. Mirrors(recording, run.frames) /\ IsRun(run)
      BY <1>2, <1>4, Recreating
    <2>2. run'.frames = run.frames /\ run'.stop = run.stop /\ run'.reason = reason
      BY <1>1, <2>1 DEF IsRun, RunFields
    <2>3. /\ Stopped(recording, cursor, Len(run.frames), run.stop, verdict)
          /\ Owing(recording, responses, Len(run.frames)) /\ requests = <<>>
      BY <1>1, <1>4 DEF Repeating
    <2>4. requests' = <<q>>
      <3>1. Append(<<>>, q) = <<q>>
        OBVIOUS
      <3>. QED  BY <1>1, <2>3, <3>1
    <2>. QED  BY <1>1, <1>3, <2>1, <2>2, <2>3, <2>4 DEF Repeating
  <1>. QED  BY <1>1, <1>2, <1>4, Continues

LEMMA ReceiveLateReplays == ASSUME IInv, AnswerInv, SelfInv, ReceiveLate PROVE SelfInv'
  <1>. DEFINE l == Line
  <1>1. phase = "finishing" /\ responses # <<>> /\ Started
    BY DEF ReceiveLate, Started
  <1>2. CASE Fail
    BY <1>1, <1>2, AbortReplays DEF Fail
  <1>3. CASE ~Fail
    <2>1. /\ UNCHANGED <<component, case, recording, cursor, verdict, adapter, requests, phase>>
          /\ responses' = Tail(responses) /\ verdict # {}
          /\ run' = CASE l.line = "effect" -> WithEffect(l)
                      [] l.line = "stepped" -> [run EXCEPT !.pending_after = l.pending]
                      [] OTHER -> run
      BY <1>3 DEF ReceiveLate, Consumes, recorder
    <2>2. Started' /\ UNCHANGED <<recorded_with, variant>>
      BY <1>1, <2>1 DEF Started, case, component
    <2>3. ASSUME adapter # "dead", variant = recorded_with, Repeating PROVE Repeating'
      <3>. DEFINE n == Len(run.frames)
                  s == recording
                  t == push(run.frames, EffectFrame(l.effect))
      <3>1. /\ Mirrors(s, run.frames) /\ IsSeq(run.frames) /\ n \in Nat /\ IsRun(run)
        BY <1>1, <2>3, Recreating
      <3>2. /\ IsSeq(s) /\ \A i \in 1..Len(s) : FitsAt(s, i)
        BY <1>1, Reading
      <3>3. /\ Stopped(s, cursor, n, run.stop, verdict) /\ Owing(s, responses, n)
            /\ requests = <<>> \/ \E q : requests = <<q>> /\ q.op = "finish"
            /\ run.reason # "Exhausted"
        BY <1>1, <2>1, <2>3 DEF Repeating
      <3>4. IsSeq(responses) /\ Len(responses) # 0 /\ l = responses[1]
        <4>1. IsSeq(responses)
          BY <3>3 DEF Owing
        <4>2. Len(responses) # 0
          BY <1>1, <4>1, EmptyShape, SameSeq
        <4>. QED  BY <4>1, <4>2, TailShape DEF Line
      <3>5. CASE l.line = "effect"
        <4>1. run'.frames = t /\ run'.stop = run.stop /\ run'.reason = run.reason
          BY <2>1, <3>1, <3>5 DEF WithEffect, IsRun, RunFields
        <4>2. Mirrors(s, t) /\ Len(t) = n + 1 /\ Owing(s, Tail(responses), n + 1)
          BY <3>1, <3>2, <3>3, <3>4, <3>5, OwedPushed
        <4>. HIDE DEF t, n
        <4>3. Stopped(s, cursor, n + 1, run.stop, verdict)
          BY <2>1, <3>3 DEF Stopped
        <4>. QED  BY <1>1, <2>1, <3>3, <4>1, <4>2, <4>3 DEF Repeating
      <3>6. CASE l.line # "effect"
        <4>1. run'.frames = run.frames /\ run'.stop = run.stop /\ run'.reason = run.reason
          BY <2>1, <3>1, <3>6 DEF IsRun, RunFields
        <4>2. Owing(s, Tail(responses), n)
          BY <3>1, <3>2, <3>3, <3>4, <3>6, LineTakenOwing
        <4>. QED  BY <1>1, <2>1, <3>1, <3>3, <4>1, <4>2 DEF Repeating
      <3>. QED  BY <3>5, <3>6
    <2>. QED  BY <1>1, <2>1, <2>2, <2>3, Continues
  <1>. QED  BY <1>2, <1>3

LEMMA ReceiveFinishedReplays == ASSUME IInv, AnswerInv, SelfInv, ReceiveFinished PROVE SelfInv'
  <1>1. phase = "finishing" /\ Started
    BY DEF ReceiveFinished, Started
  <1>2. CASE Fail
    BY <1>1, <1>2, AbortReplays DEF Fail
  <1>3. CASE ~Fail
    <2>1. /\ UNCHANGED <<component, case, recording, cursor, verdict, adapter>> /\ phase' = "reaping"
          /\ run' = [run EXCEPT !.pending = Line.pending]
      BY <1>3 DEF ReceiveFinished, Consumes, Goto
    <2>2. Started' /\ UNCHANGED <<recorded_with, variant>>
      BY <2>1 DEF Started, case, component
    <2>3. ASSUME adapter # "dead", variant = recorded_with, Repeating PROVE Repeating'
      <3>1. Mirrors(recording, run.frames) /\ IsRun(run)
        BY <1>1, <2>3, Recreating
      <3>2. run'.frames = run.frames /\ run'.stop = run.stop /\ run'.reason = run.reason
        BY <2>1, <3>1 DEF IsRun, RunFields
      <3>3. /\ Stopped(recording, cursor, Len(run.frames), run.stop, verdict)
            /\ run.reason = "Exhausted" => verdict = {} /\ run.stop = "Exhausted"
        BY <1>1, <2>3 DEF Repeating
      <3>. QED  BY <2>1, <3>1, <3>2, <3>3 DEF Repeating
    <2>. QED  BY <1>1, <2>1, <2>2, <2>3, Continues
  <1>. QED  BY <1>2, <1>3

\* Two streams that mirror each other, all of the one, have the same envelopes.
LEMMA SameEnvelopes ==
    ASSUME NEW s, NEW t, IsSeq(s), IsSeq(t), Len(s) = Len(t),
           \A i \in 1..Len(s) : envelope(s[i]) = envelope(t[i])
    PROVE  Envelopes(s) = Envelopes(t)
  <1>1. DOMAIN s = 1..Len(s) /\ DOMAIN t = 1..Len(s)
    BY SeqShape
  <1>2. /\ Envelopes(s) = [i \in 1..Len(s) |-> envelope(s[i])]
        /\ Envelopes(t) = [i \in 1..Len(s) |-> envelope(t[i])]
    BY <1>1 DEF Envelopes
  <1>3. \A i \in 1..Len(s) : Envelopes(s)[i] = Envelopes(t)[i]
    BY <1>2
  <1>. QED  BY <1>2, <1>3

\* A replay that mirrors the beginning of a recording, and its end marker.
LEMMA MirroredEnvelopes ==
    ASSUME NEW s, IsSeq(s), NEW frames, IsSeq(frames), Mirrors(s, frames), NEW g
    PROVE  LET n == Len(frames)
               t == Append(frames, g)
           IN  /\ Len(t) - 1 = n
               /\ Envelopes(SubSeq(t, 1, n)) = Envelopes(SubSeq(s, 1, n))
               /\ n + 1 = Len(s) /\ envelope(g) = envelope(s[n + 1]) => Envelopes(t) = Envelopes(s)
  <1>. DEFINE n == Len(frames)
              t == Append(frames, g)
              a == SubSeq(t, 1, n)
              b == SubSeq(s, 1, n)
  <1>1. n \in Nat /\ Len(s) \in Nat /\ n <= Len(s) /\ \A i \in 1..n : envelope(frames[i]) = envelope(s[i])
    BY SeqShape DEF Mirrors
  <1>2. IsSeq(t) /\ Len(t) = n + 1 /\ t[n + 1] = g /\ \A i \in 1..n : t[i] = frames[i]
    BY AppendShape DEF Grown
  <1>. HIDE DEF t
  <1>3. Prefixed(a, t, n) /\ Prefixed(b, s, n)
    <2>1. n \in 0..Len(t) /\ n \in 0..Len(s)
      BY <1>1, <1>2
    <2>. QED  BY <1>2, <2>1, PrefixShape
  <1>. HIDE DEF a, b, n
  <1>4. /\ IsSeq(a) /\ IsSeq(b) /\ Len(a) = n /\ Len(b) = n
        /\ \A i \in 1..n : a[i] = t[i] /\ b[i] = s[i]
    BY <1>3 DEF Prefixed
  <1>5. Envelopes(a) = Envelopes(b)
    <2>1. \A i \in 1..Len(a) : envelope(a[i]) = envelope(b[i])
      BY <1>1, <1>2, <1>4
    <2>. QED  BY <1>4, <2>1, SameEnvelopes
  <1>6. ASSUME n + 1 = Len(s), envelope(g) = envelope(s[n + 1]) PROVE Envelopes(t) = Envelopes(s)
    <2>1. \A i \in 1..(n + 1) : i \in 1..n \/ i = n + 1
      BY <1>1
    <2>2. \A i \in 1..Len(t) : envelope(t[i]) = envelope(s[i])
      BY <1>1, <1>2, <1>6, <2>1
    <2>. QED  BY <1>2, <1>6, <2>2, SameEnvelopes
  <1>7. Len(t) - 1 = n
    BY <1>1, <1>2
  <1>. QED  BY <1>5, <1>6, <1>7 DEF a, b, t, n

\* The end marker a replay closes with is the recorded one when it ends where the
\* recording does.
LEMMA EndAlike ==
    ASSUME IInv, Explained, Started, NEW n \in Nat, cursor = n + 1, recording[n + 1].type = "End",
           NEW g, g = [EndMarker(n, session_sequence) EXCEPT !.observed_ns = 0]
    PROVE  n + 1 = Len(recording) /\ envelope(g) = envelope(recording[n + 1])
  <1>. DEFINE r == recording[n + 1]
  <1>1. /\ n + 1 \in 1..Len(recording) /\ Len(recording) \in Nat /\ FitsAt(recording, n + 1)
        /\ n + 1 = Len(recording)
    BY RecordingTells
  <1>2. r.body = [uuid |-> "u", frame_count |-> n] /\ r.flags = {}
    <2>1. Closed(recording) /\ Len(recording) - 1 = n
      BY <1>1, Reading
    <2>. QED  BY <1>1, <2>1 DEF Closed, Explained
  <1>3. /\ r.ordinal = n /\ r.src = SESSION_ACTOR_ID /\ r.dst = SESSION_ACTOR_ID
        /\ r.channel = SESSION_CHANNEL_ID /\ r.seq = CountUpTo(recording, n, Source(r))
    <2>1. (n + 1) - 1 = n
      OBVIOUS
    <2>. QED  BY <1>1, <2>1 DEF FitsAt, Sound, HasMarkerTuple
  <1>4. r.seq = session_sequence
    <2>1. Source(r) = SessionSource /\ cursor - 1 = n
      BY <1>3 DEF Source, SessionSource
    <2>. QED  BY <1>3, <2>1 DEF IInv, ReplayInv
  <1>5. envelope(g) = envelope(r)
    <2>1. /\ g.ordinal = n /\ g.src = SESSION_ACTOR_ID /\ g.dst = SESSION_ACTOR_ID
          /\ g.channel = SESSION_CHANNEL_ID /\ g.seq = session_sequence /\ g.type = "End"
          /\ g.flags = {} /\ g.body = [uuid |-> "u", frame_count |-> n]
      BY DEF EndMarker, session_frame, frame
    <2>. HIDE DEF r
    <2>2. r.type = "End"
      BY DEF r
    <2>. QED  BY <1>2, <1>3, <1>4, <2>1, <2>2 DEF envelope
  <1>. QED  BY <1>1, <1>5

LEMMA ConcludeReplays == ASSUME IInv, AnswerInv, SelfInv, Conclude PROVE SelfInv'
  <1>. DEFINE n == Len(run.frames)
              s == recording
              g == [EndMarker(n, session_sequence) EXCEPT !.observed_ns = 0]
              closed == [run EXCEPT !.frames = Append(@, g)]
  <1>1. phase = "reaping" /\ adapter = "exited" /\ Started
    BY DEF Conclude, Started
  <1>2. CASE Fail
    BY <1>1, <1>2, AbortReplays DEF Fail
  <1>3. CASE ~Fail
    <2>1. phase' = "done" /\ run' = closed /\ UNCHANGED <<component, case, recording>>
      BY <1>3 DEF Conclude, Goto
    <2>2. ~Started' /\ Over' /\ UNCHANGED <<recorded_with, variant>>
      BY <2>1 DEF Started, Over, case, component
    <2>3. Explained /\ Explained'
      BY <1>1, <2>1, <2>2 DEF SelfInv, Explained
    <2>4. SelfReplay'
      <3>. SUFFICES ASSUME variant = recorded_with PROVE SelfReplay'
        BY <2>2 DEF SelfReplay
      <3>1. Repeating
        BY <1>1 DEF SelfInv
      <3>2. /\ Mirrors(s, run.frames) /\ IsSeq(run.frames) /\ n \in Nat /\ IsRun(run)
        BY <1>1, <3>1, Recreating
      <3>3. /\ Stopped(s, cursor, n, run.stop, verdict)
            /\ run.reason = "Exhausted" => verdict = {} /\ run.stop = "Exhausted"
        BY <1>1, <3>1 DEF Repeating
      <3>4. IsSeq(s)
        BY <1>1, Reading
      <3>5. run.reason = "Exhausted" => n + 1 = Len(s) /\ envelope(g) = envelope(s[n + 1])
        <4>1. run.reason = "Exhausted" => cursor = n + 1 /\ s[n + 1].type = "End"
          BY <3>3 DEF Stopped
        <4>2. \E h : h = g
          OBVIOUS
        <4>. HIDE DEF n
        <4>. QED  BY <1>1, <2>3, <3>2, <4>1, EndAlike
      <3>. HIDE DEF g
      <3>6. run'.frames = Append(run.frames, g) /\ run'.stop = run.stop /\ run'.reason = run.reason
        BY <2>1, <3>2 DEF IsRun, RunFields
      <3>7. /\ Len(run'.frames) - 1 = n
            /\ Envelopes(SubSeq(run'.frames, 1, n)) = Envelopes(SubSeq(s, 1, n))
            /\ n + 1 = Len(s) /\ envelope(g) = envelope(s[n + 1]) => Envelopes(run'.frames) = Envelopes(s)
        BY <3>2, <3>4, <3>6, MirroredEnvelopes
      <3>8. run.stop # "Refused" /\ (run.stop = "Gap" => s[n + 1].type = "Gap")
        BY <3>3 DEF Stopped
      <3>. HIDE DEF n
      <3>. QED  BY <2>1, <2>2, <3>5, <3>6, <3>7, <3>8 DEF SelfReplay
    <2>. QED  BY <2>1, <2>2, <2>3, <2>4 DEF SelfInv
  <1>. QED  BY <1>2, <1>3

\* What an adapter's step leaves to show.
LEMMA AdapterRepeats ==
    ASSUME AnswerInv, SelfInv, adapter \in {"running", "leaving"}, UNCHANGED <<recorder, case, runner>>,
           variant' = variant,
           (Started \/ phase = "starting") /\ adapter' # "dead" /\ variant = recorded_with /\ Healthy /\ Repeating
              => Repeating'
    PROVE  SelfInv'
  <1>1. UNCHANGED <<phase, recording, recorded_with, run>>
    BY DEF recorder, case, runner
  <1>2. phase \notin {"recording", "bailed", "done"}
    BY DEF AnswerInv
  <1>3. Explained /\ Explained'
    BY <1>1, <1>2 DEF SelfInv, Explained
  <1>4. Started' = Started /\ Over' = Over
    BY <1>1 DEF Started, Over
  <1>5. (~Started /\ ~Over => run.stop = "Exhausted")'
    BY <1>1, <1>4 DEF SelfInv
  <1>6. ((Started \/ phase = "starting") /\ adapter # "dead" /\ variant = recorded_with => Repeating)'
    <2>. SUFFICES ASSUME Started \/ phase = "starting", adapter' # "dead", variant = recorded_with
                  PROVE  Repeating'
      BY <1>1, <1>4
    <2>1. Healthy /\ Repeating
      BY DEF AnswerInv, SelfInv
    <2>. QED  BY <2>1
  <1>. QED  BY <1>1, <1>2, <1>3, <1>5, <1>6 DEF SelfInv, SelfReplay

\* Outside a step an adapter that replays reads at most the request to finish.
LEMMA NothingAsked ==
    ASSUME IInv, Healthy, Repeating, Started, requests # <<>>, phase # "reaping", phase # "stepping"
    PROVE  phase = "finishing" /\ Request.op = "finish" /\ \E q : requests = <<q>>
  <1>1. \A q : requests = <<q>> => Request = q
    BY DEF Request
  <1>2. phase # "delivering"
    BY Delivering DEF Healthy, Following, Quiet, Started
  <1>3. phase # "stopping"
    BY DEF Repeating
  <1>4. phase = "finishing"
    BY <1>2, <1>3 DEF Started
  <1>. QED  BY <1>1, <1>4 DEF Repeating

\* A place where only what the adapter holds has changed.
LEMMA Undisturbed ==
    ASSUME UNCHANGED <<recorder, case, runner>>, variant' = variant, Repeating,
           Started \/ phase = "starting",
           phase = "starting" => (requests' = <<>> => Memory' = Blank),
           phase = "delivering" => Memory' = Memory,
           phase = "stepping" => InStep(recording, Trace, cursor, Len(run.frames), Memory', requests', responses'),
           phase \in {"stopping", "finishing"} => Owing(recording, responses', Len(run.frames)),
           phase = "stopping" => requests' = <<>>,
           phase = "finishing" => requests' = <<>> \/ \E q : requests' = <<q>> /\ q.op = "finish"
    PROVE  Repeating'
  <1>1. UNCHANGED <<phase, recording, recorded_with, run, cursor, verdict>>
    BY DEF recorder, case, runner
  <1>2. Trace' = Trace /\ Started' = Started
    BY <1>1 DEF Trace, Started
  <1>. QED  BY <1>1, <1>2 DEF Repeating

LEMMA AdapterStartReplays ==
    ASSUME IInv, AnswerInv, SelfInv, AdapterStart, UNCHANGED <<recorder, case, runner>> PROVE SelfInv'
  <1>1. /\ adapter = "running" /\ requests # <<>> /\ Request.op = "start" /\ variant' = variant
        /\ Memory' = Blank
    BY DEF AdapterStart, AdapterReads, Memory, Blank
  <1>2. ASSUME Started \/ phase = "starting", Healthy, Repeating PROVE Repeating'
    <2>1. CASE phase = "starting"
      <3>1. ~Started
        BY <2>1 DEF Started
      <3>. QED  BY <1>1, <1>2, <2>1, <3>1, Undisturbed
    <2>2. CASE phase = "reaping"
      BY <1>1, <1>2, <2>2, Undisturbed
    <2>3. CASE phase = "stepping"
      <3>1. verdict = {} /\ Started
        BY <2>3, Stepping
      <3>. QED  BY <1>1, <1>2, <2>3, <3>1, Requested
    <2>4. CASE Started /\ phase # "reaping" /\ phase # "stepping"
      BY <1>1, <1>2, <2>4, NothingAsked
    <2>. QED  BY <1>2, <2>1, <2>2, <2>3, <2>4
  <1>. QED  BY <1>1, <1>2, AdapterRepeats

LEMMA AdapterFinishReplays ==
    ASSUME IInv, AnswerInv, SelfInv, AdapterFinish, UNCHANGED <<recorder, case, runner>> PROVE SelfInv'
  <1>. DEFINE z == [line |-> "finished", reason |-> Request.reason, pending |-> waits(state),
                    effects |-> reported]
  <1>1. /\ adapter = "running" /\ requests # <<>> /\ Request.op = "finish" /\ UNCHANGED component
        /\ requests' = Tail(requests) /\ responses' = responses \o <<z>> /\ z.line # "effect"
    BY DEF AdapterFinish, AdapterReads, Reply
  <1>. HIDE DEF z
  <1>2. variant' = variant
    BY <1>1 DEF component
  <1>3. ASSUME Started \/ phase = "starting", Healthy, Repeating PROVE Repeating'
    <2>1. CASE phase = "starting"
      BY <1>1, <1>3, <2>1, Requested
    <2>2. CASE phase = "reaping"
      BY <1>2, <1>3, <2>2, Undisturbed
    <2>3. CASE phase = "stepping"
      <3>1. verdict = {} /\ Started
        BY <2>3, Stepping
      <3>. QED  BY <1>1, <1>3, <2>3, <3>1, Requested
    <2>4. CASE Started /\ phase # "reaping" /\ phase # "stepping"
      <3>1. phase = "finishing" /\ \E q : requests = <<q>>
        BY <1>1, <1>3, <2>4, NothingAsked
      <3>2. requests' = <<>>
        BY <1>1, <3>1, OneLine
      <3>3. Owing(recording, responses, Len(run.frames))
        BY <1>3, <3>1 DEF Repeating
      <3>4. Owing(recording, responses', Len(run.frames))
        BY <1>1, <3>3, LineAddedOwing
      <3>. QED  BY <1>2, <1>3, <3>1, <3>2, <3>4, Undisturbed
    <2>. QED  BY <1>3, <2>1, <2>2, <2>3, <2>4
  <1>. QED  BY <1>1, <1>2, <1>3, AdapterRepeats

LEMMA SelfRests ==
    ASSUME SelfInv, UNCHANGED <<component, recorder, case, runner, pipes>>
    PROVE  SelfInv'
  <1>1. /\ UNCHANGED <<phase, recording, recorded_with, run, cursor, verdict, variant, adapter, requests,
                       responses, last_goal, last_cancel>>
        /\ Memory' = Memory
    BY DEF component, recorder, case, runner, pipes, Memory
  <1>2. Started' = Started /\ Over' = Over /\ Explained' = Explained /\ Trace' = Trace
    BY <1>1 DEF Started, Over, Explained, Trace
  <1>3. Writing' = Writing /\ SelfReplay' = SelfReplay
    BY <1>1 DEF Writing, SelfReplay
  <1>4. Repeating' = Repeating
    BY <1>1, <1>2 DEF Repeating
  <1>. QED  BY <1>1, <1>2, <1>3, <1>4 DEF SelfInv

LEMMA AdapterExitReplays ==
    ASSUME AnswerInv, SelfInv, AdapterExit, UNCHANGED <<recorder, case, runner>> PROVE SelfInv'
  <1>1. adapter = "leaving" /\ UNCHANGED <<component, requests, responses>>
    BY DEF AdapterExit
  <1>2. variant' = variant /\ Memory' = Memory
    BY <1>1 DEF component, Memory
  <1>3. ASSUME Started \/ phase = "starting", Repeating PROVE Repeating'
    <2>1. phase = "starting" => ~Started
      BY DEF Started
    <2>2. /\ phase = "starting" => (requests = <<>> => Memory = Blank)
          /\ phase = "stepping" => InStep(recording, Trace, cursor, Len(run.frames), Memory, requests, responses)
          /\ phase \in {"stopping", "finishing"} => Owing(recording, responses, Len(run.frames))
          /\ phase = "stopping" => requests = <<>>
          /\ phase = "finishing" => requests = <<>> \/ \E q : requests = <<q>> /\ q.op = "finish"
      BY <1>3, <2>1 DEF Repeating
    <2>. QED  BY <1>1, <1>2, <1>3, <2>2, Undisturbed
  <1>. QED  BY <1>1, <1>2, <1>3, AdapterRepeats

LEMMA AdapterDiesReplays ==
    ASSUME AnswerInv, SelfInv, AdapterDies, UNCHANGED <<recorder, case, runner>> PROVE SelfInv'
  <1>1. adapter \in {"running", "leaving"} /\ adapter' = "dead" /\ variant' = variant
    BY DEF AdapterDies, component
  <1>. QED  BY <1>1, AdapterRepeats

\* The lines that tell the effects shown after a place owe them.
LEMMA ShownOwing ==
    ASSUME NEW s, IsSeq(s), \A j \in 1..Len(s) : s[j].type = "End" <=> j = Len(s),
           NEW n \in 1..Len(s), s[n].type \in InputTypes, NEW es, IsSeq(es), ShownAfter(s, n, es),
           NEW lines, IsSeq(lines), NEW callback, Tells(lines, es, callback)
    PROVE  Owing(s, lines, n)
  <1>. DEFINE e == Len(es)
  <1>1. Len(s) \in Nat /\ e \in Nat /\ DOMAIN es = 1..e
    BY SeqShape
  <1>2. n + e <= Len(s) /\ \A i \in 1..e : Shows(s[n + i], es[i])
    BY DEF ShownAfter
  <1>3. n + e < Len(s) => s[n + e + 1].type \notin EffectTypes
    BY DEF ShownAfter
  <1>4. EffectsOf(lines) = 1..e /\ \A i \in 1..e : lines[i].effect = es[i]
    BY <1>1 DEF Tells
  <1>. HIDE DEF e
  <1>5. n + e \in 1..Len(s) /\ s[n + e].type # "End"
    <2>1. CASE e = 0
      BY <2>1 DEF InputTypes
    <2>2. CASE e # 0
      <3>1. e \in 1..e
        BY <1>1, <2>2
      <3>2. s[n + e].type \in EffectTypes
        BY <1>2, <3>1 DEF Shows
      <3>3. n + e \in 1..Len(s)
        BY <1>1, <1>2
      <3>. QED  BY <3>2, <3>3 DEF EffectTypes
    <2>. QED  BY <2>1, <2>2
  <1>6. n + e < Len(s)
    BY <1>1, <1>2, <1>5
  <1>7. n + e + 1 <= Len(s)
    BY <1>1, <1>6
  <1>. QED  BY <1>1, <1>2, <1>3, <1>4, <1>6, <1>7 DEF Owing

\* A step of the recorded build with the recorded input goes as recorded.
LEMMA StepRepeats ==
    ASSUME NEW s, NEW m, NEW j, Explains(s, variant, Memory, m, j), s[j].type \in InputTypes,
           Step(InputAt(s, j))
    PROVE  /\ Memory' = m /\ outcome'.consumed = "Yes" /\ ShownAfter(s, j, outcome'.effects)
  <1>1. Serves(s, variant, Memory, m, j)
    BY DEF Explains
  <1>. DEFINE after == After(variant, Memory, InputAt(s, j))
  <1>2. after.to = m /\ after.says.consumed = "Yes" /\ ShownAfter(s, j, after.says.effects)
    BY <1>1 DEF Serves
  <1>3. [to |-> Memory', says |-> outcome'] = after
    BY StepIs
  <1>. HIDE DEF after
  <1>4. after.to = Memory' /\ after.says = outcome'
    BY <1>3
  <1>. QED  BY <1>2, <1>4

LEMMA AdapterStepReplays ==
    ASSUME IInv, AnswerInv, SelfInv, AdapterStep, UNCHANGED <<recorder, case, runner>> PROVE SelfInv'
  <1>. DEFINE in == Request.input
              o == outcome'
              a == [i \in DOMAIN o.effects |->
                      [line |-> "effect", step |-> in.ordinal, callback |-> o.callback,
                       effect |-> o.effects[i]]]
              b == [i \in DOMAIN o.progress |->
                      [line |-> "progress", step |-> in.ordinal, callback |-> o.callback]]
              z == [line |-> "stepped", ordinal |-> in.ordinal, status |-> Status(o.consumed),
                    pending |-> waits(state')]
              lines == a \o b \o <<z>>
  <1>1. /\ adapter = "running" /\ requests # <<>> /\ Request.op = "step" /\ Step(in)
        /\ requests' = Tail(requests) /\ responses' = responses \o lines
    BY DEF AdapterStep, AdapterReads, Reply
  <1>2. variant' = variant
    BY <1>1, StepAnswers
  <1>3. /\ StepLines(lines) /\ Ending(lines) = z /\ <<>> \o lines = lines
        /\ Tells(lines, o.effects, o.callback)
    <2>1. z.line = "stepped" /\ z.status = Status(o.consumed)
      OBVIOUS
    <2>. HIDE DEF in, z
    <2>. QED  BY <1>1, <2>1, StepReplied
  <1>4. z.status = Status(outcome'.consumed)
    OBVIOUS
  <1>. HIDE DEF a, b, z, lines, o
  <1>5. ASSUME phase = "stepping", variant = recorded_with, Healthy, Repeating PROVE Repeating'
    <2>. DEFINE n == Len(run.frames)
                s == recording
    <2>1. verdict = {} /\ Started
      BY <1>5, Stepping
    <2>2. responses = <<>> /\ \E q : requests = <<q>>
      BY <1>1, <1>5, <2>1, Requested
    <2>3. InStep(s, Trace, cursor, n, Memory, requests, responses)
      BY <1>5 DEF Repeating
    <2>4. /\ n = cursor /\ Memory = Trace[cursor - 1] /\ s[cursor].type \in InputTypes
          /\ requests = <<[op |-> "step", input |-> InputAt(s, cursor)]>>
          /\ cursor <= n /\ \A i \in (cursor + 1)..n : s[i].type \in EffectTypes
      BY <1>1, <2>3 DEF InStep
    <2>5. in = InputAt(s, cursor)
      BY <2>4 DEF Request
    <2>6. requests' = <<>> /\ responses' = lines
      BY <1>1, <1>3, <2>2, OneLine
    <2>7. Explained
      BY <1>5 DEF SelfInv
    <2>8. /\ IsSeq(s) /\ cursor \in 1..Len(s)
          /\ Explains(s, variant, Trace[cursor - 1], Trace[cursor], cursor)
          /\ \A j \in 1..Len(s) : s[j].type = "End" <=> j = Len(s)
      BY <1>5, <2>1, <2>7, RecordingTells
    <2>. HIDE DEF in
    <2>9. Memory' = Trace[cursor] /\ outcome'.consumed = "Yes" /\ ShownAfter(s, cursor, outcome'.effects)
      <3>1. Step(InputAt(s, cursor)) /\ Explains(s, variant, Memory, Trace[cursor], cursor)
        BY <1>1, <2>4, <2>5, <2>8
      <3>. QED  BY <2>4, <3>1, StepRepeats
    <2>10. IsSeq(outcome'.effects)
      BY <1>1, StepEmits, EmittedSeq
    <2>11. IsSeq(lines) /\ Tells(lines, outcome'.effects, outcome'.callback)
      BY <1>3 DEF StepLines, o
    <2>12. Owing(s, lines, cursor)
      BY <2>4, <2>8, <2>9, <2>10, <2>11, ShownOwing
    <2>13. Ending(lines).status = "Ok"
      BY <1>3, <1>4, <2>9 DEF Status
    <2>14. InStep(s, Trace, cursor, n, Memory', requests', responses')
      BY <2>4, <2>6, <2>9, <2>12, <2>13 DEF InStep
    <2>. QED  BY <1>2, <1>5, <2>1, <2>14, Undisturbed
  <1>6. ASSUME Started \/ phase = "starting", phase # "stepping", Healthy, Repeating PROVE Repeating'
    <2>1. CASE phase = "starting"
      BY <1>1, <1>6, <2>1, Requested
    <2>2. CASE phase = "reaping"
      BY <1>2, <1>6, <2>2, Undisturbed
    <2>3. CASE Started /\ phase # "reaping"
      BY <1>1, <1>6, <2>3, NothingAsked
    <2>. QED  BY <1>6, <2>1, <2>2, <2>3
  <1>. QED  BY <1>1, <1>2, <1>5, <1>6, AdapterRepeats

LEMMA GiveUpReplays == ASSUME SelfInv, GiveUp PROVE SelfInv'
  <1>1. Started \/ phase = "starting"
    BY DEF GiveUp, WaitingInVain, Started
  <1>. QED  BY <1>1, AbortReplays DEF GiveUp

LEMMA InitReplays == Init => SelfInv
  <1>. SUFFICES ASSUME Init PROVE SelfInv
    OBVIOUS
  <1>1. /\ phase = "recording" /\ recording = Opening /\ recorded_with = variant
        /\ last_goal = {} /\ last_cancel = {} /\ run.stop = "Exhausted"
    BY DEF Init, RecordInit
  <1>2. Memory = Blank
    BY DEF Init, RecordInit, NewComponent, Memory, Blank
  <1>3. Writing
    <2>1. Reaches(recording, variant, Memory)
      BY <1>1, <1>2, OpeningTraced
    <2>2. Blank.state.tag # "AwaitGoalResponse"
      BY DEF Blank, Idle
    <2>3. KnownGoal(Memory, SentBy(recording, Len(recording)))
      BY <1>2, <2>2 DEF KnownGoal
    <2>. QED  BY <1>1, <2>1, <2>3 DEF Writing, Held
  <1>. QED  BY <1>1, <1>3 DEF SelfInv, SelfReplay, Started

LEMMA NextReplays == IInv /\ AnswerInv /\ SelfInv /\ [Next]_vars => SelfInv'
  <1>. SUFFICES ASSUME IInv, AnswerInv, SelfInv, [Next]_vars PROVE SelfInv'
    OBVIOUS
  <1>1. CASE Record
    BY <1>1, RecordReplays
  <1>2. CASE Adapter
    BY <1>2, AdapterStartReplays, AdapterStepReplays, AdapterFinishReplays, AdapterExitReplays,
       AdapterDiesReplays DEF Adapter
  <1>3. CASE RunnerNext
    <2>1. CASE Launch \/ ReceiveStarted \/ SkipFrame \/ StopAtMarker \/ RefuseInput \/ DeliverInput
      BY <2>1, LaunchReplays, ReceiveStartedReplays, SkipFrameReplays, StopAtMarkerReplays,
         RefuseInputReplays, DeliverInputReplays
    <2>2. CASE ReceiveEffect \/ ReceiveProgress \/ ReceiveStepped \/ SendFinish
      BY <2>2, ReceiveEffectReplays, ReceiveProgressReplays, ReceiveSteppedReplays, SendFinishReplays
    <2>3. CASE ReceiveLate \/ ReceiveFinished \/ Conclude \/ GiveUp
      BY <2>3, ReceiveLateReplays, ReceiveFinishedReplays, ConcludeReplays, GiveUpReplays
    <2>. QED  BY <1>3, <2>1, <2>2, <2>3 DEF RunnerNext
  <1>4. CASE UNCHANGED vars
    BY <1>4, SelfRests DEF vars
  <1>. QED  BY <1>1, <1>2, <1>3, <1>4 DEF Next

-----------------------------------------------------------------------------
\* IInv is an invariant of the specification: record and replay of runner.rs keep
\* their recording, cursor, counters and replayed stream in step.
THEOREM Invariance == Spec => []IInv
  BY InitHolds, NextKeeps, PTL DEF Spec

\* What record (fixture.rs) closes and what replay (runner.rs) concludes with are
\* streams decode_stream accepts, for every script and whatever the adapter does.
THEOREM StreamsAreRecordings == Spec => []StreamsDecode
  <1>1. IInv => StreamsDecode
    <2>. SUFFICES ASSUME IInv PROVE StreamsDecode
      OBVIOUS
    <2>1. ASSUME phase \notin {"recording", "bailed"} PROVE WellFormed(recording)
      <3>1. Closed(recording)
        BY <2>1 DEF IInv, RecordingInv, Recording
      <3>2. IsSeq(recording) /\ Len(recording) \in Nat /\ Len(recording) >= 2
        BY <3>1, SeqShape DEF Closed, Begun
      <3>3. Len(recording) >= 1
        BY <3>2
      <3>. QED  BY <3>1, <3>2, <3>3, Decodes DEF Closed, Begun
    <2>. QED  BY <2>1 DEF IInv, StreamsDecode
  <1>. QED  BY <1>1, Invariance, PTL

(***************************************************************************)
(* The responses that are delivered have their requests in the run.        *)
(***************************************************************************)
\* The responses of a stream that stays, or of which the last frame is taken back,
\* still have their requests before them.
LEMMA AnswersStay ==
    ASSUME AnswersThisRun, recording' = recording, run'.frames = run.frames
    PROVE  AnswersThisRun'
  BY DEF AnswersThisRun

\* A frame more: a response has its request among the frames before it.
LEMMA AnswersMore ==
    ASSUME IInv, Started, AnswersThisRun, recording' = recording, NEW g,
           run'.frames = Append(run.frames, g),
           NamesRequest(g) => /\ g.ordinal = Len(run.frames)
                              /\ \E r \in ToSet(recording) : /\ r.ordinal = g.body.request
                                                             /\ r.src = COMPONENT_ACTOR_ID
                                                             /\ Equivalent(r)
    PROVE  AnswersThisRun'
  <1>1. ToSet(run'.frames) = ToSet(run.frames) \cup {g}
    BY Framed, Appended
  <1>2. \A e \in ToSet(run.frames) : e.ordinal < Len(run.frames)
    BY Framed
  <1>3. ASSUME NamesRequest(g)
        PROVE  \E r \in ToSet(recording), e \in ToSet(run.frames) :
                  /\ r.ordinal = g.body.request /\ e.ordinal < g.ordinal
                  /\ [envelope(e) EXCEPT !.ordinal = r.ordinal] = envelope(r)
    <2>1. PICK r \in ToSet(recording) : /\ r.ordinal = g.body.request
                                        /\ r.src = COMPONENT_ACTOR_ID /\ Equivalent(r)
      BY <1>3
    <2>2. PICK e \in Issued(r) : /\ e.dst = r.dst /\ e.type = r.type /\ e.flags = r.flags
                                 /\ e.body = r.body
      BY <2>1 DEF Equivalent
    <2>3. e \in ToSet(run.frames) /\ e.src = r.src /\ e.channel = r.channel /\ e.seq = r.seq
      BY <2>1, <2>2 DEF Issued
    <2>4. [envelope(e) EXCEPT !.ordinal = r.ordinal] = envelope(r)
      BY <2>2, <2>3 DEF envelope
    <2>. QED  BY <1>2, <1>3, <2>1, <2>3, <2>4
  <1>. QED  BY <1>1, <1>3 DEF AnswersThisRun

\* A frame that is no response.
LEMMA AnswersPushed ==
    ASSUME IInv, Started, AnswersThisRun, recording' = recording, NEW f, NEW n,
           f.type \in EffectTypes \cup {"Session"}, IsFrame(f),
           run'.frames = push(run.frames, f)
    PROVE  AnswersThisRun'
  <1>. DEFINE g == [f EXCEPT !.ordinal = Len(run.frames), !.observed_ns = 0]
  <1>1. g.type = f.type
    BY DEF IsFrame, FrameFields
  <1>2. run'.frames = Append(run.frames, g)
    BY DEF push
  <1>. HIDE DEF g
  <1>3. ~NamesRequest(g)
    BY <1>1 DEF NamesRequest, EffectTypes
  <1>. QED  BY <1>2, <1>3, AnswersMore

\* An effect that the runner has accepted is pushed.
LEMMA AnswersEffect ==
    ASSUME IInv, Started, AnswersThisRun, recording' = recording, NEW l, EffectAllowed(l),
           run'.frames = push(run.frames, EffectFrame(l.effect))
    PROVE  AnswersThisRun'
  <1>. DEFINE f == EffectFrame(l.effect)
  <1>1. IsFrame(f) /\ f.type = l.effect.type
    BY FrameMade DEF EffectFrame, Made
  <1>2. l.effect.type \in EffectTypes
    BY DEF EffectAllowed, validate_event, channels, EffectTypes
  <1>. HIDE DEF f
  <1>3. f.type \in EffectTypes \cup {"Session"}
    BY <1>1, <1>2
  <1>. QED  BY <1>1, <1>3, AnswersPushed DEF f

LEMMA DeliverInputAsked == ASSUME IInv, AnswersThisRun, DeliverInput PROVE AnswersThisRun'
  <1>. DEFINE refs == IF NamesRequest(Recorded) THEN request_ref(Recorded) ELSE {}
  <1>1. phase = "delivering" /\ Started
    BY DEF DeliverInput, Started
  <1>2. CASE Fail
    BY <1>2, AnswersStay DEF Fail, Abort, Goto, runner
  <1>3. CASE ~Fail
    <2>1. /\ recording' = recording /\ run' = [run EXCEPT !.frames = push(@, Recorded)]
          /\ \A r \in refs : Equivalent(r)
          /\ ~(NamesRequest(Recorded) /\ refs = {})
      BY <1>3 DEF DeliverInput, Goto
    <2>2. run'.frames = push(run.frames, Recorded)
      BY <1>1, <2>1, Framed DEF IsRun, RunFields
    <2>. DEFINE g == [Recorded EXCEPT !.ordinal = Len(run.frames), !.observed_ns = 0]
    <2>3. g.ordinal = Len(run.frames) /\ g.type = Recorded.type /\ g.body = Recorded.body
      <3>1. Sound(Recorded)
        BY <1>1, Reading DEF FitsAt, Recorded
      <3>2. g.ordinal = Len(run.frames) /\ Relabelled(g, Recorded)
        BY <3>1, PushMade
      <3>. HIDE DEF g
      <3>. QED  BY <3>2 DEF Relabelled
    <2>4. run'.frames = Append(run.frames, g)
      BY <2>2 DEF push
    <2>. HIDE DEF g
    <2>5. ASSUME NamesRequest(g)
          PROVE  \E r \in ToSet(recording) : /\ r.ordinal = g.body.request
                                             /\ r.src = COMPONENT_ACTOR_ID /\ Equivalent(r)
      <3>1. PICK r \in request_ref(Recorded) : Equivalent(r)
        BY <2>1, <2>3, <2>5 DEF NamesRequest
      <3>. QED  BY <2>3, <3>1 DEF request_ref
    <2>. QED  BY <1>1, <2>1, <2>3, <2>4, <2>5, AnswersMore
  <1>. QED  BY <1>2, <1>3

LEMMA ReceiveEffectAsked == ASSUME IInv, AnswersThisRun, ReceiveEffect PROVE AnswersThisRun'
  <1>. DEFINE now == WithEffect(Line)
  <1>1. phase = "stepping" /\ Started
    BY DEF ReceiveEffect, Started
  <1>2. CASE Fail
    BY <1>2, AnswersStay DEF Fail, Abort, Goto, runner
  <1>3. CASE ~Fail
    <2>1. /\ EffectAllowed(Line) /\ run'.frames = now.frames
          /\ recording' = recording
      <3>1. /\ EffectAllowed(Line)
            /\ run' = now \/ \E steps : run' = [now EXCEPT !.steps = steps]
            /\ recording' = recording
        BY <1>3 DEF ReceiveEffect, Goto, recorder
      <3>2. now.frames = push(run.frames, EffectFrame(Line.effect)) /\ IsRun(now)
        BY <1>1, Framed DEF WithEffect, IsRun, RunFields
      <3>. HIDE DEF now
      <3>. QED  BY <3>1, <3>2 DEF IsRun, RunFields
    <2>2. now.frames = push(run.frames, EffectFrame(Line.effect))
      BY <1>1, Framed DEF WithEffect, IsRun, RunFields
    <2>. QED  BY <1>1, <2>1, <2>2, AnswersEffect
  <1>. QED  BY <1>2, <1>3

LEMMA ReceiveLateAsked == ASSUME IInv, AnswersThisRun, ReceiveLate PROVE AnswersThisRun'
  <1>1. phase = "finishing" /\ Started
    BY DEF ReceiveLate, Started
  <1>2. CASE Fail
    BY <1>2, AnswersStay DEF Fail, Abort, Goto, runner
  <1>3. CASE ~Fail
    <2>1. /\ recording' = recording
          /\ run' = CASE Line.line = "effect" -> WithEffect(Line)
                      [] Line.line = "stepped" -> [run EXCEPT !.pending_after = Line.pending]
                      [] OTHER -> run
          /\ Line.line = "effect" => EffectAllowed(Line)
      BY <1>3 DEF ReceiveLate, recorder
    <2>2. IsRun(run)
      BY <1>1, Framed
    <2>3. CASE Line.line = "effect"
      <3>1. run'.frames = push(run.frames, EffectFrame(Line.effect))
        BY <2>1, <2>2, <2>3 DEF WithEffect, IsRun, RunFields
      <3>. QED  BY <1>1, <2>1, <2>3, <3>1, AnswersEffect
    <2>4. CASE Line.line # "effect"
      <3>1. run'.frames = run.frames
        BY <2>1, <2>2, <2>4 DEF IsRun, RunFields
      <3>. QED  BY <2>1, <3>1, AnswersStay
    <2>. QED  BY <2>3, <2>4
  <1>. QED  BY <1>2, <1>3

LEMMA ReceiveSteppedAsked == ASSUME IInv, AnswersThisRun, ReceiveStepped PROVE AnswersThisRun'
  <1>1. phase = "stepping" /\ Started
    BY DEF ReceiveStepped, Started
  <1>2. CASE Fail
    BY <1>2, AnswersStay DEF Fail, Abort, Goto, runner
  <1>3. CASE ~Fail
    <2>1. IsRun(run) /\ recording' = recording
      BY <1>1, <1>3, Framed DEF ReceiveStepped, Goto
    <2>2. run'.frames = IF Line.status = "Refused" THEN Front(run.frames) ELSE run.frames
      BY <1>3, <2>1 DEF ReceiveStepped, IsRun, RunFields
    <2>3. CASE Line.status = "Refused"
      <3>. DEFINE n == Len(run.frames)
                  w == run.frames[n]
      <3>1. Streams(run.frames) /\ IsSeq(run.frames) /\ n \in Nat
        BY <1>1, Framed
      <3>2. n # 0 /\ n \in 1..n
        BY <1>1, <3>1, Stepping DEF InWork
      <3>3. ToSet(run.frames) = ToSet(run'.frames) \cup {w}
        BY <2>2, <2>3, <3>1, <3>2, FrontShape
      <3>4. w.ordinal = n - 1
        BY <3>1, <3>2 DEF Streams, FitsAt
      <3>. HIDE DEF w
      <3>5. \A f \in ToSet(run.frames) : f.ordinal \in Nat /\ f.ordinal < n
        BY <1>1, Framed DEF Ordered
      <3>6. \A f, g \in ToSet(run.frames) : g.ordinal < f.ordinal => g # w
        BY <3>1, <3>4, <3>5
      <3>. QED  BY <2>1, <3>3, <3>6 DEF AnswersThisRun
    <2>4. CASE Line.status # "Refused"
      BY <2>1, <2>2, <2>4, AnswersStay
    <2>. QED  BY <2>3, <2>4
  <1>. QED  BY <1>2, <1>3

LEMMA SkipFrameAsked == ASSUME IInv, AnswersThisRun, SkipFrame PROVE AnswersThisRun'
  <1>1. Started /\ IsRun(run) /\ recording' = recording
    BY Framed DEF SkipFrame, Started, recorder
  <1>2. CASE Recorded.type = "Session"
    <2>1. run'.frames = push(run.frames, Recorded)
      BY <1>1, <1>2 DEF SkipFrame, IsRun, RunFields
    <2>2. IsFrame(Recorded)
      BY <1>1, Reading DEF FitsAt, Sound, Recorded
    <2>. QED  BY <1>1, <1>2, <2>1, <2>2, AnswersPushed
  <1>3. CASE Recorded.type # "Session"
    BY <1>1, <1>3, AnswersStay DEF SkipFrame
  <1>. QED  BY <1>2, <1>3

LEMMA ConcludeAsked == ASSUME IInv, AnswersThisRun, Conclude PROVE AnswersThisRun'
  <1>1. Started
    BY DEF Conclude, Started
  <1>2. CASE Fail
    BY <1>2, AnswersStay DEF Fail, Abort, Goto, runner
  <1>3. CASE ~Fail
    <2>. DEFINE m == EndMarker(Len(run.frames), session_sequence)
                g == [m EXCEPT !.observed_ns = 0]
    <2>1. recording' = recording /\ run' = [run EXCEPT !.frames = Append(@, g)]
      BY <1>3 DEF Conclude, Goto
    <2>2. g.type = "End"
      <3>1. IsFrame(m) /\ m.type = "End"
        BY FrameMade DEF EndMarker, session_frame, Made
      <3>. HIDE DEF m
      <3>. QED  BY <3>1 DEF IsFrame, FrameFields
    <2>. HIDE DEF g
    <2>3. run'.frames = Append(run.frames, g)
      BY <1>1, <2>1, Framed DEF IsRun, RunFields
    <2>. QED  BY <1>1, <2>1, <2>2, <2>3, AnswersMore DEF NamesRequest
  <1>. QED  BY <1>2, <1>3

\* The other steps leave frames and recording alone, or are before there is a run.
LEMMA NextAsked == IInv /\ IInv' /\ AnswersThisRun /\ [Next]_vars => AnswersThisRun'
  <1>. SUFFICES ASSUME IInv, IInv', AnswersThisRun, [Next]_vars PROVE AnswersThisRun'
    OBVIOUS
  <1>1. CASE recording' = recording /\ run'.frames = run.frames
    BY <1>1, AnswersStay
  <1>2. CASE ~Started' /\ ~Over'
    <2>1. run'.frames = <<>>
      BY <1>2 DEF IInv, CursorInv, Fresh
    <2>2. ToSet(<<>>) = {}
      BY DEF ToSet
    <2>. QED  BY <2>1, <2>2 DEF AnswersThisRun
  <1>3. CASE Record
    <2>1. phase = "recording" /\ run' = run
      BY <1>3 DEF Record, runner, RecordNext, ServeCommand, ServeClock, ServeGoalResponse,
                  ServeResult, ServeCancelResponse, Serve, RecordGap, RecordEnd
    <2>2. Written(recording, counters)
      BY <2>1 DEF IInv, RecordingInv, Recording
    <2>3. phase' \in {"recording", "bailed", "closed"}
      BY <1>3, <2>2, RecordKeeps DEF Record
    <2>. QED  BY <1>2, <2>3 DEF Started, Over
  <1>4. CASE Adapter \/ UNCHANGED vars
    BY <1>1, <1>4 DEF Adapter, recorder, runner, vars
  <1>5. CASE Launch \/ ReceiveStarted \/ StopAtMarker \/ RefuseInput \/ ReceiveProgress
             \/ SendFinish \/ ReceiveFinished \/ GiveUp
    <2>1. IsRun(run)
      BY DEF IInv, CursorInv
    <2>2. recording' = recording
      BY <1>5 DEF Launch, ReceiveStarted, StopAtMarker, RefuseInput, ReceiveProgress, SendFinish,
                  ReceiveFinished, GiveUp, Fail, Abort, Goto, recorder
    <2>3. run'.frames = run.frames
      <3>1. CASE Launch \/ ReceiveStarted \/ ReceiveProgress \/ GiveUp
        BY <3>1 DEF Launch, ReceiveStarted, ReceiveProgress, GiveUp, Fail, Abort, runner
      <3>2. CASE StopAtMarker \/ RefuseInput \/ SendFinish
        BY <2>1, <3>2 DEF StopAtMarker, RefuseInput, SendFinish, IsRun, RunFields
      <3>3. CASE ReceiveFinished
        BY <2>1, <3>3 DEF ReceiveFinished, Fail, Abort, runner, IsRun, RunFields
      <3>. QED  BY <1>5, <3>1, <3>2, <3>3
    <2>. QED  BY <1>1, <2>2, <2>3
  <1>. QED
    BY <1>3, <1>4, <1>5, SkipFrameAsked, DeliverInputAsked, ReceiveEffectAsked, ReceiveSteppedAsked,
       ReceiveLateAsked, ConcludeAsked DEF Next, RunnerNext

LEMMA InitAsked == Init => AnswersThisRun
  <1>. SUFFICES ASSUME Init PROVE AnswersThisRun
    OBVIOUS
  <1>1. run.frames = <<>>
    BY DEF Init
  <1>2. ToSet(<<>>) = {}
    BY DEF ToSet
  <1>. QED  BY <1>1, <1>2 DEF AnswersThisRun

\* The evidence of a run is the recorded inputs up to where the delivery stopped:
\* replay (runner.rs) skips none, uses none past a gap and takes a refused one
\* back out; and a response in it answers a request of this run (request_ref and the
\* check behind it); also when the adapter dies or breaks the protocol on the way.
THEOREM EvidenceBegins == Spec => []EvidenceBelongs
  <1>1. IInv => EvidenceIsPrefix
    <2>. SUFFICES ASSUME IInv PROVE EvidenceIsPrefix
      OBVIOUS
    <2>1. CASE Over
      BY <2>1 DEF IInv
    <2>2. CASE Started \/ phase = "starting"
      <3>1. Evidence(recording, run.frames, run.steps)
        BY <2>2, Evident
      <3>. QED  BY <3>1 DEF Evidence, EvidenceIsPrefix
    <2>3. CASE ~Started /\ ~Over
      <3>1. run.frames = <<>> /\ run.steps = <<>> /\ IsSeq(recording)
        BY <2>3, SeqShape DEF IInv, CursorInv, Fresh, RecordingInv, Written, Closed, Begun
      <3>2. Begins(InputsTo(recording, 0), Inputs(recording))
        BY <3>1, InputsBegin, SeqShape
      <3>3. Inputs(run.frames) = <<>> /\ ToSet(run.steps) = {}
        BY <3>1, InputsEmpty DEF ToSet
      <3>4. Len(Inputs(recording)) \in Nat
        BY <3>2, SeqShape DEF Begins
      <3>. QED  BY <3>3, <3>4, EmptyShape DEF EvidenceIsPrefix
    <2>. QED  BY <2>1, <2>2, <2>3
  <1>2. Init => IInv /\ AnswersThisRun
    BY InitHolds, InitAsked
  <1>3. (IInv /\ AnswersThisRun) /\ [Next]_vars => (IInv /\ AnswersThisRun)'
    BY NextKeeps, NextAsked
  <1>4. IInv /\ AnswersThisRun => EvidenceBelongs
    BY <1>1 DEF EvidenceBelongs
  <1>. QED  BY <1>2, <1>3, <1>4, PTL DEF Spec

\* The answers of replay (runner.rs) and what is on its way to it stay in step with
\* the build that runs: AnswerInv, with IInv, is an invariant of the specification.
THEOREM AnswerInvariance == Spec => [](IInv /\ AnswerInv)
  <1>1. Init => IInv /\ AnswerInv
    BY InitHolds, InitAnswers
  <1>2. (IInv /\ AnswerInv) /\ [Next]_vars => (IInv /\ AnswerInv)'
    BY NextKeeps, NextAnswers
  <1>. QED  BY <1>1, <1>2, PTL DEF Spec

\* An answer that ends a candidate's delivery early (evaluate in replay, runner.rs) is
\* the one the property program (property.rs) gives of the complete evidence, the lines
\* that were still on their way included; whatever the script, the build and the point
\* where the adapter is cut short.
THEOREM EarlyVerdictsAreFinal == Spec => []EarlyVerdictIsFinal
  <1>1. AnswerInv => EarlyVerdictIsFinal
    BY DEF AnswerInv, EarlyVerdictIsFinal
  <1>. QED  BY <1>1, AnswerInvariance, PTL

\* The property program (property.rs) tells the builds apart, whatever recording is
\* replayed and wherever it ends: only the fixed build passes timeout_cancel and it never
\* fails it, and only the old and the fixed one pass timely_ack.
THEOREM VerdictsMatchBuilds == Spec => []VerdictMatchesBuild
  <1>1. AnswerInv => VerdictMatchesBuild
    BY DEF AnswerInv, VerdictMatchesBuild
  <1>. QED  BY <1>1, AnswerInvariance, PTL

\* The build that made a recording reproduces it: replay (runner.rs) of what record
\* (fixture.rs) wrote is never refused and has its envelopes, all of them when the run
\* goes to the end, up to the gap or the early answer otherwise; for every script.
THEOREM RecordedBuildReproduces == Spec => []SelfReplay
  <1>. DEFINE Inv == IInv /\ AnswerInv /\ SelfInv
  <1>1. Init => Inv
    BY InitHolds, InitAnswers, InitReplays
  <1>2. Inv /\ [Next]_vars => Inv'
    BY NextKeeps, NextAnswers, NextReplays
  <1>3. Inv => SelfReplay
    BY DEF SelfInv
  <1>. HIDE DEF Inv
  <1>. QED  BY <1>1, <1>2, <1>3, PTL DEF Spec
=============================================================================
