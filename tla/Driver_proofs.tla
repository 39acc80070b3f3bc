---------------------------- MODULE Driver_proofs ----------------------------
(***************************************************************************)
(* Proofs about the reference driver, for every recording and every        *)
(* adapter: what a run that is returned consists of.                       *)
(*                                                                         *)
(* The argument: the recording is well formed (Recorded frames count their *)
(* sources), and at every moment of the replay the stream holds the inputs *)
(* the cursor has passed, each once (Passed).  So a source other than the  *)
(* component has sent as many frames in the run as in the recording up to  *)
(* the cursor (Counted), and a recorded sequence number fits the run.      *)
(***************************************************************************)
EXTENDS Driver, Subsequences_proofs, TLAPS

InputTypes == {"StartingState", "Message", "Clock", "GoalResponse"}
UsedTypes == {"Session", "GoalSend", "Gap", "End"} \cup InputTypes
WireBody ==
    {[uuid |-> 1], [lost_known |-> TRUE]} \cup {[uuid |-> 1, frame_count |-> n] : n \in Nat}
    \cup {[value |-> b] : b \in Bodies} \cup {[callback |-> n] : n \in Nat}
    \cup {[request |-> n] : n \in Nat}

\* Frames of a recording or of a run.
Wire == [ordinal : Nat, src : Nat, dst : Nat, channel : Nat, seq : Nat, type : UsedTypes,
         kind : {"Marker", "Deliver", "Emit", "Gap"}, flags : {{}}, body : WireBody,
         damage : {"none"}]

\* Frames of a source among the first n.
CountUpTo(s, n, source) == Cardinality({j \in 1..n : Source(s[j]) = source})

\* What holds of every frame of a recording and of a run.
FitsAt(s, i) ==
    /\ s[i] \in Wire /\ s[i].kind = kind(s[i].type) /\ s[i].ordinal = i - 1
    /\ s[i].seq = CountUpTo(s, i - 1, Source(s[i])) /\ HasMarkerTuple(s[i])
    /\ s[i].type = "Session" <=> i = 1
    /\ s[i].type = "GoalSend" <=> s[i].src = COMPONENT_ACTOR_ID
    /\ s[i].type = "GoalSend" => s[i].channel \in Channels

\* The recording: well formed, a clock names an earlier input, the end is the last.
RecordingInv ==
    /\ recording \in Seq(Wire) /\ Len(recording) >= 2
    /\ \A i \in 1..Len(recording) : FitsAt(recording, i)
    /\ recording[1].body = [uuid |-> 1]
    /\ \A i \in 1..Len(recording) : recording[i].type = "Clock" =>
          \E j \in 1..(i - 1) : /\ recording[j].type \in InputTypes
                                /\ recording[i].body.callback = j - 1
    /\ \A i \in 1..Len(recording) : recording[i].type = "GoalResponse" => recording[i].body.request \in Nat
    /\ \A i \in 1..Len(recording) :
          recording[i].type = "End" <=> phase # "recording" /\ i = Len(recording)

Started == phase \in {"delivering", "stepping", "finishing"}

\* The recorded frames the replay has put behind it or has in work.
Reached == IF phase = "stepping" THEN cursor ELSE cursor - 1

CursorInv ==
    /\ phase \in {"recording", "starting", "delivering", "stepping", "finishing", "done", "error"}
    /\ cursor \in 1..Len(recording)
    /\ \A j \in 1..(cursor - 1) : recording[j].type \notin {"Gap", "End"}
    /\ phase \in {"recording", "starting"} =>
          cursor = 1 /\ frames = <<>> /\ steps = <<>> /\ effects = <<>> /\ session_sequence = 0
          /\ effect_sequences = [c \in Channels |-> 0]
    /\ phase = "delivering" /\ cursor = 1 => frames = <<>>
    /\ phase \in {"stepping", "finishing"} => cursor > 1

\* The stream so far is well formed, with no gap and no end in it.
StreamInv ==
    Started => /\ frames \in Seq(Wire)
               /\ \A i \in 1..Len(frames) : FitsAt(frames, i) /\ frames[i].type \notin {"Gap", "End"}
               /\ cursor > 1 => frames # <<>> /\ frames[1].body = [uuid |-> 1]

\* Sources count in the run as in the recording, the component by its counters.
Counted ==
    Started => /\ \A source \in (Nat \ {COMPONENT_ACTOR_ID}) \X Nat :
                    CountUpTo(frames, Len(frames), source) = CountUpTo(recording, Reached, source)
               /\ effect_sequences \in [Channels -> Nat]
               /\ \A c \in Channels :
                    CountUpTo(frames, Len(frames), <<COMPONENT_ACTOR_ID, c>>) = effect_sequences[c]
               /\ session_sequence = CountUpTo(recording, cursor - 1, SessionSource)

\* The input in work is in the stream and only effects follow it.
InWork(p) ==
    /\ frames[p] = [recording[cursor] EXCEPT !.ordinal = p - 1]
    /\ \A j \in (p + 1)..Len(frames) : frames[j].type = "GoalSend"
Working ==
    phase = "stepping" =>
        recording[cursor].type \in InputTypes /\ \E p \in 1..Len(frames) : InWork(p)

\* The inputs of the run are the recorded ones that were reached.
Passed == Started => InputsOf(frames) = InputsOf(SubSeq(recording, 1, Reached))

\* A step: the recorded ordinal, and the replayed one unless it was refused.
StepPair == Nat \X (Nat \cup {Nothing})

\* One of the steps started the callback c before the frame n.
StartedBy(s, c, n) == \E i \in 1..Len(s) : s[i][1] = c /\ s[i][2] \in Nat /\ s[i][2] < n

\* Every input the cursor has passed was a step; every effect has a cause, the
\* input in work at the least; every authorized callback has one.
Caused ==
    /\ steps \in Seq(StepPair) /\ effects \in Seq(Nat \X Nat)
    /\ phase \in {"delivering", "stepping"} =>
        /\ \A j \in 1..(cursor - 1) : recording[j].type \in InputTypes => StartedBy(steps, j - 1, Len(frames))
        /\ \A i \in 1..Len(effects) : effects[i][2] < Len(frames)
    /\ phase = "stepping" =>
        /\ authorized \subseteq Nat
        /\ \A p \in 1..Len(frames) : InWork(p) =>
            /\ \A c \in authorized : c = cursor - 1 \/ StartedBy(steps, c, p)
            /\ \A i \in 1..Len(effects) :
                  \/ StartedBy(steps, effects[i][1], effects[i][2])
                  \/ effects[i][1] = cursor - 1 /\ effects[i][2] >= p
    /\ phase \in {"delivering", "finishing", "done"} =>
        \A i \in 1..Len(effects) : StartedBy(steps, effects[i][1], effects[i][2])

Done == phase = "done" =>
    WellFormed(frames) /\ InputsOf(frames) = InputsOf(SubSeq(recording, 1, cursor - 1))

IInv == /\ RecordingInv /\ CursorInv /\ StreamInv /\ Counted /\ Working /\ Passed /\ Caused
        /\ (phase # "recording" => ResponsesAnswerThisRun) /\ Done

-----------------------------------------------------------------------------
(***************************************************************************)
(* Frames.                                                                 *)
(***************************************************************************)
\* The kinds of the types that occur.
LEMMA Kinds ==
    ASSUME NEW f, f.type \in UsedTypes
    PROVE  /\ IsEmit(f) <=> f.type = "GoalSend"
           /\ IsInput(f) <=> f.type \in InputTypes
           /\ kind(f.type) \in {"Marker", "Deliver", "Emit", "Gap"}
  BY DEF UsedTypes, InputTypes, IsInput, IsEmit, kind, MarkerTypes, DeliverTypes, EmitTypes

LEMMA WireFields ==
    ASSUME NEW f \in Wire
    PROVE  /\ f.ordinal \in Nat /\ f.src \in Nat /\ f.dst \in Nat /\ f.channel \in Nat
           /\ f.seq \in Nat /\ f.type \in UsedTypes /\ f.body \in WireBody
           /\ f.flags = {} /\ f.damage = "none" /\ Source(f) \in Nat \X Nat
           /\ Source(f)[1] = f.src /\ Source(f)[2] = f.channel
  <1>. HIDE DEF UsedTypes, WireBody
  <1>. QED  BY DEF Wire, Source

\* A frame under another ordinal is otherwise the same.
LEMMA Renumbered ==
    ASSUME NEW f \in Wire, NEW n \in Nat
    PROVE  LET g == [f EXCEPT !.ordinal = n] IN
           /\ g \in Wire /\ g.ordinal = n /\ Unnumbered(g) = Unnumbered(f)
           /\ g.src = f.src /\ g.dst = f.dst /\ g.channel = f.channel /\ g.seq = f.seq
           /\ g.type = f.type /\ g.kind = f.kind /\ g.body = f.body /\ Source(g) = Source(f)
           /\ HasMarkerTuple(g) <=> HasMarkerTuple(f)
  <1>. DEFINE g == [f EXCEPT !.ordinal = n]
  <1>1. /\ g \in Wire /\ g.ordinal = n
        /\ g.src = f.src /\ g.dst = f.dst /\ g.channel = f.channel /\ g.seq = f.seq
        /\ g.type = f.type /\ g.kind = f.kind /\ g.body = f.body
    BY DEF Wire
  <1>2. Unnumbered(g) = Unnumbered(f)
    BY DEF Wire, Unnumbered
  <1>. HIDE DEF g
  <1>3. Source(g) = Source(f) /\ (HasMarkerTuple(g) <=> HasMarkerTuple(f))
    BY <1>1 DEF Source, HasMarkerTuple
  <1>. QED  BY <1>1, <1>2, <1>3 DEF g

\* Frames that say the same differ in their ordinals only.
LEMMA SameFrame ==
    ASSUME NEW f \in Wire, NEW g \in Wire, f.src = g.src, f.dst = g.dst, f.channel = g.channel,
           f.seq = g.seq, f.type = g.type, f.body = g.body, f.kind = g.kind
    PROVE  Unnumbered(f) = Unnumbered(g)
  BY DEF Wire, Unnumbered

\* What Frame makes is one.
Sources == Nat \X Nat
Made(f, n, source, dst, seq, type, body) ==
    /\ f \in Wire /\ f.ordinal = n /\ f.src = source[1] /\ f.dst = dst
    /\ f.channel = source[2] /\ f.seq = seq /\ f.type = type /\ f.kind = kind(type)
    /\ f.body = body /\ Source(f) = source

LEMMA FrameIsWire ==
    ASSUME NEW n \in Nat, NEW source \in Sources, NEW dst \in Nat, NEW seq \in Nat,
           NEW type \in UsedTypes, NEW body \in WireBody
    PROVE  Made(Frame(n, source, dst, seq, type, body), n, source, dst, seq, type, body)
  <1>. DEFINE f == Frame(n, source, dst, seq, type, body)
  <1>0. kind(type) \in {"Marker", "Deliver", "Emit", "Gap"}
    BY DEF UsedTypes, InputTypes, kind, MarkerTypes, DeliverTypes, EmitTypes
  <1>. HIDE DEF UsedTypes, WireBody, kind
  <1>1. /\ f \in Wire /\ f.ordinal = n /\ f.src = source[1] /\ f.dst = dst
        /\ f.channel = source[2] /\ f.seq = seq /\ f.type = type /\ f.kind = kind(type)
        /\ f.body = body
    BY <1>0 DEF Frame, Wire, Sources
  <1>2. source = <<source[1], source[2]>>
    BY DEF Sources
  <1>3. Source(f) = source
    BY <1>1, <1>2 DEF Source
  <1>. QED  BY <1>1, <1>3 DEF Made

LEMMA BodiesUsed ==
    /\ [uuid |-> 1] \in WireBody /\ [lost_known |-> TRUE] \in WireBody
    /\ \A n \in Nat : [uuid |-> 1, frame_count |-> n] \in WireBody
    /\ \A b \in Bodies : [value |-> b] \in WireBody
    /\ \A n \in Nat : [callback |-> n] \in WireBody
    /\ \A n \in Nat : [request |-> n] \in WireBody
  BY DEF WireBody

(***************************************************************************)
(* Counting the frames of a source.                                        *)
(***************************************************************************)
LEMMA CountType ==
    ASSUME NEW s, NEW n \in Nat, NEW source
    PROVE  /\ IsFiniteSet({j \in 1..n : Source(s[j]) = source})
           /\ CountUpTo(s, n, source) \in Nat
  <1>1. IsFiniteSet(1..n)
    BY FS_Interval
  <1>2. {j \in 1..n : Source(s[j]) = source} \subseteq 1..n
    OBVIOUS
  <1>. QED  BY <1>1, <1>2, FS_Subset, FS_CardinalityType DEF CountUpTo

LEMMA CountZero == ASSUME NEW s, NEW source PROVE CountUpTo(s, 0, source) = 0
  <1>1. {j \in 1..0 : Source(s[j]) = source} = {}
    OBVIOUS
  <1>. QED  BY <1>1, FS_EmptySet DEF CountUpTo

LEMMA CountStep ==
    ASSUME NEW s, NEW n \in Nat, NEW source
    PROVE  CountUpTo(s, n + 1, source) = IF Source(s[n + 1]) = source
                                         THEN CountUpTo(s, n, source) + 1
                                         ELSE CountUpTo(s, n, source)
  <1>. DEFINE T(k) == {j \in 1..k : Source(s[j]) = source}
  <1>1. IsFiniteSet(T(n))
    BY CountType
  <1>2. 1..(n + 1) = 1..n \cup {n + 1} /\ n + 1 \notin 1..n
    OBVIOUS
  <1>3. CASE Source(s[n + 1]) = source
    <2>1. T(n + 1) = T(n) \cup {n + 1} /\ n + 1 \notin T(n)
      BY <1>2, <1>3
    <2>. QED  BY <1>1, <1>3, <2>1, FS_AddElement DEF CountUpTo
  <1>4. CASE Source(s[n + 1]) # source
    <2>1. T(n + 1) = T(n)
      BY <1>2, <1>4
    <2>. QED  BY <1>4, <2>1 DEF CountUpTo
  <1>. QED  BY <1>3, <1>4

LEMMA CountSame ==
    ASSUME NEW s, NEW t, NEW n \in Nat, NEW source, \A j \in 1..n : s[j] = t[j]
    PROVE  CountUpTo(s, n, source) = CountUpTo(t, n, source)
  <1>1. {j \in 1..n : Source(s[j]) = source} = {j \in 1..n : Source(t[j]) = source}
    OBVIOUS
  <1>. QED  BY <1>1 DEF CountUpTo

\* A frame more: its source counts one more.
LEMMA CountAppend ==
    ASSUME NEW s \in Seq(Wire), NEW f \in Wire, NEW source
    PROVE  CountUpTo(Append(s, f), Len(s) + 1, source) =
               IF Source(f) = source THEN CountUpTo(s, Len(s), source) + 1
               ELSE CountUpTo(s, Len(s), source)
  <1>. DEFINE t == Append(s, f)
  <1>1. Len(s) \in Nat /\ t[Len(s) + 1] = f /\ \A j \in 1..Len(s) : t[j] = s[j]
    OBVIOUS
  <1>. HIDE DEF t
  <1>2. CountUpTo(t, Len(s), source) = CountUpTo(s, Len(s), source)
    BY <1>1, CountSame
  <1>3. CountUpTo(t, Len(s) + 1, source) = IF Source(t[Len(s) + 1]) = source
                                           THEN CountUpTo(t, Len(s), source) + 1
                                           ELSE CountUpTo(t, Len(s), source)
    BY <1>1, CountStep
  <1>4. CountUpTo(t, Len(s) + 1, source) = IF Source(f) = source
                                           THEN CountUpTo(s, Len(s), source) + 1
                                           ELSE CountUpTo(s, Len(s), source)
    BY <1>1, <1>2, <1>3
  <1>. QED  BY <1>4 DEF t

\* A stream whose frames fit grows by a frame that fits the counts.
LEMMA FitsAppend ==
    ASSUME NEW s \in Seq(Wire), NEW f \in Wire, \A i \in 1..Len(s) : FitsAt(s, i),
           f.kind = kind(f.type), f.ordinal = Len(s),
           f.seq = CountUpTo(s, Len(s), Source(f)), HasMarkerTuple(f),
           f.type = "Session" <=> Len(s) = 0,
           f.type = "GoalSend" <=> f.src = COMPONENT_ACTOR_ID,
           f.type = "GoalSend" => f.channel \in Channels
    PROVE  LET t == Append(s, f) IN
           /\ t \in Seq(Wire) /\ Len(t) = Len(s) + 1 /\ t[Len(s) + 1] = f
           /\ \A i \in 1..Len(s) : t[i] = s[i]
           /\ \A i \in 1..Len(t) : FitsAt(t, i)
  <1>. DEFINE t == Append(s, f)
  <1>1. /\ t \in Seq(Wire) /\ Len(t) = Len(s) + 1 /\ t[Len(s) + 1] = f /\ Len(s) \in Nat
        /\ \A i \in 1..Len(s) : t[i] = s[i]
    OBVIOUS
  <1>. HIDE DEF t
  <1>2. ASSUME NEW i \in 1..Len(t) PROVE FitsAt(t, i)
    <2>0. i \in 1..Len(s) \/ i = Len(s) + 1
      BY <1>1
    <2>1. CASE i \in 1..Len(s)
      <3>1. CountUpTo(t, i - 1, Source(s[i])) = CountUpTo(s, i - 1, Source(s[i]))
        <4>. DEFINE m == i - 1
        <4>1. m \in Nat /\ \A j \in 1..m : t[j] = s[j]
          BY <1>1, <2>1
        <4>. HIDE DEF m
        <4>2. CountUpTo(t, m, Source(s[i])) = CountUpTo(s, m, Source(s[i]))
          BY <4>1, CountSame
        <4>. QED  BY <4>2 DEF m
      <3>2. FitsAt(s, i) /\ t[i] = s[i]
        BY <1>1, <2>1
      <3>. QED  BY <3>1, <3>2 DEF FitsAt
    <2>2. CASE i = Len(s) + 1
      <3>1. CountUpTo(t, Len(s), Source(f)) = CountUpTo(s, Len(s), Source(f))
        BY <1>1, CountSame
      <3>2. t[i] = f /\ i - 1 = Len(s) /\ (i = 1 <=> Len(s) = 0)
        BY <1>1, <2>2
      <3>. QED  BY <3>1, <3>2 DEF FitsAt
    <2>. QED  BY <2>0, <2>1, <2>2
  <1>. QED  BY <1>1, <1>2 DEF t

\* A prefix of such a stream is one.
LEMMA FitsPrefix ==
    ASSUME NEW s, NEW t, NEW n \in Nat, \A i \in 1..n : t[i] = s[i], \A i \in 1..n : FitsAt(s, i)
    PROVE  \A i \in 1..n : FitsAt(t, i)
  <1>. TAKE i \in 1..n
  <1>1. i - 1 \in Nat /\ \A j \in 1..(i - 1) : s[j] = t[j]
    OBVIOUS
  <1>2. CountUpTo(t, i - 1, Source(s[i])) = CountUpTo(s, i - 1, Source(s[i]))
    BY <1>1, CountSame
  <1>3. FitsAt(s, i) /\ t[i] = s[i]
    OBVIOUS
  <1>. QED  BY <1>2, <1>3 DEF FitsAt

(***************************************************************************)
(* Inputs.                                                                 *)
(***************************************************************************)
\* The inputs of a stream that grows by a frame.
LEMMA InputsAppend ==
    ASSUME NEW s \in Seq(Wire), NEW f \in Wire
    PROVE  InputsOf(Append(s, f)) = IF f.type \notin {"GoalSend", "End"}
                                    THEN Append(InputsOf(s), Unnumbered(f)) ELSE InputsOf(s)
  <1>. DEFINE t == Append(s, f)
              bare(u) == [i \in DOMAIN u |-> Unnumbered(u[i])]
              I(u) == {i \in DOMAIN u : ~IsEmit(u[i]) /\ u[i].type # "End"}
  <1>1. /\ DOMAIN s = 1..Len(s) /\ DOMAIN t = 1..(Len(s) + 1) /\ Len(s) \in Nat
        /\ t[Len(s) + 1] = f /\ \A k \in 1..Len(s) : t[k] = s[k]
    OBVIOUS
  <1>2. \A g \in Wire : Unnumbered(g) \in Wire
    BY Renumbered DEF Unnumbered
  <1>3. bare(s) \in Seq(Wire) /\ Len(bare(s)) = Len(s)
    <2>1. \A i \in 1..Len(s) : s[i] \in Wire
      BY <1>1
    <2>2. bare(s) \in [1..Len(s) -> Wire]
      BY <1>1, <1>2, <2>1
    <2>. HIDE DEF bare
    <2>. QED  BY <1>1, <2>2, FunctionIsSeq
  <1>4. bare(t) = Append(bare(s), Unnumbered(f))
    <2>. DEFINE a == Append(bare(s), Unnumbered(f))
    <2>0. Unnumbered(f) \in Wire
      BY <1>2
    <2>1. /\ DOMAIN a = 1..(Len(s) + 1) /\ a[Len(s) + 1] = Unnumbered(f)
          /\ \A k \in 1..Len(s) : a[k] = bare(s)[k]
      <3>. HIDE DEF bare
      <3>. QED  BY <1>1, <1>3, <2>0
    <2>2. \A k \in 1..Len(s) : a[k] = Unnumbered(t[k])
      BY <1>1, <2>1
    <2>3. \A k \in 1..(Len(s) + 1) : a[k] = Unnumbered(t[k])
      <3>1. \A k \in 1..(Len(s) + 1) : k \in 1..Len(s) \/ k = Len(s) + 1
        BY <1>1
      <3>. HIDE DEF a, t
      <3>. QED  BY <1>1, <2>1, <2>2, <3>1
    <2>4. a \in Seq(Wire) /\ Len(a) = Len(s) + 1
      <3>. HIDE DEF bare
      <3>. QED  BY <1>3, <2>0, AppendProperties
    <2>5. bare(t) \in Seq(Wire) /\ Len(bare(t)) = Len(s) + 1
      <3>1. \A i \in 1..(Len(s) + 1) : t[i] \in Wire
        BY <1>1
      <3>2. bare(t) \in [1..(Len(s) + 1) -> Wire]
        BY <1>1, <1>2, <3>1
      <3>. HIDE DEF bare
      <3>. QED  BY <1>1, <3>2, FunctionIsSeq
    <2>6. \A k \in 1..(Len(s) + 1) : bare(t)[k] = a[k]
      BY <1>1, <2>3
    <2>. HIDE DEF a, t, bare
    <2>. QED  BY <2>4, <2>5, <2>6, SeqEqual DEF a
  <1>5. \A k \in 1..Len(s) : k \in I(s) <=> k \in I(t)
    BY <1>1
  <1>6. Len(s) + 1 \in I(t) <=> f.type \notin {"GoalSend", "End"}
    <2>1. IsEmit(f) <=> f.type = "GoalSend"
      BY Kinds, WireFields
    <2>. QED  BY <1>1, <2>1
  <1>7. Unnumbered(f) \in Wire
    BY <1>2
  <1>8. Keep(bare(t), I(t)) = IF Len(s) + 1 \in I(t) THEN Append(Keep(bare(s), I(s)), Unnumbered(f))
                              ELSE Keep(bare(s), I(s))
    <2>. HIDE DEF bare, I, t
    <2>. QED  BY <1>3, <1>4, <1>5, <1>7, KeepAppend
  <1>9. InputsOf(t) = Keep(bare(t), I(t)) /\ InputsOf(s) = Keep(bare(s), I(s))
    BY DEF InputsOf
  <1>. HIDE DEF bare, I
  <1>. QED  BY <1>6, <1>8, <1>9

LEMMA InputsType == ASSUME NEW s \in Seq(Wire) PROVE InputsOf(s) \in Seq(Wire)
  <1>. DEFINE bare == [i \in DOMAIN s |-> Unnumbered(s[i])]
  <1>1. DOMAIN s = 1..Len(s) /\ Len(s) \in Nat /\ \A i \in 1..Len(s) : s[i] \in Wire
    OBVIOUS
  <1>2. \A g \in Wire : Unnumbered(g) \in Wire
    BY Renumbered DEF Unnumbered
  <1>3. bare \in [1..Len(s) -> Wire]
    BY <1>1, <1>2
  <1>4. bare \in Seq(Wire)
    <2>. HIDE DEF bare
    <2>. QED  BY <1>1, <1>3, FunctionIsSeq
  <1>. HIDE DEF bare
  <1>. QED  BY <1>4, KeepType DEF InputsOf, bare

LEMMA InputsEmpty == InputsOf(<<>>) = <<>>
  <1>1. [i \in DOMAIN <<>> |-> Unnumbered(<<>>[i])] = <<>>
    OBVIOUS
  <1>. QED  BY <1>1, KeepEmpty DEF InputsOf

-----------------------------------------------------------------------------
(***************************************************************************)
(* The recording.                                                          *)
(***************************************************************************)
LEMMA SourcesUsed ==
    /\ SessionSource \in Sources /\ SessionSource[1] = 0 /\ SessionSource[2] = 0
    /\ SESSION_ACTOR_ID = 0 /\ COMPONENT_ACTOR_ID = 1 /\ SESSION_CHANNEL_ID = 0
  BY DEF SessionSource, Sources, SESSION_ACTOR_ID, SESSION_CHANNEL_ID, COMPONENT_ACTOR_ID

\* The frames of an unread recording and of a run that has not started.
Fresh ==
    /\ cursor = 1 /\ frames = <<>> /\ steps = <<>> /\ effects = <<>> /\ session_sequence = 0
    /\ effect_sequences = [c \in Channels |-> 0]

LEMMA FreshInv ==
    ASSUME phase \in {"recording", "starting"}, Fresh, RecordingInv
    PROVE  IInv
  <1>1. CursorInv
    BY DEF CursorInv, Fresh, RecordingInv
  <1>2. Caused
    BY EmptySeq DEF Caused, Fresh
  <1>3. ResponsesAnswerThisRun
    BY DEF ResponsesAnswerThisRun, Fresh
  <1>. QED
    BY <1>1, <1>2, <1>3 DEF IInv, StreamInv, Counted, Working, Passed, Done, Started

LEMMA InitInv == Init => IInv
  <1>. SUFFICES ASSUME Init PROVE IInv
    OBVIOUS
  <1>. DEFINE f == SessionFrame
              g == StartingState
              s == <<f>>
  <1>1. /\ f \in Wire /\ f.ordinal = 0 /\ f.src = 0 /\ f.dst = 0 /\ f.channel = 0 /\ f.seq = 0
        /\ f.type = "Session" /\ f.kind = kind("Session") /\ f.body = [uuid |-> 1]
        /\ Source(f) = SessionSource
    <2>1. "Session" \in UsedTypes
      BY DEF UsedTypes
    <2>2. Made(f, 0, SessionSource, 0, 0, "Session", [uuid |-> 1])
      BY <2>1, SourcesUsed, BodiesUsed, FrameIsWire DEF SessionFrame
    <2>. HIDE DEF f
    <2>. QED  BY <2>2, SourcesUsed DEF Made
  <1>2. /\ g \in Wire /\ g.ordinal = 1 /\ g.src = 0 /\ g.dst = 1 /\ g.channel = 0 /\ g.seq = 1
        /\ g.type = "StartingState" /\ g.kind = kind("StartingState")
        /\ Source(g) = SessionSource
    <2>1. "StartingState" \in UsedTypes
      BY DEF UsedTypes, InputTypes
    <2>2. [value |-> 1] \in WireBody
      BY BodiesUsed DEF Bodies
    <2>3. Made(g, 1, SessionSource, 1, 1, "StartingState", [value |-> 1])
      BY <2>1, <2>2, SourcesUsed, FrameIsWire DEF StartingState
    <2>. HIDE DEF g
    <2>. QED  BY <2>3, SourcesUsed DEF Made
  <1>3. HasMarkerTuple(f) /\ HasMarkerTuple(g)
    BY <1>1, <1>2, SourcesUsed DEF HasMarkerTuple
  <1>. HIDE DEF f, g
  <1>4. s = Append(<<>>, f) /\ <<f, g>> = Append(s, g) /\ s \in Seq(Wire) /\ Len(s) = 1
    BY <1>1, <1>2
  <1>5. CountUpTo(<<>>, 0, SessionSource) = 0 /\ CountUpTo(s, 1, SessionSource) = 1
    <2>1. CountUpTo(s, 0, SessionSource) = 0 /\ CountUpTo(<<>>, 0, SessionSource) = 0
      BY CountZero
    <2>2. CountUpTo(s, 0 + 1, SessionSource) =
              IF Source(s[0 + 1]) = SessionSource THEN CountUpTo(s, 0, SessionSource) + 1
              ELSE CountUpTo(s, 0, SessionSource)
      BY CountStep
    <2>3. s[0 + 1] = f
      OBVIOUS
    <2>. QED  BY <1>1, <2>1, <2>2, <2>3
  <1>6. \A i \in 1..Len(s) : FitsAt(s, i)
    <2>1. <<>> \in Seq(Wire) /\ Len(<<>>) = 0 /\ \A i \in 1..Len(<<>>) : FitsAt(<<>>, i)
      BY EmptySeq
    <2>2. /\ f.kind = kind(f.type) /\ f.ordinal = Len(<<>>) /\ (f.type = "Session" <=> Len(<<>>) = 0)
          /\ f.seq = CountUpTo(<<>>, Len(<<>>), Source(f))
          /\ (f.type = "GoalSend" <=> f.src = COMPONENT_ACTOR_ID)
          /\ (f.type = "GoalSend" => f.channel \in Channels)
      BY <1>1, <1>5, <2>1, SourcesUsed
    <2>. HIDE DEF s
    <2>. QED  BY <1>1, <1>3, <1>4, <2>1, <2>2, FitsAppend
  <1>7. LET t == Append(s, g) IN
        /\ t \in Seq(Wire) /\ Len(t) = 2 /\ t[2] = g /\ t[1] = f
        /\ \A i \in 1..Len(t) : FitsAt(t, i)
    <2>1. s[1] = f
      OBVIOUS
    <2>. HIDE DEF s
    <2>2. /\ g.kind = kind(g.type) /\ g.ordinal = Len(s) /\ (g.type = "Session" <=> Len(s) = 0)
          /\ g.seq = CountUpTo(s, Len(s), Source(g))
          /\ (g.type = "GoalSend" <=> g.src = COMPONENT_ACTOR_ID)
          /\ (g.type = "GoalSend" => g.channel \in Channels)
      BY <1>2, <1>4, <1>5, SourcesUsed
    <2>. DEFINE t == Append(s, g)
    <2>3. /\ t \in Seq(Wire) /\ Len(t) = Len(s) + 1 /\ t[Len(s) + 1] = g
          /\ \A i \in 1..Len(s) : t[i] = s[i]
          /\ \A i \in 1..Len(t) : FitsAt(t, i)
      BY <1>2, <1>3, <1>4, <1>6, <2>2, FitsAppend
    <2>. HIDE DEF t
    <2>4. Len(s) + 1 = 2 /\ 1 \in 1..Len(s)
      BY <1>4
    <2>5. t[2] = g /\ t[1] = f /\ Len(t) = 2
      BY <2>1, <2>3, <2>4
    <2>. QED  BY <2>3, <2>5 DEF t
  <1>8. recording = Append(s, g) /\ phase = "recording"
    BY <1>4 DEF Init, f, g
  <1>9. RecordingInv
    <2>1. \A i \in 1..Len(recording) : i = 1 \/ i = 2
      BY <1>7, <1>8
    <2>. HIDE DEF s
    <2>. QED  BY <1>1, <1>2, <1>7, <1>8, <2>1 DEF RecordingInv
  <1>. QED  BY <1>9, FreshInv DEF Init, Fresh

\* A frame written to the recording.
LEMMA WriteKeeps ==
    ASSUME IInv, phase = "recording", NEW f \in Wire,
           f.kind = kind(f.type), f.ordinal = Len(recording),
           f.seq = CountUpTo(recording, Len(recording), Source(f)), HasMarkerTuple(f),
           f.type # "Session",
           f.type = "GoalSend" <=> f.src = COMPONENT_ACTOR_ID,
           f.type = "GoalSend" => f.channel \in Channels,
           f.type = "Clock" => \E j \in 1..Len(recording) : /\ recording[j].type \in InputTypes
                                                            /\ f.body.callback = j - 1,
           f.type = "GoalResponse" => f.body.request \in Nat,
           recording' = Append(recording, f), UNCHANGED <<cursor, run>>,
           IF f.type = "End" THEN phase' = "starting" ELSE phase' = phase
    PROVE  IInv'
  <1>. DEFINE t == Append(recording, f)
              n == Len(recording)
  <1>1. /\ recording \in Seq(Wire) /\ n >= 2 /\ n \in Nat
        /\ \A i \in 1..n : FitsAt(recording, i)
    BY DEF IInv, RecordingInv
  <1>2. /\ t \in Seq(Wire) /\ Len(t) = n + 1 /\ t[n + 1] = f
        /\ \A i \in 1..n : t[i] = recording[i]
        /\ \A i \in 1..Len(t) : FitsAt(t, i)
    BY <1>1, FitsAppend
  <1>3. recording' = t
    OBVIOUS
  <1>. HIDE DEF t
  <1>4. \A i \in 1..Len(t) : i \in 1..n \/ i = n + 1
    BY <1>1, <1>2
  <1>5. \A i \in 1..Len(t) : t[i].type = "Clock" =>
          \E j \in 1..(i - 1) : t[j].type \in InputTypes /\ t[i].body.callback = j - 1
    <2>. SUFFICES ASSUME NEW i \in 1..Len(t), t[i].type = "Clock"
                  PROVE  \E j \in 1..(i - 1) : t[j].type \in InputTypes /\ t[i].body.callback = j - 1
      OBVIOUS
    <2>1. CASE i \in 1..n
      <3>1. PICK j \in 1..(i - 1) : /\ recording[j].type \in InputTypes
                                    /\ recording[i].body.callback = j - 1
        BY <1>2, <2>1 DEF IInv, RecordingInv
      <3>2. j \in 1..n
        BY <1>1, <2>1
      <3>. QED  BY <1>2, <2>1, <3>1, <3>2
    <2>2. CASE i = n + 1
      <3>1. PICK j \in 1..n : recording[j].type \in InputTypes /\ f.body.callback = j - 1
        BY <1>2, <2>2
      <3>2. j \in 1..(i - 1)
        BY <1>1, <2>2
      <3>. QED  BY <1>2, <2>2, <3>1, <3>2
    <2>. QED  BY <1>4, <2>1, <2>2
  <1>6. \A i \in 1..Len(t) : t[i].type = "GoalResponse" => t[i].body.request \in Nat
    BY <1>2, <1>4 DEF IInv, RecordingInv
  <1>7. \A i \in 1..Len(t) : t[i].type = "End" <=> phase' # "recording" /\ i = Len(t)
    <2>1. \A i \in 1..n : t[i].type # "End" /\ i # Len(t)
      BY <1>1, <1>2 DEF IInv, RecordingInv
    <2>. QED  BY <1>2, <1>4, <2>1
  <1>8. t[1].body = [uuid |-> 1]
    BY <1>1, <1>2 DEF IInv, RecordingInv
  <1>9. RecordingInv'
    BY <1>1, <1>2, <1>3, <1>5, <1>6, <1>7, <1>8 DEF RecordingInv
  <1>10. Fresh' /\ phase' \in {"recording", "starting"}
    BY DEF Fresh, IInv, CursorInv, run
  <1>11. CursorInv'
    BY <1>9, <1>10 DEF CursorInv, Fresh, RecordingInv
  <1>12. Caused'
    BY <1>10, EmptySeq DEF Caused, Fresh
  <1>13. ResponsesAnswerThisRun'
    BY <1>10 DEF ResponsesAnswerThisRun, Fresh
  <1>. QED
    BY <1>9, <1>10, <1>11, <1>12, <1>13
    DEF IInv, StreamInv, Counted, Working, Passed, Done, Started

\* The frame NextFrame makes.
Follows(f, source, dst, type, body) ==
    /\ f \in Wire /\ f.kind = kind(f.type) /\ f.ordinal = Len(recording)
    /\ f.seq = CountUpTo(recording, Len(recording), Source(f)) /\ f.src = source[1]
    /\ f.dst = dst /\ f.channel = source[2] /\ f.type = type /\ f.body = body

LEMMA NextFrameFits ==
    ASSUME RecordingInv, NEW source \in Sources, NEW dst \in Nat, NEW type \in UsedTypes,
           NEW body \in WireBody
    PROVE  Follows(NextFrame(source, dst, type, body), source, dst, type, body)
  <1>. DEFINE count == Cardinality({i \in DOMAIN recording : Source(recording[i]) = source})
  <1>1. DOMAIN recording = 1..Len(recording) /\ Len(recording) \in Nat
    BY DEF RecordingInv
  <1>2. count = CountUpTo(recording, Len(recording), source)
    BY <1>1 DEF CountUpTo
  <1>3. count \in Nat
    BY <1>1, <1>2, CountType
  <1>. HIDE DEF count
  <1>4. NextFrame(source, dst, type, body) = Frame(Len(recording), source, dst, count, type, body)
    BY DEF NextFrame, count
  <1>. DEFINE f == Frame(Len(recording), source, dst, count, type, body)
  <1>5. Made(f, Len(recording), source, dst, count, type, body)
    BY <1>1, <1>3, FrameIsWire
  <1>. HIDE DEF f
  <1>. QED  BY <1>2, <1>4, <1>5 DEF f, Made, Follows

LEMMA WriteStep == ASSUME IInv, WriteFrame PROVE IInv'
  <1>. DEFINE earlier == {f.ordinal : f \in {g \in ToSet(recording) : IsInput(g)}}
  <1>0. RecordingInv /\ phase = "recording"
    BY DEF IInv, WriteFrame
  <1>1. /\ "Message" \in UsedTypes /\ "Clock" \in UsedTypes /\ "GoalResponse" \in UsedTypes
        /\ "GoalSend" \in UsedTypes /\ "Gap" \in UsedTypes
    BY DEF UsedTypes, InputTypes
  <1>2. CASE \E source \in {<<PEER, 3>>, SessionSource} :
                Write(NextFrame(source, COMPONENT_ACTOR_ID, "Message", [value |-> 1]))
    <2>1. PICK source \in {<<PEER, 3>>, SessionSource} :
                Write(NextFrame(source, COMPONENT_ACTOR_ID, "Message", [value |-> 1]))
      BY <1>2
    <2>. DEFINE f == NextFrame(source, COMPONENT_ACTOR_ID, "Message", [value |-> 1])
    <2>2. source \in Sources /\ source[1] # COMPONENT_ACTOR_ID
      BY SourcesUsed DEF PEER, Sources
    <2>3. [value |-> 1] \in WireBody /\ COMPONENT_ACTOR_ID \in Nat
      BY BodiesUsed, SourcesUsed DEF Bodies
    <2>4. /\ f \in Wire /\ f.kind = kind(f.type) /\ f.ordinal = Len(recording)
          /\ f.seq = CountUpTo(recording, Len(recording), Source(f)) /\ f.src = source[1]
          /\ f.type = "Message"
      <3>1. Follows(f, source, COMPONENT_ACTOR_ID, "Message", [value |-> 1])
        BY <1>0, <1>1, <2>2, <2>3, NextFrameFits
      <3>. HIDE DEF f
      <3>. QED  BY <3>1 DEF Follows
    <2>. HIDE DEF f
    <2>5. HasMarkerTuple(f)
      BY <2>4 DEF HasMarkerTuple
    <2>6. recording' = Append(recording, f) /\ UNCHANGED <<cursor, run>> /\ phase' = phase
      BY <2>1 DEF Write, f
    <2>. QED  BY <1>0, <2>2, <2>4, <2>5, <2>6, WriteKeeps
  <1>3. CASE \E c \in earlier :
                Write(NextFrame(<<PEER, 4>>, COMPONENT_ACTOR_ID, "Clock", [callback |-> c]))
    <2>1. PICK c \in earlier :
                Write(NextFrame(<<PEER, 4>>, COMPONENT_ACTOR_ID, "Clock", [callback |-> c]))
      BY <1>3
    <2>. DEFINE f == NextFrame(<<PEER, 4>>, COMPONENT_ACTOR_ID, "Clock", [callback |-> c])
    <2>2. PICK j \in 1..Len(recording) : recording[j].type \in InputTypes /\ c = j - 1
      <3>1. PICK g \in ToSet(recording) : IsInput(g) /\ c = g.ordinal
        OBVIOUS
      <3>2. PICK j \in DOMAIN recording : g = recording[j]
        BY <3>1 DEF ToSet
      <3>3. j \in 1..Len(recording) /\ recording[j] \in Wire /\ recording[j].ordinal = j - 1
        BY <1>0, <3>2 DEF RecordingInv, FitsAt
      <3>4. recording[j].type \in InputTypes
        BY <3>1, <3>2, <3>3, Kinds, WireFields
      <3>. QED  BY <3>1, <3>2, <3>3, <3>4
    <2>3. /\ <<PEER, 4>> \in Sources /\ <<PEER, 4>>[1] # COMPONENT_ACTOR_ID
          /\ COMPONENT_ACTOR_ID \in Nat
      BY SourcesUsed DEF PEER, Sources
    <2>4. c \in Nat
      BY <2>2
    <2>5. [callback |-> c] \in WireBody /\ [callback |-> c].callback = c
      BY <2>4, BodiesUsed
    <2>6. /\ f \in Wire /\ f.kind = kind(f.type) /\ f.ordinal = Len(recording)
          /\ f.seq = CountUpTo(recording, Len(recording), Source(f)) /\ f.src = <<PEER, 4>>[1]
          /\ f.type = "Clock" /\ f.body = [callback |-> c]
      <3>1. Follows(f, <<PEER, 4>>, COMPONENT_ACTOR_ID, "Clock", [callback |-> c])
        BY <1>0, <1>1, <2>3, <2>5, NextFrameFits
      <3>. HIDE DEF f
      <3>. QED  BY <3>1 DEF Follows
    <2>. HIDE DEF f
    <2>7. HasMarkerTuple(f)
      BY <2>6 DEF HasMarkerTuple
    <2>8. recording' = Append(recording, f) /\ UNCHANGED <<cursor, run>> /\ phase' = phase
      BY <2>1 DEF Write, f
    <2>9. f.body.callback = j - 1
      BY <2>2, <2>5, <2>6
    <2>. QED  BY <1>0, <2>2, <2>3, <2>6, <2>7, <2>8, <2>9, WriteKeeps
  <1>4. CASE \E n \in 1..Len(recording) :
                Write(NextFrame(<<PEER, 5>>, COMPONENT_ACTOR_ID, "GoalResponse", [request |-> n]))
    <2>1. PICK n \in 1..Len(recording) :
                Write(NextFrame(<<PEER, 5>>, COMPONENT_ACTOR_ID, "GoalResponse", [request |-> n]))
      BY <1>4
    <2>. DEFINE f == NextFrame(<<PEER, 5>>, COMPONENT_ACTOR_ID, "GoalResponse", [request |-> n])
    <2>3. /\ <<PEER, 5>> \in Sources /\ <<PEER, 5>>[1] # COMPONENT_ACTOR_ID
          /\ COMPONENT_ACTOR_ID \in Nat
      BY SourcesUsed DEF PEER, Sources
    <2>4. n \in Nat
      OBVIOUS
    <2>5. [request |-> n] \in WireBody /\ [request |-> n].request = n
      BY <2>4, BodiesUsed
    <2>6. /\ f \in Wire /\ f.kind = kind(f.type) /\ f.ordinal = Len(recording)
          /\ f.seq = CountUpTo(recording, Len(recording), Source(f)) /\ f.src = <<PEER, 5>>[1]
          /\ f.type = "GoalResponse" /\ f.body = [request |-> n]
      <3>1. Follows(f, <<PEER, 5>>, COMPONENT_ACTOR_ID, "GoalResponse", [request |-> n])
        BY <1>0, <1>1, <2>3, <2>5, NextFrameFits
      <3>. HIDE DEF f
      <3>. QED  BY <3>1 DEF Follows
    <2>. HIDE DEF f
    <2>7. HasMarkerTuple(f)
      BY <2>6 DEF HasMarkerTuple
    <2>8. recording' = Append(recording, f) /\ UNCHANGED <<cursor, run>> /\ phase' = phase
      BY <2>1 DEF Write, f
    <2>. QED  BY <1>0, <2>3, <2>4, <2>5, <2>6, <2>7, <2>8, WriteKeeps
  <1>5. CASE \E c \in Channels, b \in Bodies :
                Write(NextFrame(<<COMPONENT_ACTOR_ID, c>>, PEER, "GoalSend", [value |-> b]))
    <2>1. PICK c \in Channels, b \in Bodies :
                Write(NextFrame(<<COMPONENT_ACTOR_ID, c>>, PEER, "GoalSend", [value |-> b]))
      BY <1>5
    <2>. DEFINE source == <<COMPONENT_ACTOR_ID, c>>
                f == NextFrame(source, PEER, "GoalSend", [value |-> b])
    <2>2. source \in Sources /\ source[1] = COMPONENT_ACTOR_ID /\ source[2] = c /\ PEER \in Nat
      BY SourcesUsed DEF PEER, Channels, Sources
    <2>. HIDE DEF source
    <2>3. [value |-> b] \in WireBody
      BY BodiesUsed
    <2>4. /\ f \in Wire /\ f.kind = kind(f.type) /\ f.ordinal = Len(recording)
          /\ f.seq = CountUpTo(recording, Len(recording), Source(f)) /\ f.src = source[1]
          /\ f.type = "GoalSend" /\ f.channel = source[2]
      <3>1. Follows(f, source, PEER, "GoalSend", [value |-> b])
        BY <1>0, <1>1, <2>2, <2>3, NextFrameFits
      <3>. HIDE DEF f
      <3>. QED  BY <3>1 DEF Follows
    <2>. HIDE DEF f
    <2>5. HasMarkerTuple(f)
      BY <2>4 DEF HasMarkerTuple
    <2>6. recording' = Append(recording, f) /\ UNCHANGED <<cursor, run>> /\ phase' = phase
      BY <2>1 DEF Write, f, source
    <2>. QED  BY <1>0, <2>2, <2>4, <2>5, <2>6, WriteKeeps
  <1>6. CASE Write(NextFrame(SessionSource, SESSION_ACTOR_ID, "Gap", [lost_known |-> TRUE]))
    <2>. DEFINE f == NextFrame(SessionSource, SESSION_ACTOR_ID, "Gap", [lost_known |-> TRUE])
    <2>1. [lost_known |-> TRUE] \in WireBody /\ SESSION_ACTOR_ID \in Nat
      BY BodiesUsed, SourcesUsed
    <2>2. /\ f \in Wire /\ f.kind = kind(f.type) /\ f.ordinal = Len(recording)
          /\ f.seq = CountUpTo(recording, Len(recording), Source(f)) /\ f.src = SessionSource[1]
          /\ f.type = "Gap" /\ f.channel = SessionSource[2] /\ f.dst = SESSION_ACTOR_ID
      <3>1. Follows(f, SessionSource, SESSION_ACTOR_ID, "Gap", [lost_known |-> TRUE])
        BY <1>0, <1>1, <2>1, NextFrameFits, SourcesUsed
      <3>. HIDE DEF f
      <3>. QED  BY <3>1 DEF Follows
    <2>. HIDE DEF f
    <2>3. HasMarkerTuple(f)
      BY <2>2, SourcesUsed DEF HasMarkerTuple
    <2>4. recording' = Append(recording, f) /\ UNCHANGED <<cursor, run>> /\ phase' = phase
      BY <1>6 DEF Write, f
    <2>. QED  BY <1>0, <2>2, <2>3, <2>4, WriteKeeps, SourcesUsed
  <1>. QED  BY <1>2, <1>3, <1>4, <1>5, <1>6 DEF WriteFrame

LEMMA CloseStep == ASSUME IInv, Close PROVE IInv'
  <1>. DEFINE count == Cardinality({i \in DOMAIN recording : Source(recording[i]) = SessionSource})
              f == EndFrame(recording, count)
  <1>1. DOMAIN recording = 1..Len(recording) /\ Len(recording) \in Nat
    BY DEF IInv, RecordingInv
  <1>2. count = CountUpTo(recording, Len(recording), SessionSource)
    BY <1>1 DEF CountUpTo
  <1>3. count \in Nat
    BY <1>1, <1>2, CountType
  <1>. HIDE DEF count
  <1>4. /\ f \in Wire /\ f.ordinal = Len(recording) /\ f.src = 0 /\ f.dst = 0 /\ f.channel = 0
        /\ f.seq = count /\ f.type = "End" /\ f.kind = kind("End") /\ Source(f) = SessionSource
    <2>1. "End" \in UsedTypes
      BY DEF UsedTypes
    <2>2. Made(f, Len(recording), SessionSource, 0, count, "End",
               [uuid |-> 1, frame_count |-> Len(recording)])
      BY <1>1, <1>3, <2>1, SourcesUsed, BodiesUsed, FrameIsWire DEF EndFrame
    <2>. HIDE DEF f
    <2>. QED  BY <2>2, SourcesUsed DEF Made
  <1>5. /\ recording' = Append(recording, f) /\ UNCHANGED <<cursor, run>>
        /\ phase = "recording" /\ phase' = "starting"
    BY DEF Close, count
  <1>. HIDE DEF f
  <1>6. HasMarkerTuple(f)
    BY <1>4, SourcesUsed DEF HasMarkerTuple
  <1>. QED  BY <1>2, <1>4, <1>5, <1>6, WriteKeeps, SourcesUsed

-----------------------------------------------------------------------------
(***************************************************************************)
(* The replay: what its steps have in common.                              *)
(***************************************************************************)
OtherSources == (Nat \ {COMPONENT_ACTOR_ID}) \X Nat

LEMMA RecordingStays ==
    ASSUME IInv, recording' = recording, phase # "recording", phase' # "recording"
    PROVE  RecordingInv'
  BY DEF IInv, RecordingInv

\* The frame the cursor is at.
LEMMA AtCursor ==
    ASSUME IInv
    PROVE  /\ recording \in Seq(Wire) /\ cursor \in 1..Len(recording)
           /\ Recorded = recording[cursor] /\ Recorded \in Wire
           /\ FitsAt(recording, cursor) /\ Recorded.ordinal = cursor - 1 /\ cursor - 1 \in Nat
           /\ IsEmit(Recorded) <=> Recorded.type = "GoalSend"
           /\ IsInput(Recorded) <=> Recorded.type \in InputTypes
           /\ Recorded.type = "Session" <=> cursor = 1
           /\ phase # "recording" => (Recorded.type = "End" <=> cursor = Len(recording))
  <1>1. /\ recording \in Seq(Wire) /\ cursor \in 1..Len(recording)
        /\ Recorded = recording[cursor] /\ FitsAt(recording, cursor) /\ cursor - 1 \in Nat
        /\ phase # "recording" => (Recorded.type = "End" <=> cursor = Len(recording))
    BY DEF IInv, RecordingInv, CursorInv, Recorded
  <1>2. Recorded \in Wire /\ Recorded.ordinal = cursor - 1 /\ (Recorded.type = "Session" <=> cursor = 1)
    BY <1>1 DEF FitsAt
  <1>. QED  BY <1>1, <1>2, Kinds, WireFields

\* What the recording counts, and holds, up to the next frame.
LEMMA ReachedNext ==
    ASSUME IInv, NEW n \in 1..Len(recording)
    PROVE  /\ \A source : CountUpTo(recording, n, source) =
                 IF Source(recording[n]) = source THEN CountUpTo(recording, n - 1, source) + 1
                 ELSE CountUpTo(recording, n - 1, source)
           /\ InputsOf(SubSeq(recording, 1, n)) =
                 IF recording[n].type \notin {"GoalSend", "End"}
                 THEN Append(InputsOf(SubSeq(recording, 1, n - 1)), Unnumbered(recording[n]))
                 ELSE InputsOf(SubSeq(recording, 1, n - 1))
           /\ InputsOf(SubSeq(recording, 1, n - 1)) \in Seq(Wire)
  <1>1. recording \in Seq(Wire) /\ recording[n] \in Wire /\ n - 1 \in Nat /\ (n - 1) + 1 = n
    BY DEF IInv, RecordingInv
  <1>2. \A source : CountUpTo(recording, (n - 1) + 1, source) =
                 IF Source(recording[(n - 1) + 1]) = source THEN CountUpTo(recording, n - 1, source) + 1
                 ELSE CountUpTo(recording, n - 1, source)
    BY <1>1, CountStep
  <1>3. /\ SubSeq(recording, 1, n - 1) \in Seq(Wire)
        /\ SubSeq(recording, 1, n) = Append(SubSeq(recording, 1, n - 1), recording[n])
    BY <1>1, PrefixStep
  <1>. QED  BY <1>1, <1>2, <1>3, InputsAppend, InputsType

\* A step that started a callback stays one.
LEMMA StaysStarted ==
    ASSUME NEW s \in Seq(StepPair), NEW e \in StepPair, NEW t, t = s \/ t = Append(s, e),
           NEW c, NEW n \in Int, NEW m \in Int, n <= m, StartedBy(s, c, n)
    PROVE  StartedBy(t, c, m)
  <1>1. PICK i \in 1..Len(s) : s[i][1] = c /\ s[i][2] \in Nat /\ s[i][2] < n
    BY DEF StartedBy
  <1>2. i \in 1..Len(t) /\ t[i] = s[i]
    OBVIOUS
  <1>3. t[i][1] = c /\ t[i][2] \in Nat /\ t[i][2] < m
    BY <1>1, <1>2
  <1>. QED  BY <1>2, <1>3, Zenon DEF StartedBy

LEMMA ErrorStep == ASSUME IInv, Error, phase # "recording" PROVE IInv'
  <1>1. /\ phase' = "error" /\ recording' = recording /\ cursor' = cursor /\ frames' = frames
        /\ steps' = steps /\ effects' = effects
    BY DEF Error, run
  <1>2. RecordingInv'
    BY <1>1, RecordingStays
  <1>3. CursorInv'
    BY <1>1 DEF IInv, CursorInv
  <1>4. ResponsesAnswerThisRun'
    BY <1>1 DEF IInv, ResponsesAnswerThisRun
  <1>5. Caused'
    BY <1>1 DEF IInv, Caused
  <1>. QED
    BY <1>1, <1>2, <1>3, <1>4, <1>5
    DEF IInv, StreamInv, Counted, Working, Passed, Done, Started

LEMMA StartStep == ASSUME IInv, Start PROVE IInv'
  <1>0. phase = "starting"
    BY DEF Start
  <1>1. CASE Error
    BY <1>0, <1>1, ErrorStep
  <1>2. CASE phase' = "delivering" /\ UNCHANGED <<recording, cursor, run>>
    <2>1. /\ phase' = "delivering" /\ recording' = recording /\ cursor' = 1 /\ frames' = <<>>
          /\ steps' = <<>> /\ effects' = <<>> /\ session_sequence' = 0
          /\ effect_sequences' = [c \in Channels |-> 0]
      BY <1>0, <1>2 DEF IInv, CursorInv, run
    <2>2. RecordingInv'
      BY <1>0, <2>1, RecordingStays
    <2>3. CursorInv'
      BY <2>1, AtCursor DEF IInv, CursorInv, RecordingInv
    <2>4. StreamInv'
      BY <2>1, EmptySeq DEF StreamInv
    <2>5. Counted'
      <3>1. \A s, source : CountUpTo(s, 0, source) = 0
        BY CountZero
      <3>2. Len(<<>>) = 0 /\ Reached' = 0 /\ 1 - 1 = 0
        BY <2>1 DEF Reached
      <3>3. effect_sequences' \in [Channels -> Nat] /\ \A c \in Channels : effect_sequences'[c] = 0
        BY <2>1
      <3>. QED  BY <2>1, <3>1, <3>2, <3>3 DEF Counted
    <2>6. Passed'
      <3>1. SubSeq(recording, 1, 0) = <<>> /\ Reached' = 0
        BY <2>1, SubSeqEmpty DEF Reached
      <3>. QED  BY <2>1, <3>1 DEF Passed
    <2>7. Caused'
      BY <2>1, EmptySeq DEF Caused
    <2>8. ResponsesAnswerThisRun'
      BY <2>1 DEF ResponsesAnswerThisRun
    <2>. QED
      BY <2>1, <2>2, <2>3, <2>4, <2>5, <2>6, <2>7, <2>8 DEF IInv, Working, Done
  <1>. QED  BY <1>1, <1>2 DEF Start

\* The replay stops at the cursor.
LEMMA FinishingStep ==
    ASSUME IInv, phase = "delivering", phase' = "finishing", cursor > 1,
           UNCHANGED <<recording, cursor, frames, effects, session_sequence, effect_sequences>>,
           NEW e \in StepPair, steps' = steps \/ steps' = Append(steps, e)
    PROVE  IInv'
  <1>1. /\ recording' = recording /\ cursor' = cursor /\ frames' = frames /\ effects' = effects
        /\ session_sequence' = session_sequence /\ effect_sequences' = effect_sequences
    OBVIOUS
  <1>2. RecordingInv'
    BY <1>1, RecordingStays
  <1>3. CursorInv'
    BY <1>1 DEF IInv, CursorInv
  <1>4. StreamInv'
    BY <1>1 DEF IInv, StreamInv, Started
  <1>5. Counted' /\ Passed'
    <2>1. Started /\ Started' /\ Reached' = Reached
      BY <1>1 DEF Started, Reached
    <2>2. Counted'
      BY <1>1, <2>1 DEF IInv, Counted
    <2>3. Passed'
      BY <1>1, <2>1 DEF IInv, Passed
    <2>. QED  BY <2>2, <2>3
  <1>6. Caused'
    <2>1. /\ steps \in Seq(StepPair) /\ effects \in Seq(Nat \X Nat)
          /\ \A i \in 1..Len(effects) : StartedBy(steps, effects[i][1], effects[i][2])
      BY DEF IInv, Caused
    <2>2. \A i \in 1..Len(effects) : StartedBy(steps', effects[i][1], effects[i][2])
      <3>. TAKE i \in 1..Len(effects)
      <3>1. effects[i][2] \in Int /\ effects[i][2] <= effects[i][2]
        BY <2>1
      <3>. QED  BY <2>1, <3>1, StaysStarted
    <2>3. steps' \in Seq(StepPair)
      BY <2>1
    <2>. QED  BY <1>1, <2>1, <2>2, <2>3 DEF Caused
  <1>7. ResponsesAnswerThisRun'
    BY <1>1 DEF IInv, ResponsesAnswerThisRun
  <1>. QED
    BY <1>2, <1>3, <1>4, <1>5, <1>6, <1>7 DEF IInv, Working, Done

LEMMA StopStep == ASSUME IInv, StopAtMarker PROVE IInv'
  <1>1. /\ phase = "delivering" /\ phase' = "finishing" /\ steps' = steps
        /\ UNCHANGED <<recording, cursor, frames, effects, session_sequence, effect_sequences>>
        /\ Recorded.type # "Session"
    BY DEF StopAtMarker
  <1>2. cursor > 1
    BY <1>1, AtCursor
  <1>3. <<0, 0>> \in StepPair
    BY DEF StepPair
  <1>. QED  BY <1>1, <1>2, <1>3, FinishingStep

LEMMA RefuseUnissuedStep ==
    ASSUME IInv, phase = "delivering", IsInput(Recorded), RefuseUnissued
    PROVE  IInv'
  <1>. DEFINE e == <<Recorded.ordinal, Nothing>>
  <1>1. /\ phase' = "finishing" /\ steps' = Append(steps, e)
        /\ UNCHANGED <<recording, cursor, frames, effects, session_sequence, effect_sequences>>
    BY DEF RefuseUnissued
  <1>2. cursor > 1
    BY AtCursor DEF IsInput
  <1>3. e \in StepPair
    BY AtCursor DEF StepPair
  <1>. HIDE DEF e
  <1>. QED  BY <1>1, <1>2, <1>3, FinishingStep

\* A recorded effect is passed over.
LEMMA SkipStep == ASSUME IInv, SkipEffect PROVE IInv'
  <1>1. /\ phase = "delivering" /\ phase' = phase /\ cursor' = cursor + 1 /\ recording' = recording
        /\ frames' = frames /\ steps' = steps /\ effects' = effects
        /\ session_sequence' = session_sequence /\ effect_sequences' = effect_sequences
    BY DEF SkipEffect, run
  <1>2. /\ recording \in Seq(Wire) /\ cursor \in 1..Len(recording) /\ recording[cursor] \in Wire
        /\ recording[cursor].type = "GoalSend" /\ recording[cursor].src = COMPONENT_ACTOR_ID
        /\ cursor > 1 /\ cursor < Len(recording) /\ Recorded = recording[cursor]
    BY <1>1, AtCursor DEF SkipEffect, FitsAt
  <1>3. RecordingInv'
    BY <1>1, RecordingStays
  <1>4. CursorInv'
    BY <1>1, <1>2 DEF IInv, CursorInv
  <1>5. StreamInv'
    BY <1>1, <1>2 DEF IInv, StreamInv, Started
  <1>6. Started /\ Started' /\ Reached = cursor - 1 /\ Reached' = cursor
    BY <1>1, <1>2 DEF Started, Reached
  <1>7. \A source \in OtherSources \cup {SessionSource} :
            CountUpTo(recording, cursor, source) = CountUpTo(recording, cursor - 1, source)
    <2>1. \A source \in OtherSources \cup {SessionSource} : Source(recording[cursor]) # source
      BY <1>2, SourcesUsed, WireFields DEF OtherSources
    <2>. QED  BY <1>2, <2>1, ReachedNext
  <1>8. Counted'
    <2>1. (cursor + 1) - 1 = cursor
      BY <1>2
    <2>. QED  BY <1>1, <1>6, <1>7, <2>1 DEF IInv, Counted, OtherSources
  <1>9. Passed'
    BY <1>1, <1>2, <1>6, ReachedNext DEF IInv, Passed
  <1>10. Caused'
    <2>1. \A j \in 1..(cursor' - 1) : j \in 1..(cursor - 1) \/ j = cursor
      BY <1>1, <1>2
    <2>2. recording[cursor].type \notin InputTypes
      BY <1>2 DEF InputTypes
    <2>. QED  BY <1>1, <2>1, <2>2 DEF IInv, Caused
  <1>11. ResponsesAnswerThisRun'
    BY <1>1 DEF IInv, ResponsesAnswerThisRun
  <1>. QED
    BY <1>1, <1>3, <1>4, <1>5, <1>8, <1>9, <1>10, <1>11 DEF IInv, Working, Done

\* A frame pushed to the stream.
Streams(s) == /\ s \in Seq(Wire)
              /\ \A i \in 1..Len(s) : FitsAt(s, i) /\ s[i].type \notin {"Gap", "End"}
Suits(f) ==
    /\ f \in Wire /\ f.kind = kind(f.type) /\ f.type \notin {"Gap", "End"}
    /\ f.seq = CountUpTo(frames, Len(frames), Source(f)) /\ HasMarkerTuple(f)
    /\ f.type = "Session" <=> Len(frames) = 0
    /\ f.type = "GoalSend" <=> f.src = COMPONENT_ACTOR_ID
    /\ f.type = "GoalSend" => f.channel \in Channels

LEMMA Push ==
    ASSUME Streams(frames), NEW f, Suits(f)
    PROVE  LET n == Len(frames)
               t == push(f) IN
           /\ Streams(t) /\ n \in Nat /\ Len(t) = n + 1
           /\ t[n + 1] = [f EXCEPT !.ordinal = n] /\ \A i \in 1..n : t[i] = frames[i]
           /\ t[n + 1].type = f.type /\ t[n + 1].body = f.body
           /\ \A source : CountUpTo(t, n + 1, source) =
                 IF Source(f) = source THEN CountUpTo(frames, n, source) + 1
                 ELSE CountUpTo(frames, n, source)
           /\ InputsOf(t) = IF f.type # "GoalSend" THEN Append(InputsOf(frames), Unnumbered(f))
                            ELSE InputsOf(frames)
  <1>. DEFINE n == Len(frames)
              g == [f EXCEPT !.ordinal = n]
              t == Append(frames, g)
  <1>1. frames \in Seq(Wire) /\ n \in Nat /\ f \in Wire /\ \A i \in 1..n : FitsAt(frames, i)
    BY DEF Streams, Suits
  <1>2. /\ g \in Wire /\ g.ordinal = n /\ Unnumbered(g) = Unnumbered(f)
        /\ g.src = f.src /\ g.dst = f.dst /\ g.channel = f.channel /\ g.seq = f.seq
        /\ g.type = f.type /\ g.kind = f.kind /\ g.body = f.body /\ Source(g) = Source(f)
        /\ HasMarkerTuple(g) <=> HasMarkerTuple(f)
    BY <1>1, Renumbered
  <1>. HIDE DEF g
  <1>3. /\ t \in Seq(Wire) /\ Len(t) = n + 1 /\ t[n + 1] = g
        /\ \A i \in 1..n : t[i] = frames[i]
        /\ \A i \in 1..Len(t) : FitsAt(t, i)
    BY <1>1, <1>2, FitsAppend DEF Suits
  <1>4. \A source : CountUpTo(t, n + 1, source) =
                 IF Source(f) = source THEN CountUpTo(frames, n, source) + 1
                 ELSE CountUpTo(frames, n, source)
    BY <1>1, <1>2, CountAppend
  <1>5. InputsOf(t) = IF f.type # "GoalSend" THEN Append(InputsOf(frames), Unnumbered(f))
                      ELSE InputsOf(frames)
    BY <1>1, <1>2, InputsAppend DEF Suits
  <1>. HIDE DEF t
  <1>6. Streams(t)
    <2>1. \A i \in 1..Len(t) : i \in 1..n \/ i = n + 1
      BY <1>1, <1>3
    <2>. QED  BY <1>2, <1>3, <2>1 DEF Streams, Suits
  <1>. QED  BY <1>1, <1>2, <1>3, <1>4, <1>5, <1>6 DEF push, t, g

\* The responses still answer requests of this run when a frame is pushed.
LEMMA PushAnswers ==
    ASSUME ResponsesAnswerThisRun, Streams(frames), NEW f, Suits(f),
           frames' = push(f), recording' = recording,
           f.type = "GoalResponse" => \E j \in 1..Len(frames) :
               Unnumbered(frames[j]) = Unnumbered(recording[f.body.request + 1])
    PROVE  ResponsesAnswerThisRun'
  <1>. DEFINE n == Len(frames)
              t == push(f)
              Answers(s, i) == \E j \in 1..(i - 1) :
                  Unnumbered(s[j]) = Unnumbered(recording[s[i].body.request + 1])
  <1>1. /\ t \in Seq(Wire) /\ n \in Nat /\ Len(t) = n + 1 /\ DOMAIN t = 1..(n + 1)
        /\ \A i \in 1..n : t[i] = frames[i]
        /\ t[n + 1].type = f.type /\ t[n + 1].body = f.body /\ DOMAIN frames = 1..n
    <2>1. /\ Streams(t) /\ n \in Nat /\ Len(t) = n + 1 /\ \A i \in 1..n : t[i] = frames[i]
          /\ t[n + 1].type = f.type /\ t[n + 1].body = f.body
      BY Push
    <2>. HIDE DEF t
    <2>2. t \in Seq(Wire) /\ DOMAIN t = 1..Len(t) /\ DOMAIN frames = 1..Len(frames)
      BY <2>1 DEF Streams
    <2>. QED  BY <2>1, <2>2
  <1>. HIDE DEF t
  <1>2. ASSUME NEW i \in 1..(n + 1), t[i].type = "GoalResponse" PROVE Answers(t, i)
    <2>1. CASE i \in 1..n
      <3>1. PICK j \in 1..(i - 1) :
                Unnumbered(frames[j]) = Unnumbered(recording[frames[i].body.request + 1])
        BY <1>1, <1>2, <2>1 DEF ResponsesAnswerThisRun
      <3>2. t[j] = frames[j] /\ t[i] = frames[i]
        BY <1>1, <2>1
      <3>. QED  BY <3>1, <3>2
    <2>2. CASE i = n + 1
      <3>1. PICK j \in 1..n : Unnumbered(frames[j]) = Unnumbered(recording[f.body.request + 1])
        BY <1>1, <1>2, <2>2
      <3>2. t[j] = frames[j] /\ t[i].body = f.body /\ j \in 1..(i - 1)
        BY <1>1, <2>2
      <3>. QED  BY <3>1, <3>2
    <2>. QED  BY <1>1, <2>1, <2>2
  <1>3. frames' = t
    BY DEF t
  <1>. QED  BY <1>1, <1>2, <1>3 DEF ResponsesAnswerThisRun

LEMMA DeliverSessionStep == ASSUME IInv, DeliverSession PROVE IInv'
  <1>. DEFINE f == recording[1]
  <1>1. /\ phase = "delivering" /\ phase' = phase /\ recording' = recording /\ steps' = steps
        /\ effects' = effects /\ effect_sequences' = effect_sequences
        /\ cursor = 1 /\ cursor' = 2 /\ frames = <<>> /\ frames' = push(f)
        /\ session_sequence' = f.seq + 1 /\ f \in Wire /\ f.type = "Session" /\ FitsAt(recording, 1)
        /\ Len(recording) \in Nat /\ Len(recording) >= 2 /\ f.body = [uuid |-> 1]
    BY AtCursor DEF DeliverSession, IInv, CursorInv, RecordingInv
  <1>2. Len(frames) = 0 /\ Streams(frames) /\ \A source : CountUpTo(frames, 0, source) = 0
    BY <1>1, EmptySeq, CountZero DEF Streams
  <1>3. /\ f.kind = kind(f.type) /\ f.seq = 0 /\ Source(f) = SessionSource /\ f.src = 0
        /\ HasMarkerTuple(f)
    <2>1. f.kind = kind(f.type) /\ f.seq = CountUpTo(recording, 1 - 1, Source(f)) /\ HasMarkerTuple(f)
      BY <1>1 DEF FitsAt
    <2>2. CountUpTo(recording, 1 - 1, Source(f)) = 0
      BY CountZero
    <2>3. f.src = 0 /\ f.channel = 0
      BY <1>1, <2>1, SourcesUsed DEF HasMarkerTuple
    <2>4. Source(f) = SessionSource
      BY <2>3, SourcesUsed DEF Source, SessionSource
    <2>. QED  BY <2>1, <2>2, <2>3, <2>4
  <1>4. Suits(f)
    BY <1>1, <1>2, <1>3, SourcesUsed DEF Suits
  <1>. DEFINE t == push(f)
  <1>5. /\ Streams(t) /\ Len(t) = 1 /\ t[1].body = f.body
        /\ \A source : CountUpTo(t, 1, source) =
              IF Source(f) = source THEN CountUpTo(frames, 0, source) + 1
              ELSE CountUpTo(frames, 0, source)
        /\ InputsOf(t) = Append(InputsOf(frames), Unnumbered(f))
    <2>. DEFINE n == Len(frames)
    <2>. HIDE DEF f
    <2>1. /\ Streams(t) /\ Len(t) = n + 1 /\ t[n + 1].body = f.body
          /\ \A source : CountUpTo(t, n + 1, source) =
                IF Source(f) = source THEN CountUpTo(frames, n, source) + 1
                ELSE CountUpTo(frames, n, source)
          /\ InputsOf(t) = IF f.type # "GoalSend" THEN Append(InputsOf(frames), Unnumbered(f))
                           ELSE InputsOf(frames)
      BY <1>2, <1>4, Push
    <2>2. n = 0 /\ n + 1 = 1
      BY <1>2
    <2>. HIDE DEF n, t
    <2>. QED  BY <1>1, <2>1, <2>2
  <1>. HIDE DEF t, f
  <1>6. RecordingInv'
    BY <1>1, RecordingStays
  <1>7. CursorInv'
    <2>1. \A j \in 1..(cursor' - 1) : j = 1
      BY <1>1
    <2>. QED  BY <1>1, <2>1 DEF CursorInv, f
  <1>8. StreamInv'
    <2>1. t # <<>>
      BY <1>5, EmptySeq
    <2>. QED  BY <1>1, <1>5, <2>1 DEF StreamInv, Streams, t
  <1>9. /\ Reached' = 1 /\ 1 \in 1..Len(recording)
        /\ \A source : CountUpTo(recording, 1, source) =
              IF Source(f) = source THEN CountUpTo(recording, 0, source) + 1
              ELSE CountUpTo(recording, 0, source)
        /\ \A source : CountUpTo(recording, 0, source) = 0
        /\ InputsOf(SubSeq(recording, 1, 1)) = Append(InputsOf(SubSeq(recording, 1, 0)), Unnumbered(f))
    <2>1. Reached' = 1 /\ 1 \in 1..Len(recording) /\ 1 - 1 = 0
      BY <1>1 DEF Reached
    <2>2. \A source : CountUpTo(recording, 0, source) = 0
      BY CountZero
    <2>. QED  BY <1>1, <2>1, <2>2, ReachedNext DEF f
  <1>10. Counted'
    <2>1. /\ effect_sequences \in [Channels -> Nat]
          /\ \A c \in Channels : CountUpTo(frames, 0, <<COMPONENT_ACTOR_ID, c>>) = effect_sequences[c]
      BY <1>1, <1>2 DEF IInv, Counted, Started
    <2>2. \A c \in Channels : <<COMPONENT_ACTOR_ID, c>> # SessionSource
      BY SourcesUsed
    <2>3. Len(frames') = 1 /\ cursor' - 1 = 1 /\ session_sequence' = 1
      BY <1>1, <1>3, <1>5 DEF t
    <2>4. \A source : CountUpTo(t, 1, source) = CountUpTo(recording, 1, source)
      BY <1>2, <1>5, <1>9
    <2>5. \A c \in Channels : CountUpTo(t, 1, <<COMPONENT_ACTOR_ID, c>>) = effect_sequences[c]
      BY <1>2, <1>3, <1>5, <2>1, <2>2
    <2>6. CountUpTo(recording, 1, SessionSource) = 1
      BY <1>3, <1>9
    <2>. QED  BY <1>1, <1>9, <2>1, <2>3, <2>4, <2>5, <2>6 DEF Counted, t
  <1>11. Passed'
    <2>1. SubSeq(recording, 1, 0) = <<>>
      BY SubSeqEmpty
    <2>. QED  BY <1>1, <1>5, <1>9, <2>1 DEF Passed, t
  <1>12. Caused'
    <2>1. \A j \in 1..(cursor' - 1) : recording[j].type \notin InputTypes
      BY <1>1 DEF InputTypes, f
    <2>2. Len(effects) = 0
      <3>1. effects \in Seq(Nat \X Nat) /\ \A i \in 1..Len(effects) : effects[i][2] < 0
        BY <1>1, <1>2 DEF IInv, Caused
      <3>2. \A i \in 1..Len(effects) : effects[i] \in Nat \X Nat /\ effects[i][2] \in Nat
        BY <3>1
      <3>. QED  BY <3>1, <3>2
    <2>. QED  BY <1>1, <2>1, <2>2 DEF IInv, Caused
  <1>13. ResponsesAnswerThisRun'
    BY <1>1, <1>2, <1>4, PushAnswers DEF IInv
  <1>. QED
    BY <1>1, <1>6, <1>7, <1>8, <1>10, <1>11, <1>12, <1>13 DEF IInv, Working, Done

-----------------------------------------------------------------------------
(***************************************************************************)
(* A step of the replay: the input is sent, lines are received.            *)
(***************************************************************************)
LEMMA StreamsAre == ASSUME IInv, Started PROVE Streams(frames) /\ Len(frames) \in Nat
  BY DEF IInv, StreamInv, Streams

\* The input is sent.  The responses it may be answer an equal request.
LEMMA SendStepStep ==
    ASSUME IInv, phase = "delivering", IsInput(Recorded), NamesRequest => RequestIsEffect, SendStep
    PROVE  IInv'
  <1>. DEFINE f == Recorded
              n == Len(frames)
              t == push(f)
  <1>1. /\ phase' = "stepping" /\ recording' = recording /\ cursor' = cursor /\ steps' = steps
        /\ effects' = effects /\ session_sequence' = session_sequence
        /\ effect_sequences' = effect_sequences /\ frames' = t /\ authorized' = Authorized
    BY DEF SendStep
  <1>2. /\ recording \in Seq(Wire) /\ cursor \in 1..Len(recording) /\ f = recording[cursor]
        /\ f \in Wire /\ FitsAt(recording, cursor) /\ f.ordinal = cursor - 1 /\ f.type \in InputTypes
        /\ cursor > 1 /\ f.type # "GoalSend" /\ f.type # "End" /\ f.type # "Gap" /\ f.type # "Session"
        /\ f.src # COMPONENT_ACTOR_ID /\ f.kind = kind(f.type) /\ HasMarkerTuple(f)
        /\ f.seq = CountUpTo(recording, cursor - 1, Source(f))
    BY AtCursor DEF InputTypes, FitsAt
  <1>3. Started /\ Started' /\ Reached = cursor - 1 /\ Reached' = cursor
    BY <1>1 DEF Started, Reached
  <1>4. Streams(frames) /\ n \in Nat /\ n # 0 /\ frames[1].body = [uuid |-> 1]
    <2>1. Streams(frames) /\ n \in Nat /\ frames # <<>> /\ frames[1].body = [uuid |-> 1]
      BY <1>2, <1>3, StreamsAre DEF IInv, StreamInv
    <2>. QED  BY <2>1, EmptySeq DEF Streams
  <1>5. Source(f) \in OtherSources
    BY <1>2, WireFields DEF OtherSources, Source
  <1>6. Suits(f)
    <2>1. f.seq = CountUpTo(frames, n, Source(f))
      BY <1>2, <1>3, <1>5 DEF IInv, Counted, OtherSources
    <2>. QED  BY <1>2, <1>4, <2>1 DEF Suits
  <1>. HIDE DEF f
  <1>7. /\ Streams(t) /\ Len(t) = n + 1
        /\ t[n + 1] = [f EXCEPT !.ordinal = n] /\ \A i \in 1..n : t[i] = frames[i]
        /\ t[n + 1].type = f.type
        /\ \A source : CountUpTo(t, n + 1, source) =
              IF Source(f) = source THEN CountUpTo(frames, n, source) + 1
              ELSE CountUpTo(frames, n, source)
        /\ InputsOf(t) = IF f.type # "GoalSend" THEN Append(InputsOf(frames), Unnumbered(f))
                         ELSE InputsOf(frames)
    BY <1>4, <1>6, Push
  <1>8. ResponsesAnswerThisRun'
    <2>1. ASSUME f.type = "GoalResponse"
          PROVE  \E j \in 1..n : Unnumbered(frames[j]) = Unnumbered(recording[f.body.request + 1])
      <3>1. PICK i \in Issued : equivalent(i)
        BY <2>1 DEF SendStep, NamesRequest, f
      <3>2. /\ request_ref = f.body.request + 1 /\ request_ref \in DOMAIN recording
            /\ recording[request_ref].src = COMPONENT_ACTOR_ID
        BY <2>1 DEF NamesRequest, RequestIsEffect, request_ref, f
      <3>3. i \in 1..n /\ frames[i] \in Wire /\ frames[i].kind = kind(frames[i].type)
        BY <1>4, <3>1 DEF Issued, Streams, FitsAt
      <3>4. /\ recording[request_ref] \in Wire
            /\ recording[request_ref].kind = kind(recording[request_ref].type)
        BY <3>2 DEF IInv, RecordingInv, FitsAt
      <3>5. Unnumbered(frames[i]) = Unnumbered(recording[request_ref])
        BY <3>1, <3>2, <3>3, <3>4, SameFrame DEF Issued, equivalent
      <3>. QED  BY <3>2, <3>3, <3>5
    <2>2. ResponsesAnswerThisRun
      BY DEF IInv
    <2>. QED  BY <1>1, <1>4, <1>6, <2>1, <2>2, PushAnswers
  <1>. HIDE DEF t
  <1>9. RecordingInv'
    BY <1>1, RecordingStays
  <1>10. CursorInv'
    BY <1>1, <1>2 DEF IInv, CursorInv
  <1>11. StreamInv'
    <2>1. 1 \in 1..n /\ t # <<>>
      BY <1>4, <1>7, EmptySeq
    <2>. QED  BY <1>1, <1>4, <1>7, <2>1 DEF StreamInv, Streams
  <1>12. Counted'
    <2>1. \A source \in OtherSources : CountUpTo(t, n + 1, source) = CountUpTo(recording, cursor, source)
      <3>1. \A source \in OtherSources :
                CountUpTo(frames, n, source) = CountUpTo(recording, cursor - 1, source)
        BY <1>3 DEF IInv, Counted, OtherSources
      <3>. QED  BY <1>2, <1>7, <3>1, ReachedNext
    <2>2. \A c \in Channels : CountUpTo(t, n + 1, <<COMPONENT_ACTOR_ID, c>>) = effect_sequences[c]
      <3>1. \A c \in Channels : CountUpTo(frames, n, <<COMPONENT_ACTOR_ID, c>>) = effect_sequences[c]
        BY <1>3 DEF IInv, Counted
      <3>2. \A c \in Channels : Source(f) # <<COMPONENT_ACTOR_ID, c>>
        BY <1>2 DEF Source
      <3>. QED  BY <1>7, <3>1, <3>2
    <2>3. /\ effect_sequences \in [Channels -> Nat]
          /\ session_sequence = CountUpTo(recording, cursor - 1, SessionSource)
      BY <1>3 DEF IInv, Counted
    <2>. QED  BY <1>1, <1>3, <1>7, <2>1, <2>2, <2>3 DEF Counted, OtherSources
  <1>13. Passed'
    BY <1>1, <1>2, <1>3, <1>7, ReachedNext DEF IInv, Passed
  <1>14. \A p \in 1..Len(frames') : InWork(p)' => p = n + 1
    <2>. SUFFICES ASSUME NEW p \in 1..(n + 1), InWork(p)', p # n + 1 PROVE FALSE
      BY <1>1, <1>7
    <2>1. n + 1 \in (p + 1)..Len(frames')
      BY <1>1, <1>4, <1>7
    <2>2. frames'[n + 1].type = "GoalSend"
      BY <2>1 DEF InWork
    <2>. QED  BY <1>1, <1>2, <1>7, <2>2
  <1>15. Working'
    <2>1. PICK p \in Nat : p = n + 1
      BY <1>4
    <2>2. p \in 1..Len(frames') /\ p - 1 = n /\ ~\E j \in (p + 1)..Len(frames') : TRUE
      BY <1>1, <1>4, <1>7, <2>1
    <2>3. frames'[p] = [recording'[cursor'] EXCEPT !.ordinal = p - 1]
      BY <1>1, <1>2, <1>7, <2>1, <2>2
    <2>4. InWork(p)'
      BY <2>2, <2>3 DEF InWork
    <2>. QED  BY <1>1, <1>2, <2>2, <2>4 DEF Working
  <1>16. Caused'
    <2>1. /\ steps \in Seq(StepPair) /\ effects \in Seq(Nat \X Nat)
          /\ \A j \in 1..(cursor - 1) :
                recording[j].type \in InputTypes => StartedBy(steps, j - 1, n)
          /\ \A i \in 1..Len(effects) : effects[i][2] < n
          /\ \A i \in 1..Len(effects) : StartedBy(steps, effects[i][1], effects[i][2])
          /\ \A i \in 1..Len(effects) : effects[i][1] \in Nat /\ effects[i][2] \in Nat
      BY DEF IInv, Caused
    <2>2. PICK e : e \in StepPair
      <3>1. <<0, 0>> \in StepPair
        BY DEF StepPair
      <3>. QED  BY <3>1
    <2>3. \A c, k, m : k \in Int /\ m \in Int /\ k <= m /\ StartedBy(steps, c, k) => StartedBy(steps, c, m)
      BY <2>1, <2>2, StaysStarted
    <2>4. ASSUME NEW c \in Authorized
          PROVE  c \in Nat /\ (c = cursor - 1 \/ StartedBy(steps, c, n + 1))
      <3>1. CASE c = f.ordinal
        BY <1>2, <3>1
      <3>2. CASE f.type = "Clock" /\ c = f.body.callback
        <4>1. PICK j \in 1..(cursor - 1) : recording[j].type \in InputTypes /\ c = j - 1
          BY <1>2, <3>2 DEF IInv, RecordingInv
        <4>2. StartedBy(steps, j - 1, n) /\ n <= n + 1 /\ c \in Nat
          BY <1>2, <1>4, <2>1, <4>1
        <4>. QED  BY <1>4, <2>3, <4>1, <4>2
      <3>3. CASE NamesRequest /\ c \in {x[1] : x \in {y \in ToSet(effects) : \E i \in Issued : y[2] = i - 1}}
        <4>1. PICK k \in DOMAIN effects : c = effects[k][1]
          BY <3>3 DEF ToSet
        <4>2. k \in 1..Len(effects)
          BY <2>1, <4>1
        <4>3. /\ effects[k][2] \in Nat /\ effects[k][2] < n /\ c \in Nat
              /\ StartedBy(steps, c, effects[k][2])
          BY <2>1, <4>1, <4>2
        <4>4. effects[k][2] \in Int /\ n + 1 \in Int /\ effects[k][2] <= n + 1
          BY <1>4, <4>3
        <4>. QED  BY <2>3, <4>3, <4>4
      <3>. QED  BY <3>1, <3>2, <3>3 DEF Authorized, f
    <2>5. \A j \in 1..(cursor - 1) :
              recording[j].type \in InputTypes => StartedBy(steps, j - 1, n + 1)
      <3>. TAKE j \in 1..(cursor - 1)
      <3>1. n \in Int /\ n + 1 \in Int /\ n <= n + 1
        BY <1>4
      <3>2. StartedBy(steps, j - 1, n) => StartedBy(steps, j - 1, n + 1)
        BY <2>3, <3>1
      <3>. QED  BY <2>1, <3>2
    <2>6. \A i \in 1..Len(effects) : effects[i][2] < n + 1
      BY <1>4, <2>1
    <2>7. \A p \in 1..Len(frames') : InWork(p)' =>
            /\ \A c \in authorized' : c = cursor - 1 \/ StartedBy(steps, c, p)
            /\ \A i \in 1..Len(effects) :
                  \/ StartedBy(steps, effects[i][1], effects[i][2])
                  \/ effects[i][1] = cursor - 1 /\ effects[i][2] >= p
      BY <1>1, <1>14, <2>1, <2>4
    <2>8. authorized' \subseteq Nat /\ Len(frames') = n + 1
      BY <1>1, <1>7, <2>4
    <2>. QED  BY <1>1, <2>1, <2>5, <2>6, <2>7, <2>8 DEF Caused
  <1>. QED
    BY <1>1, <1>8, <1>9, <1>10, <1>11, <1>12, <1>13, <1>15, <1>16 DEF IInv, Done

\* While a step is on: the input in work, its place and what follows it.
LEMMA InStep ==
    ASSUME IInv, phase = "stepping"
    PROVE  /\ Streams(frames) /\ Len(frames) \in Nat /\ Len(frames) # 0 /\ cursor > 1
           /\ frames[1].body = [uuid |-> 1]
           /\ cursor \in 1..Len(recording) /\ Recorded = recording[cursor] /\ Recorded \in Wire
           /\ Recorded.ordinal = cursor - 1 /\ Recorded.type \in InputTypes
           /\ \E p \in 1..Len(frames) : InWork(p)
           /\ \A p \in 1..Len(frames) : InWork(p) =>
                 frames[p].type = Recorded.type /\ frames[p].type # "GoalSend"
  <1>1. /\ Streams(frames) /\ Len(frames) \in Nat /\ frames # <<>> /\ frames[1].body = [uuid |-> 1]
        /\ cursor > 1
    <2>1. Started /\ cursor > 1
      BY DEF Started, IInv, CursorInv
    <2>. QED  BY <2>1, StreamsAre DEF IInv, StreamInv
  <1>2. Len(frames) # 0
    BY <1>1, EmptySeq DEF Streams
  <1>3. /\ cursor \in 1..Len(recording) /\ Recorded = recording[cursor] /\ Recorded \in Wire
        /\ Recorded.ordinal = cursor - 1 /\ Recorded.type \in InputTypes
        /\ \E p \in 1..Len(frames) : InWork(p)
    BY AtCursor DEF IInv, Working
  <1>4. ASSUME NEW p \in 1..Len(frames), InWork(p)
        PROVE  frames[p].type = Recorded.type /\ frames[p].type # "GoalSend"
    <2>1. frames[p] = [Recorded EXCEPT !.ordinal = p - 1] /\ p - 1 \in Nat
      BY <1>3, <1>4 DEF InWork
    <2>2. [Recorded EXCEPT !.ordinal = p - 1].type = Recorded.type
      BY <1>3, <2>1, Renumbered
    <2>. QED  BY <1>3, <2>1, <2>2 DEF InputTypes
  <1>. QED  BY <1>1, <1>2, <1>3, <1>4

\* The effects an adapter may send.
LEMMA WiredFrames ==
    ASSUME effect_sequences \in [Channels -> Nat], NEW src \in {COMPONENT_ACTOR_ID, PEER},
           NEW c \in Channels, NEW ahead \in {0, 1}, NEW type \in {"GoalSend", "Message"},
           NEW b \in Bodies
    PROVE  LET f == Wired(src, c, ahead, type, b) IN
           /\ f \in Wire /\ f.kind = kind(f.type) /\ f.channel \in Channels
           /\ f.type \in {"GoalSend", "Message"}
  <1>. DEFINE source == <<src, c>>
              seq == effect_sequences[c] + ahead
              f == Frame(0, source, PEER, seq, type, [value |-> b])
  <1>1. /\ type \in UsedTypes /\ PEER \in Nat /\ source \in Sources /\ source[2] = c
        /\ 0 \in Nat /\ seq \in Nat
    BY SourcesUsed DEF UsedTypes, InputTypes, PEER, Channels, Sources
  <1>2. [value |-> b] \in WireBody
    BY BodiesUsed
  <1>3. Wired(src, c, ahead, type, b) = f
    BY DEF Wired
  <1>. HIDE DEF source, seq
  <1>4. Made(f, 0, source, PEER, seq, type, [value |-> b])
    BY <1>1, <1>2, FrameIsWire
  <1>. HIDE DEF f
  <1>. QED  BY <1>1, <1>3, <1>4 DEF Made

LEMMA EffectStep == ASSUME IInv, ReceiveEffect PROVE IInv'
  <1>0. phase = "stepping" /\ Started
    BY DEF ReceiveEffect, Started
  <1>1. PICK step \in Ordinals, callback \in Ordinals, src \in {COMPONENT_ACTOR_ID, PEER},
             ch \in Channels, ahead \in {0, 1}, type \in {"GoalSend", "Message"}, b \in Bodies :
          LET f == Wired(src, ch, ahead, type, b) IN
          IF Attributed(step, callback) /\ EffectAllowed(f)
          THEN /\ frames' = push(f)
               /\ effects' = Append(effects, <<callback, Len(frames)>>)
               /\ effect_sequences' = [effect_sequences EXCEPT ![f.channel] = @ + 1]
               /\ UNCHANGED <<recording, phase, cursor, steps, authorized,
                              session_sequence, stop>>
          ELSE Error
    BY DEF ReceiveEffect
  <1>2. CASE Error
    BY <1>0, <1>2, ErrorStep
  <1>. SUFFICES ASSUME ~Error PROVE IInv'
    BY <1>2
  <1>. DEFINE f == Wired(src, ch, ahead, type, b)
              n == Len(frames)
              t == push(f)
              effect == <<callback, n>>
  <1>3. /\ callback \in authorized /\ EffectAllowed(f) /\ frames' = t
        /\ effects' = Append(effects, effect)
        /\ effect_sequences' = [effect_sequences EXCEPT ![f.channel] = @ + 1]
        /\ recording' = recording /\ phase' = "stepping" /\ cursor' = cursor /\ steps' = steps
        /\ authorized' = authorized /\ session_sequence' = session_sequence
    BY <1>0, <1>1 DEF Attributed, OfThisCallback
  <1>4. effect_sequences \in [Channels -> Nat]
    BY <1>0 DEF IInv, Counted
  <1>a. /\ f \in Wire /\ f.kind = kind(f.type) /\ f.channel \in Channels
        /\ f.type \in {"GoalSend", "Message"}
    BY <1>4, WiredFrames
  <1>. HIDE DEF f
  <1>5. /\ f \in Wire /\ f.kind = kind(f.type) /\ f.channel \in Channels /\ f.type = "GoalSend"
        /\ f.src = COMPONENT_ACTOR_ID /\ f.seq = effect_sequences[f.channel]
    <2>1. IsEmit(f) <=> f.type = "GoalSend"
      BY <1>a, WireFields, Kinds
    <2>. QED  BY <1>3, <1>a, <2>1 DEF EffectAllowed
  <1>6. Source(f) = <<COMPONENT_ACTOR_ID, f.channel>>
    BY <1>5 DEF Source
  <1>7. /\ Streams(frames) /\ n \in Nat /\ n # 0 /\ cursor > 1 /\ frames[1].body = [uuid |-> 1]
        /\ \A p \in 1..n : InWork(p) => frames[p].type # "GoalSend"
        /\ \E p \in 1..n : InWork(p)
        /\ Recorded.type \in InputTypes /\ Recorded \in Wire /\ Recorded = recording[cursor]
    BY <1>0, InStep
  <1>8. Suits(f)
    <2>1. f.seq = CountUpTo(frames, n, Source(f))
      BY <1>0, <1>5, <1>6 DEF IInv, Counted
    <2>2. HasMarkerTuple(f)
      BY <1>5 DEF HasMarkerTuple
    <2>. QED  BY <1>5, <1>7, <2>1, <2>2 DEF Suits
  <1>9. /\ Streams(t) /\ Len(t) = n + 1 /\ \A i \in 1..n : t[i] = frames[i]
        /\ t[n + 1].type = "GoalSend"
        /\ \A source : CountUpTo(t, n + 1, source) =
              IF Source(f) = source THEN CountUpTo(frames, n, source) + 1
              ELSE CountUpTo(frames, n, source)
        /\ InputsOf(t) = InputsOf(frames)
    BY <1>5, <1>7, <1>8, Push
  <1>10. ResponsesAnswerThisRun'
    BY <1>0, <1>3, <1>5, <1>7, <1>8, PushAnswers DEF IInv
  <1>. HIDE DEF t
  <1>11. RecordingInv'
    BY <1>0, <1>3, RecordingStays
  <1>12. CursorInv'
    BY <1>0, <1>3 DEF IInv, CursorInv
  <1>13. StreamInv'
    <2>1. 1 \in 1..n /\ t # <<>>
      BY <1>7, <1>9, EmptySeq
    <2>. QED  BY <1>3, <1>7, <1>9, <2>1 DEF StreamInv, Streams
  <1>14. Reached' = cursor /\ Reached = cursor
    BY <1>0, <1>3 DEF Reached
  <1>15. Counted'
    <2>1. \A source \in OtherSources : CountUpTo(t, n + 1, source) = CountUpTo(recording, cursor, source)
      <3>1. \A source \in OtherSources : Source(f) # source
        BY <1>6 DEF OtherSources
      <3>2. \A source \in OtherSources :
                CountUpTo(frames, n, source) = CountUpTo(recording, cursor, source)
        BY <1>0, <1>14 DEF IInv, Counted, OtherSources
      <3>. QED  BY <1>9, <3>1, <3>2
    <2>2. \A c \in Channels : CountUpTo(t, n + 1, <<COMPONENT_ACTOR_ID, c>>) = effect_sequences'[c]
      <3>1. \A c \in Channels : CountUpTo(frames, n, <<COMPONENT_ACTOR_ID, c>>) = effect_sequences[c]
        BY <1>0 DEF IInv, Counted
      <3>2. \A c \in Channels : Source(f) = <<COMPONENT_ACTOR_ID, c>> <=> c = f.channel
        BY <1>6
      <3>3. \A c \in Channels : effect_sequences'[c] = IF c = f.channel THEN effect_sequences[c] + 1
                                                       ELSE effect_sequences[c]
        BY <1>3, <1>4, <1>5
      <3>. QED  BY <1>9, <3>1, <3>2, <3>3
    <2>3. effect_sequences' \in [Channels -> Nat]
      BY <1>3, <1>4, <1>5
    <2>4. session_sequence = CountUpTo(recording, cursor - 1, SessionSource)
      BY <1>0 DEF IInv, Counted
    <2>. QED  BY <1>3, <1>9, <1>14, <2>1, <2>2, <2>3, <2>4 DEF Counted, OtherSources
  <1>16. Passed'
    BY <1>0, <1>3, <1>9, <1>14 DEF IInv, Passed
  <1>17. \A p \in 1..Len(frames') : InWork(p)' <=> p \in 1..n /\ InWork(p)
    <2>. SUFFICES ASSUME NEW p \in 1..(n + 1) PROVE InWork(p)' <=> p \in 1..n /\ InWork(p)
      BY <1>3, <1>9
    <2>1. CASE p \in 1..n
      <3>1. \A j \in (p + 1)..(n + 1) : j \in (p + 1)..n \/ j = n + 1
        BY <1>7, <2>1
      <3>2. \A j \in (p + 1)..n : j \in (p + 1)..(n + 1) /\ j \in 1..n
        BY <1>7, <2>1
      <3>. QED  BY <1>3, <1>9, <2>1, <3>1, <3>2 DEF InWork
    <2>2. CASE p = n + 1
      <3>1. ASSUME InWork(p)' PROVE FALSE
        <4>1. t[n + 1] = [Recorded EXCEPT !.ordinal = p - 1] /\ p - 1 \in Nat
          BY <1>3, <1>7, <2>2, <3>1 DEF InWork
        <4>2. [Recorded EXCEPT !.ordinal = p - 1].type = Recorded.type
          BY <1>7, <4>1, Renumbered
        <4>. QED  BY <1>7, <1>9, <4>1, <4>2 DEF InputTypes
      <3>2. p \notin 1..n
        BY <1>7, <2>2
      <3>. QED  BY <3>1, <3>2
    <2>. QED  BY <1>7, <2>1, <2>2
  <1>18. Working'
    <2>1. PICK p \in 1..n : InWork(p)
      BY <1>7
    <2>2. p \in 1..Len(frames')
      BY <1>3, <1>7, <1>9
    <2>. QED  BY <1>3, <1>7, <1>17, <2>1, <2>2 DEF Working
  <1>19. Caused'
    <2>1. /\ steps \in Seq(StepPair) /\ effects \in Seq(Nat \X Nat) /\ authorized \subseteq Nat
          /\ \A j \in 1..(cursor - 1) :
                recording[j].type \in InputTypes => StartedBy(steps, j - 1, n)
          /\ \A i \in 1..Len(effects) : effects[i][2] < n /\ effects[i][2] \in Nat
          /\ \A p \in 1..n : InWork(p) =>
                /\ \A c \in authorized : c = cursor - 1 \/ StartedBy(steps, c, p)
                /\ \A i \in 1..Len(effects) :
                      \/ StartedBy(steps, effects[i][1], effects[i][2])
                      \/ effects[i][1] = cursor - 1 /\ effects[i][2] >= p
      BY <1>0 DEF IInv, Caused
    <2>2. PICK e : e \in StepPair
      <3>1. <<0, 0>> \in StepPair
        BY DEF StepPair
      <3>. QED  BY <3>1
    <2>3. \A c, k, m : k \in Int /\ m \in Int /\ k <= m /\ StartedBy(steps, c, k) => StartedBy(steps, c, m)
      BY <2>1, <2>2, StaysStarted
    <2>4. effect \in Nat \X Nat /\ effect[1] = callback /\ effect[2] = n
      BY <1>3, <1>7, <2>1
    <2>. HIDE DEF effect
    <2>5. /\ effects' \in Seq(Nat \X Nat) /\ Len(effects') = Len(effects) + 1
          /\ effects'[Len(effects) + 1] = effect
          /\ \A i \in 1..Len(effects) : effects'[i] = effects[i]
          /\ \A i \in 1..Len(effects') : i \in 1..Len(effects) \/ i = Len(effects) + 1
      BY <1>3, <2>1, <2>4, AppendProperties
    <2>6. \A j \in 1..(cursor - 1) :
              recording[j].type \in InputTypes => StartedBy(steps, j - 1, n + 1)
      <3>. TAKE j \in 1..(cursor - 1)
      <3>1. n \in Int /\ n + 1 \in Int /\ n <= n + 1
        BY <1>7
      <3>2. StartedBy(steps, j - 1, n) => StartedBy(steps, j - 1, n + 1)
        BY <2>3, <3>1
      <3>. QED  BY <2>1, <3>2
    <2>7. \A i \in 1..Len(effects') : effects'[i][2] < n + 1
      <3>. TAKE i \in 1..Len(effects')
      <3>1. CASE i \in 1..Len(effects)
        <4>1. effects'[i][2] = effects[i][2] /\ effects[i][2] < n /\ effects[i][2] \in Nat
          BY <2>1, <2>5, <3>1
        <4>. QED  BY <1>7, <4>1
      <3>2. CASE i = Len(effects) + 1
        <4>1. effects'[i][2] = n
          BY <2>4, <2>5, <3>2
        <4>. QED  BY <1>7, <4>1
      <3>. QED  BY <2>5, <3>1, <3>2
    <2>8. ASSUME NEW p \in 1..n, InWork(p)
          PROVE  /\ \A c \in authorized : c = cursor - 1 \/ StartedBy(steps, c, p)
                 /\ \A i \in 1..Len(effects') :
                      \/ StartedBy(steps, effects'[i][1], effects'[i][2])
                      \/ effects'[i][1] = cursor - 1 /\ effects'[i][2] >= p
      <3>1. callback = cursor - 1 \/ StartedBy(steps, callback, n)
        <4>1. callback = cursor - 1 \/ StartedBy(steps, callback, p)
          BY <1>3, <2>1, <2>8
        <4>2. p \in Int /\ n \in Int /\ p <= n
          BY <1>7
        <4>. QED  BY <2>3, <4>1, <4>2
      <3>2. n >= p
        BY <1>7
      <3>. QED  BY <2>1, <2>4, <2>5, <2>8, <3>1, <3>2
    <2>. QED  BY <1>3, <1>9, <1>17, <2>1, <2>5, <2>6, <2>7, <2>8 DEF Caused
  <1>. QED
    BY <1>3, <1>10, <1>11, <1>12, <1>13, <1>15, <1>16, <1>18, <1>19 DEF IInv, Done

LEMMA Stutter == ASSUME IInv, UNCHANGED vars PROVE IInv'
  <1>1. /\ recording' = recording /\ phase' = phase /\ cursor' = cursor /\ frames' = frames
        /\ steps' = steps /\ effects' = effects /\ authorized' = authorized
        /\ session_sequence' = session_sequence /\ effect_sequences' = effect_sequences
    BY DEF vars, run
  <1>2. RecordingInv' /\ CursorInv'
    BY <1>1 DEF IInv, RecordingInv, CursorInv
  <1>3. StreamInv'
    BY <1>1 DEF IInv, StreamInv, Started
  <1>4. Counted'
    BY <1>1 DEF IInv, Counted, Started, Reached
  <1>5. Working' /\ Passed'
    BY <1>1 DEF IInv, Working, InWork, Passed, Started, Reached
  <1>6. Caused'
    BY <1>1 DEF IInv, Caused, InWork
  <1>7. (phase # "recording" => ResponsesAnswerThisRun)' /\ Done'
    BY <1>1 DEF IInv, ResponsesAnswerThisRun, Done
  <1>. QED  BY <1>2, <1>3, <1>4, <1>5, <1>6, <1>7 DEF IInv

LEMMA ProgressStep == ASSUME IInv, ReceiveProgress PROVE IInv'
  <1>1. phase = "stepping"
    BY DEF ReceiveProgress
  <1>2. CASE Error
    BY <1>1, <1>2, ErrorStep
  <1>3. CASE UNCHANGED vars
    BY <1>3, Stutter
  <1>. QED  BY <1>2, <1>3 DEF ReceiveProgress

\* The replayed ordinal is that of the input in work.
LEMMA ReplayedOrdinal ==
    ASSUME IInv, phase = "stepping", NEW p \in 1..Len(frames), InWork(p)
    PROVE  replayed_ordinal = p - 1
  <1>1. Streams(frames) /\ Len(frames) \in Nat /\ frames[p].type # "GoalSend"
    BY InStep
  <1>2. \A i \in DOMAIN frames : IsEmit(frames[i]) <=> frames[i].type = "GoalSend"
    BY <1>1, Kinds, WireFields DEF Streams
  <1>3. DOMAIN frames = 1..Len(frames)
    BY <1>1 DEF Streams
  <1>4. p \in Inputs /\ Inputs \subseteq 1..Len(frames)
    BY <1>1, <1>2, <1>3 DEF Inputs
  <1>5. \A j \in Inputs : j <= p
    <2>. SUFFICES ASSUME NEW j \in Inputs, ~(j <= p) PROVE FALSE
      OBVIOUS
    <2>1. j \in 1..Len(frames) /\ j \in (p + 1)..Len(frames)
      BY <1>1, <1>4
    <2>2. frames[j].type = "GoalSend"
      BY <2>1 DEF InWork
    <2>. QED  BY <1>2, <1>3, <2>1, <2>2 DEF Inputs
  <1>6. \A i \in Inputs : (\A j \in Inputs : j <= i) => i = p
    BY <1>1, <1>4, <1>5
  <1>. QED  BY <1>4, <1>5, <1>6 DEF replayed_ordinal

\* The input, consumed or not, is behind the cursor.
LEMMA SteppedStep == ASSUME IInv, ReceiveStepped PROVE IInv'
  <1>0. phase = "stepping"
    BY DEF ReceiveStepped
  <1>1. /\ Streams(frames) /\ Len(frames) \in Nat /\ cursor > 1
        /\ cursor \in 1..Len(recording) /\ Recorded = recording[cursor] /\ Recorded \in Wire
        /\ Recorded.ordinal = cursor - 1 /\ Recorded.type \in InputTypes
    BY <1>0, InStep
  <1>2. PICK p \in 1..Len(frames) : InWork(p)
    BY <1>0, InStep
  <1>. DEFINE e == <<cursor - 1, p - 1>>
  <1>3. /\ phase' = "delivering" /\ cursor' = cursor + 1 /\ recording' = recording
        /\ frames' = frames /\ effects' = effects /\ effect_sequences' = effect_sequences
        /\ steps' = Append(steps, e) /\ session_sequence' = CountedSession
    BY <1>0, <1>1, <1>2, ReplayedOrdinal DEF ReceiveStepped, AfterInput
  <1>4. e \in StepPair /\ e[1] = cursor - 1 /\ e[2] = p - 1 /\ p - 1 \in Nat
    BY <1>1 DEF StepPair
  <1>. HIDE DEF e
  <1>5. /\ cursor < Len(recording) /\ Recorded.type \notin {"Gap", "End", "GoalSend"}
        /\ FitsAt(recording, cursor) /\ Recorded.seq = CountUpTo(recording, cursor - 1, Source(Recorded))
    BY <1>0, <1>1, AtCursor DEF InputTypes, FitsAt
  <1>6. RecordingInv'
    BY <1>0, <1>3, RecordingStays
  <1>7. CursorInv'
    <2>1. \A j \in 1..cursor : j \in 1..(cursor - 1) \/ j = cursor
      BY <1>1
    <2>2. \A j \in 1..(cursor' - 1) : recording[j].type \notin {"Gap", "End"}
      BY <1>1, <1>3, <1>5, <2>1 DEF IInv, CursorInv
    <2>. QED  BY <1>1, <1>3, <1>5, <2>2 DEF CursorInv
  <1>8. StreamInv'
    <2>1. Started
      BY <1>0 DEF Started
    <2>. QED  BY <1>1, <1>3, <2>1 DEF IInv, StreamInv
  <1>9. Started /\ Started' /\ Reached = cursor /\ Reached' = cursor /\ cursor' - 1 = cursor
    BY <1>0, <1>1, <1>3 DEF Started, Reached
  <1>10. Counted'
    <2>1. session_sequence' = CountUpTo(recording, cursor, SessionSource)
      <3>1. session_sequence = CountUpTo(recording, cursor - 1, SessionSource)
        BY <1>9 DEF IInv, Counted
      <3>2. CountUpTo(recording, cursor, SessionSource) =
                IF Source(Recorded) = SessionSource
                THEN CountUpTo(recording, cursor - 1, SessionSource) + 1
                ELSE CountUpTo(recording, cursor - 1, SessionSource)
        BY <1>1, ReachedNext
      <3>. QED  BY <1>3, <1>5, <3>1, <3>2 DEF CountedSession
    <2>. QED  BY <1>3, <1>9, <2>1 DEF IInv, Counted
  <1>11. Passed'
    BY <1>3, <1>9 DEF IInv, Passed
  <1>12. Caused'
    <2>1. /\ steps \in Seq(StepPair) /\ effects \in Seq(Nat \X Nat)
          /\ \A j \in 1..(cursor - 1) :
                recording[j].type \in InputTypes => StartedBy(steps, j - 1, Len(frames))
          /\ \A i \in 1..Len(effects) : effects[i][2] < Len(frames) /\ effects[i][2] \in Nat
          /\ \A i \in 1..Len(effects) :
                \/ StartedBy(steps, effects[i][1], effects[i][2])
                \/ effects[i][1] = cursor - 1 /\ effects[i][2] >= p
      <3>1. /\ Caused /\ effects \in Seq(Nat \X Nat)
            /\ \A i \in 1..Len(effects) : effects[i] \in Nat \X Nat
        BY DEF IInv, Caused
      <3>2. \A i \in 1..Len(effects) : effects[i][2] \in Nat
        BY <3>1
      <3>. QED  BY <1>0, <1>2, <3>1, <3>2 DEF Caused
    <2>2. \A c, n : n \in Int /\ StartedBy(steps, c, n) => StartedBy(steps', c, n)
      <3>1. \A n \in Int : n <= n
        OBVIOUS
      <3>. QED  BY <1>3, <1>4, <2>1, <3>1, StaysStarted
    <2>3. \A n \in Int : n >= p => StartedBy(steps', cursor - 1, n)
      <3>. SUFFICES ASSUME NEW n \in Int, n >= p PROVE StartedBy(steps', cursor - 1, n)
        OBVIOUS
      <3>1. Len(steps) + 1 \in 1..Len(steps') /\ steps'[Len(steps) + 1] = e
        BY <1>3, <1>4, <2>1
      <3>2. p - 1 < n
        BY <1>1
      <3>3. /\ steps'[Len(steps) + 1][1] = cursor - 1 /\ steps'[Len(steps) + 1][2] \in Nat
            /\ steps'[Len(steps) + 1][2] < n
        BY <1>4, <3>1, <3>2
      <3>. QED  BY <3>1, <3>3, Zenon DEF StartedBy
    <2>4. \A j \in 1..(cursor' - 1) :
              recording[j].type \in InputTypes => StartedBy(steps', j - 1, Len(frames))
      <3>. TAKE j \in 1..(cursor' - 1)
      <3>1. CASE j \in 1..(cursor - 1)
        BY <1>1, <2>1, <2>2, <3>1
      <3>2. CASE j = cursor
        BY <1>1, <2>3, <3>2
      <3>. QED  BY <1>1, <1>9, <3>1, <3>2
    <2>5. \A i \in 1..Len(effects) : StartedBy(steps', effects[i][1], effects[i][2])
      <3>. TAKE i \in 1..Len(effects)
      <3>1. effects[i][2] \in Int
        BY <2>1
      <3>2. CASE StartedBy(steps, effects[i][1], effects[i][2])
        BY <2>2, <3>1, <3>2
      <3>3. CASE effects[i][1] = cursor - 1 /\ effects[i][2] >= p
        BY <2>3, <3>1, <3>3
      <3>. QED  BY <2>1, <3>2, <3>3
    <2>6. steps' \in Seq(StepPair)
      BY <1>3, <1>4, <2>1
    <2>. QED  BY <1>3, <2>1, <2>4, <2>5, <2>6 DEF Caused
  <1>13. ResponsesAnswerThisRun'
    BY <1>0, <1>3 DEF IInv, ResponsesAnswerThisRun
  <1>. QED
    BY <1>3, <1>6, <1>7, <1>8, <1>10, <1>11, <1>12, <1>13 DEF IInv, Working, Done

\* A refused input, which no effect follows, leaves the stream again.
LEMMA RefusedStep == ASSUME IInv, ReceiveRefused PROVE IInv'
  <1>0. phase = "stepping" /\ Started /\ Reached = cursor
    BY DEF ReceiveRefused, Started, Reached
  <1>1. CASE Error
    BY <1>0, <1>1, ErrorStep
  <1>. SUFFICES ASSUME ~Error PROVE IInv'
    BY <1>1
  <1>2. /\ Streams(frames) /\ Len(frames) \in Nat /\ Len(frames) # 0 /\ cursor > 1
        /\ frames[1].body = [uuid |-> 1]
        /\ cursor \in 1..Len(recording) /\ Recorded = recording[cursor] /\ Recorded \in Wire
        /\ Recorded.ordinal = cursor - 1 /\ Recorded.type \in InputTypes
    BY <1>0, InStep
  <1>3. PICK p \in 1..Len(frames) : InWork(p)
    BY <1>0, InStep
  <1>. DEFINE e == <<cursor - 1, Nothing>>
              t == SubSeq(frames, 1, p - 1)
  <1>4. /\ p = Len(frames) /\ phase' = "finishing" /\ recording' = recording /\ cursor' = cursor
        /\ frames' = t /\ steps' = Append(steps, e) /\ effects' = effects
        /\ session_sequence' = session_sequence /\ effect_sequences' = effect_sequences
    <2>1. replayed_ordinal + 1 = p
      BY <1>0, <1>3, ReplayedOrdinal
    <2>. QED  BY <1>2, <2>1 DEF ReceiveRefused, AfterRefusal, Popped, Front
  <1>5. e \in StepPair
    BY <1>2 DEF StepPair
  <1>. HIDE DEF e
  <1>6. /\ frames \in Seq(Wire) /\ frames[p] \in Wire /\ frames[p].type = Recorded.type
        /\ frames[p].type \notin {"GoalSend", "End", "Session"} /\ FitsAt(frames, p)
        /\ Source(frames[p]) = Source(Recorded) /\ Unnumbered(frames[p]) = Unnumbered(Recorded)
        /\ p > 1 /\ frames[p].src # COMPONENT_ACTOR_ID
    <2>1. frames \in Seq(Wire) /\ frames[p] \in Wire /\ FitsAt(frames, p)
      BY <1>2 DEF Streams
    <2>2. frames[p] = [Recorded EXCEPT !.ordinal = p - 1] /\ p - 1 \in Nat
      BY <1>2, <1>3 DEF InWork
    <2>3. /\ frames[p].type = Recorded.type /\ Source(frames[p]) = Source(Recorded)
          /\ Unnumbered(frames[p]) = Unnumbered(Recorded)
      BY <1>2, <2>2, Renumbered
    <2>4. frames[p].type \notin {"GoalSend", "End", "Session"}
      BY <1>2, <2>3 DEF InputTypes
    <2>5. p # 1 /\ frames[p].src # COMPONENT_ACTOR_ID
      BY <2>1, <2>4 DEF FitsAt
    <2>. QED  BY <2>1, <2>3, <2>4, <2>5
  <1>7. /\ t \in Seq(Wire) /\ frames = Append(t, frames[p]) /\ Len(t) = p - 1 /\ p - 1 \in Nat
        /\ \A i \in 1..(p - 1) : t[i] = frames[i]
    <2>1. t \in Seq(Wire) /\ SubSeq(frames, 1, p) = Append(t, frames[p])
      BY <1>6, PrefixStep
    <2>2. SubSeq(frames, 1, p) = frames
      BY <1>4, <1>6, SubSeqFull
    <2>3. Len(t) = p - 1 /\ \A i \in 1..(p - 1) : t[i] = frames[i]
      BY <1>4, <1>6
    <2>. HIDE DEF t
    <2>. QED  BY <2>1, <2>2, <2>3
  <1>. HIDE DEF t
  <1>8. RecordingInv'
    BY <1>0, <1>4, RecordingStays
  <1>9. CursorInv'
    BY <1>2, <1>4 DEF IInv, CursorInv
  <1>10. StreamInv'
    <2>1. \A i \in 1..(p - 1) : FitsAt(frames, i) /\ frames[i].type \notin {"Gap", "End"}
      BY <1>2, <1>4 DEF Streams
    <2>2. \A i \in 1..(p - 1) : FitsAt(t, i)
      BY <1>7, <2>1, FitsPrefix
    <2>3. t # <<>> /\ t[1] = frames[1]
      BY <1>6, <1>7, EmptySeq
    <2>. QED  BY <1>2, <1>4, <1>7, <2>1, <2>2, <2>3 DEF StreamInv
  <1>11. Started' /\ Reached' = cursor - 1
    BY <1>4 DEF Started, Reached
  <1>12. \A source : /\ CountUpTo(t, p - 1, source) \in Nat
                     /\ CountUpTo(recording, cursor - 1, source) \in Nat
                     /\ CountUpTo(frames, p, source) =
                            IF Source(Recorded) = source THEN CountUpTo(t, p - 1, source) + 1
                            ELSE CountUpTo(t, p - 1, source)
    <2>. TAKE source
    <2>1. CountUpTo(Append(t, frames[p]), Len(t) + 1, source) =
              IF Source(frames[p]) = source THEN CountUpTo(t, Len(t), source) + 1
              ELSE CountUpTo(t, Len(t), source)
      BY <1>6, <1>7, CountAppend
    <2>2. Len(t) + 1 = p /\ cursor - 1 \in Nat
      BY <1>2, <1>7
    <2>. QED  BY <1>6, <1>7, <2>1, <2>2, CountType
  <1>13. Counted'
    <2>1. \A source \in OtherSources :
              CountUpTo(t, p - 1, source) = CountUpTo(recording, cursor - 1, source)
      <3>. TAKE source \in OtherSources
      <3>1. CountUpTo(frames, p, source) = CountUpTo(recording, cursor, source)
        BY <1>0, <1>4 DEF IInv, Counted, OtherSources
      <3>2. CountUpTo(recording, cursor, source) =
                IF Source(Recorded) = source THEN CountUpTo(recording, cursor - 1, source) + 1
                ELSE CountUpTo(recording, cursor - 1, source)
        BY <1>2, ReachedNext
      <3>. QED  BY <1>12, <3>1, <3>2
    <2>2. \A c \in Channels : CountUpTo(t, p - 1, <<COMPONENT_ACTOR_ID, c>>) = effect_sequences[c]
      <3>1. \A c \in Channels : CountUpTo(frames, p, <<COMPONENT_ACTOR_ID, c>>) = effect_sequences[c]
        BY <1>0, <1>4 DEF IInv, Counted
      <3>2. \A c \in Channels : Source(Recorded) # <<COMPONENT_ACTOR_ID, c>>
        <4>1. Source(frames[p])[1] # COMPONENT_ACTOR_ID
          BY <1>6, WireFields
        <4>. QED  BY <1>6, <4>1
      <3>. QED  BY <1>12, <3>1, <3>2
    <2>3. /\ effect_sequences \in [Channels -> Nat]
          /\ session_sequence = CountUpTo(recording, cursor - 1, SessionSource)
      BY <1>0 DEF IInv, Counted
    <2>. QED  BY <1>4, <1>7, <1>11, <2>1, <2>2, <2>3 DEF Counted, OtherSources
  <1>14. Passed'
    <2>. DEFINE before == InputsOf(SubSeq(recording, 1, cursor - 1))
                now == InputsOf(t)
                x == Unnumbered(Recorded)
    <2>1. InputsOf(frames) = Append(now, x)
      BY <1>6, <1>7, InputsAppend
    <2>2. InputsOf(SubSeq(recording, 1, cursor)) = Append(before, x) /\ before \in Seq(Wire)
      BY <1>2, ReachedNext DEF InputTypes
    <2>3. InputsOf(frames) = InputsOf(SubSeq(recording, 1, cursor))
      BY <1>0 DEF IInv, Passed
    <2>4. now \in Seq(Wire) /\ x \in Wire
      BY <1>2, <1>7, InputsType, Renumbered DEF Unnumbered
    <2>. HIDE DEF now, before, x
    <2>5. Append(now, x) = Append(before, x)
      BY <2>1, <2>2, <2>3
    <2>6. now = before
      BY <2>2, <2>4, <2>5, AppendInjective
    <2>. QED  BY <1>4, <1>11, <2>6 DEF Passed, now, before
  <1>15. Caused'
    <2>1. /\ steps \in Seq(StepPair) /\ effects \in Seq(Nat \X Nat)
          /\ \A i \in 1..Len(effects) : effects[i][2] < Len(frames) /\ effects[i][2] \in Nat
          /\ \A i \in 1..Len(effects) :
                \/ StartedBy(steps, effects[i][1], effects[i][2])
                \/ effects[i][1] = cursor - 1 /\ effects[i][2] >= p
      <3>1. /\ Caused /\ effects \in Seq(Nat \X Nat)
            /\ \A i \in 1..Len(effects) : effects[i] \in Nat \X Nat
        BY DEF IInv, Caused
      <3>2. \A i \in 1..Len(effects) : effects[i][2] \in Nat
        BY <3>1
      <3>. QED  BY <1>0, <1>3, <3>1, <3>2 DEF Caused
    <2>2. \A i \in 1..Len(effects) : StartedBy(steps', effects[i][1], effects[i][2])
      <3>. TAKE i \in 1..Len(effects)
      <3>. DEFINE c == effects[i][1]
                  n == effects[i][2]
      <3>1. n \in Int /\ n <= n /\ ~(n >= p)
        <4>1. n \in Nat /\ n < Len(frames)
          BY <2>1
        <4>. HIDE DEF n
        <4>. QED  BY <1>2, <1>4, <4>1
      <3>2. StartedBy(steps, c, n)
        BY <2>1, <3>1
      <3>. HIDE DEF c, n
      <3>3. StartedBy(steps', c, n)
        BY <1>4, <1>5, <2>1, <3>1, <3>2, StaysStarted
      <3>. QED  BY <3>3 DEF c, n
    <2>3. steps' \in Seq(StepPair)
      BY <1>4, <1>5, <2>1
    <2>. QED  BY <1>4, <2>1, <2>2, <2>3 DEF Caused
  <1>16. ResponsesAnswerThisRun'
    <2>1. DOMAIN t = 1..(p - 1) /\ DOMAIN frames = 1..p
      BY <1>4, <1>6, <1>7
    <2>. SUFFICES ASSUME NEW i \in 1..(p - 1), t[i].type = "GoalResponse"
                  PROVE  \E j \in 1..(i - 1) :
                             Unnumbered(t[j]) = Unnumbered(recording[t[i].body.request + 1])
      BY <1>4, <2>1 DEF ResponsesAnswerThisRun
    <2>2. t[i] = frames[i] /\ i \in DOMAIN frames
      BY <1>7, <2>1
    <2>3. PICK j \in 1..(i - 1) :
              Unnumbered(frames[j]) = Unnumbered(recording[frames[i].body.request + 1])
      BY <1>0, <2>2 DEF IInv, ResponsesAnswerThisRun
    <2>4. t[j] = frames[j]
      BY <1>7
    <2>. QED  BY <2>2, <2>3, <2>4
  <1>. QED
    BY <1>4, <1>8, <1>9, <1>10, <1>13, <1>14, <1>15, <1>16 DEF IInv, Working, Done

LEMMA OtherStep == ASSUME IInv, ReceiveOther PROVE IInv'
  BY ErrorStep DEF ReceiveOther

-----------------------------------------------------------------------------
(***************************************************************************)
(* The end of the run.                                                     *)
(***************************************************************************)
LEMMA FinishStep == ASSUME IInv, Finish PROVE IInv'
  <1>0. phase = "finishing" /\ Started /\ Reached = cursor - 1
    BY DEF Finish, Started, Reached
  <1>1. CASE Error
    BY <1>0, <1>1, ErrorStep
  <1>. SUFFICES ASSUME ~Error PROVE IInv'
    BY <1>1
  <1>. DEFINE n == Len(frames)
              f == EndFrame(frames, session_sequence)
              t == Append(frames, f)
  <1>2. /\ phase' = "done" /\ frames' = t /\ recording' = recording /\ cursor' = cursor
        /\ steps' = steps /\ effects' = effects
    BY DEF Finish
  <1>3. Streams(frames) /\ n \in Nat /\ n # 0 /\ frames[1].body = [uuid |-> 1]
    <2>1. cursor > 1
      BY <1>0 DEF IInv, CursorInv
    <2>2. Streams(frames) /\ n \in Nat /\ frames # <<>> /\ frames[1].body = [uuid |-> 1]
      BY <1>0, <2>1, StreamsAre DEF IInv, StreamInv
    <2>. QED  BY <2>2, EmptySeq DEF Streams
  <1>4. session_sequence \in Nat /\ session_sequence = CountUpTo(frames, n, SessionSource)
    <2>1. SessionSource \in OtherSources
      BY SourcesUsed DEF OtherSources, Sources
    <2>2. session_sequence = CountUpTo(frames, n, SessionSource)
      BY <1>0, <2>1 DEF IInv, Counted, OtherSources
    <2>. QED  BY <1>3, <2>2, CountType
  <1>5. /\ f \in Wire /\ f.ordinal = n /\ f.src = 0 /\ f.dst = 0 /\ f.channel = 0
        /\ f.seq = session_sequence /\ f.type = "End" /\ f.kind = kind("End")
        /\ Source(f) = SessionSource /\ f.body = [uuid |-> 1, frame_count |-> n]
    <2>1. "End" \in UsedTypes
      BY DEF UsedTypes
    <2>2. Made(f, n, SessionSource, 0, session_sequence, "End", [uuid |-> 1, frame_count |-> n])
      BY <1>3, <1>4, <2>1, SourcesUsed, BodiesUsed, FrameIsWire DEF EndFrame
    <2>. HIDE DEF f
    <2>. QED  BY <2>2, SourcesUsed DEF Made
  <1>. HIDE DEF f
  <1>6. /\ t \in Seq(Wire) /\ Len(t) = n + 1 /\ t[n + 1] = f
        /\ \A i \in 1..n : t[i] = frames[i]
        /\ \A i \in 1..(n + 1) : FitsAt(t, i)
    <2>1. HasMarkerTuple(f)
      BY <1>5, SourcesUsed DEF HasMarkerTuple
    <2>2. frames \in Seq(Wire) /\ \A i \in 1..n : FitsAt(frames, i)
      BY <1>3 DEF Streams
    <2>3. /\ t \in Seq(Wire) /\ Len(t) = n + 1 /\ t[n + 1] = f
          /\ \A i \in 1..n : t[i] = frames[i]
          /\ \A i \in 1..Len(t) : FitsAt(t, i)
      BY <1>3, <1>4, <1>5, <2>1, <2>2, SourcesUsed, FitsAppend
    <2>. HIDE DEF t
    <2>. QED  BY <2>3
  <1>7. InputsOf(t) = InputsOf(frames)
    BY <1>3, <1>5, InputsAppend DEF Streams
  <1>. HIDE DEF t
  <1>8. \A i \in 1..(n + 1) : i \in 1..n \/ i = n + 1
    BY <1>3
  <1>9. \A i \in 1..n : t[i].type \notin {"Gap", "End"}
    BY <1>3, <1>6 DEF Streams
  <1>10. WellFormed(t)
    <2>1. ASSUME NEW i \in 1..(n + 1) PROVE FrameWellFormed(t, i)
      <3>1. FitsAt(t, i) /\ t[i] \in Wire /\ t[i].damage = "none"
        BY <1>6, <2>1, WireFields DEF FitsAt
      <3>2. t[i].seq = SentBefore(t, i)
        BY <3>1 DEF FitsAt, SentBefore, CountUpTo
      <3>3. t[i].type # "Gap" /\ (t[i].type = "End" <=> i = n + 1)
        BY <1>3, <1>5, <1>6, <1>8, <1>9
      <3>. QED  BY <1>6, <3>1, <3>2, <3>3 DEF FrameWellFormed, FitsAt
    <2>2. t[n + 1].body.uuid = 1 /\ t[n + 1].body.frame_count = n
      BY <1>5, <1>6
    <2>3. t[1].body.uuid = 1
      <3>1. 1 \in 1..n
        BY <1>3
      <3>. QED  BY <1>3, <1>6, <3>1
    <2>4. t # <<>> /\ Len(t) - 1 = n
      BY <1>3, <1>6, EmptySeq
    <2>. QED  BY <1>6, <2>1, <2>2, <2>3, <2>4 DEF WellFormed
  <1>11. Done'
    BY <1>0, <1>2, <1>7, <1>10 DEF IInv, Passed, Done
  <1>12. ResponsesAnswerThisRun'
    <2>1. DOMAIN t = 1..(n + 1) /\ DOMAIN frames = 1..n
      BY <1>3, <1>6 DEF Streams
    <2>. SUFFICES ASSUME NEW i \in 1..(n + 1), t[i].type = "GoalResponse"
                  PROVE  \E j \in 1..(i - 1) :
                             Unnumbered(t[j]) = Unnumbered(recording[t[i].body.request + 1])
      BY <1>2, <2>1 DEF ResponsesAnswerThisRun
    <2>2. i \in 1..n /\ t[i] = frames[i]
      BY <1>5, <1>6, <1>8
    <2>3. PICK j \in 1..(i - 1) :
              Unnumbered(frames[j]) = Unnumbered(recording[frames[i].body.request + 1])
      BY <1>0, <2>1, <2>2 DEF IInv, ResponsesAnswerThisRun
    <2>4. t[j] = frames[j]
      BY <1>3, <1>6, <2>2
    <2>. QED  BY <2>2, <2>3, <2>4
  <1>13. RecordingInv'
    BY <1>0, <1>2, RecordingStays
  <1>14. CursorInv'
    BY <1>0, <1>2 DEF IInv, CursorInv
  <1>15. Caused'
    BY <1>0, <1>2 DEF IInv, Caused
  <1>. QED
    BY <1>2, <1>11, <1>12, <1>13, <1>14, <1>15
    DEF IInv, StreamInv, Counted, Working, Passed, Started

LEMMA DeliverInputStep == ASSUME IInv, DeliverInput PROVE IInv'
  <1>1. phase = "delivering" /\ IsInput(Recorded)
    BY DEF DeliverInput
  <1>2. CASE Error
    BY <1>1, <1>2, ErrorStep
  <1>3. CASE RefuseUnissued
    BY <1>1, <1>3, RefuseUnissuedStep
  <1>4. CASE (NamesRequest => RequestIsEffect) /\ SendStep
    BY <1>1, <1>4, SendStepStep
  <1>. QED  BY <1>2, <1>3, <1>4 DEF DeliverInput

LEMMA Inductive == IInv /\ [Next]_vars => IInv'
  <1>. SUFFICES ASSUME IInv, [Next]_vars PROVE IInv'
    OBVIOUS
  <1>1. CASE UNCHANGED vars
    BY <1>1, Stutter
  <1>2. CASE WriteFrame
    BY <1>2, WriteStep
  <1>3. CASE Close
    BY <1>3, CloseStep
  <1>4. CASE Start
    BY <1>4, StartStep
  <1>5. CASE DeliverSession
    BY <1>5, DeliverSessionStep
  <1>6. CASE SkipEffect
    BY <1>6, SkipStep
  <1>7. CASE StopAtMarker
    BY <1>7, StopStep
  <1>8. CASE DeliverInput
    BY <1>8, DeliverInputStep
  <1>9. CASE ReceiveEffect
    BY <1>9, EffectStep
  <1>10. CASE ReceiveProgress
    BY <1>10, ProgressStep
  <1>11. CASE ReceiveRefused
    BY <1>11, RefusedStep
  <1>12. CASE ReceiveStepped
    BY <1>12, SteppedStep
  <1>13. CASE ReceiveOther
    BY <1>13, OtherStep
  <1>14. CASE Finish
    BY <1>14, FinishStep
  <1>. QED
    BY <1>1, <1>2, <1>3, <1>4, <1>5, <1>6, <1>7, <1>8, <1>9, <1>10, <1>11, <1>12, <1>13, <1>14
    DEF Next

\* The invariant holds of every replay of every recording.
LEMMA Invariance == Spec => []IInv
  BY InitInv, Inductive, PTL DEF Spec

\* Whatever the adapter answers and wherever the replay stops, the stream that
\* replay returns is one the reader accepts: ordinals, sequences of every source,
\* markers and counts.
THEOREM ReturnedRunDecodes == Spec => []RunDecodes
  <1>1. IInv => RunDecodes
    BY DEF IInv, Done, RunDecodes
  <1>. QED  BY <1>1, Invariance, PTL

\* The inputs of a returned run are the recorded ones before the cursor, each once
\* and in order, and its responses answer requests of this run equal to the
\* recorded ones.
THEOREM ReturnedInputs == Spec => []InputsAreTheConsumedPrefix
  <1>1. IInv => InputsAreTheConsumedPrefix
    BY DEF IInv, Done, InputsAreTheConsumedPrefix
  <1>. QED  BY <1>1, Invariance, PTL

\* Every effect of a returned run belongs to a callback that an input before it in
\* the stream had started.
THEOREM ReturnedEffects == Spec => []EffectsHaveACause
  <1>1. IInv => EffectsHaveACause
    <2>. SUFFICES ASSUME IInv, phase = "done", NEW i \in DOMAIN effects
                  PROVE  \E s \in ToSet(steps) :
                             s[1] = effects[i][1] /\ s[2] # Nothing /\ s[2] < effects[i][2]
      BY DEF EffectsHaveACause
    <2>0. steps \in Seq(StepPair) /\ effects \in Seq(Nat \X Nat) /\ i \in 1..Len(effects)
      <3>1. steps \in Seq(StepPair) /\ effects \in Seq(Nat \X Nat)
        BY DEF IInv, Caused
      <3>. QED  BY <3>1
    <2>1. StartedBy(steps, effects[i][1], effects[i][2]) /\ steps \in Seq(StepPair)
      BY <2>0 DEF IInv, Caused
    <2>2. PICK j \in 1..Len(steps) : /\ steps[j][1] = effects[i][1] /\ steps[j][2] \in Nat
                                     /\ steps[j][2] < effects[i][2]
      BY <2>1 DEF StartedBy
    <2>3. steps[j] \in ToSet(steps) /\ steps[j][2] # Nothing
      BY <2>1, <2>2 DEF ToSet, Nothing
    <2>. QED  BY <2>2, <2>3
  <1>. QED  BY <1>1, Invariance, PTL
=============================================================================
