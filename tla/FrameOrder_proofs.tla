-------------------------- MODULE FrameOrder_proofs --------------------------
(***************************************************************************)
(* Frames are told apart by their place in their source.  Proofs of the    *)
(* two components that rest on it.                                         *)
(*                                                                         *)
(* The reader accepts exactly the recordings, for every set of actors,     *)
(* channels, bodies and streams: what decode_stream accepts is well        *)
(* formed, what it refuses is not, and nothing it accepts is a proper      *)
(* prefix of a recording (module NativeStream).  Events lost, repeated or  *)
(* overtaken in their source are refused, and the hashes of a recording    *)
(* commit the interleaving of its inputs and effects.                      *)
(*                                                                         *)
(* Goals correspond by issuance, for every set of clients and ids: a       *)
(* recorded response reaches the goal at the place of its own, and the     *)
(* normalized comparison accepts the renamings of the recording and        *)
(* nothing else (module Goals).                                            *)
(***************************************************************************)
EXTENDS NativeStream, Goals, Subsequences_proofs, TLAPS

\* Frames of one source among the first n frames of s.
FromSource(s, n, source) == {j \in 1..n : Source(s[j]) = source}

\* What the reader has established about the frames behind its cursor.
PrefixInv ==
    \A i \in 1..cursor :
        /\ stream[i].damage = "none"
        /\ stream[i].kind = kind(stream[i].type)
        /\ stream[i].ordinal = i - 1
        /\ stream[i].seq = SentBefore(stream, i)
        /\ HasMarkerTuple(stream[i])
        /\ stream[i].type = "Gap" => GapFlagMatches(stream[i])
        /\ stream[i].type = "Session" => i = 1
        /\ stream[i].type = "End" => (ended /\ i = cursor)

\* sequences counts the frames read from each source.
SequencesInv ==
    \A source \in Actor \X Channel :
        sequences[source] = Cardinality(FromSource(stream, cursor, source))

\* session holds the first frame's body if that frame was the Session marker;
\* otherwise only gaps were read.
SessionInv ==
    IF session = {} THEN \A i \in 1..cursor : stream[i].type = "Gap"
    ELSE cursor >= 1 /\ stream[1].type = "Session" /\ session = {stream[1].body}

EndedInv ==
    ended => /\ session # {} /\ cursor >= 1
             /\ stream[cursor].type = "End"
             /\ stream[cursor].body.uuid = stream[1].body.uuid
             /\ stream[cursor].body.frame_count = cursor - 1

AcceptedInv == status = "accepted" => cursor = Len(stream) /\ ended

IInv == /\ TypeOK /\ PrefixInv /\ SequencesInv /\ SessionInv /\ EndedInv
        /\ AcceptedInv /\ RefusedIsIllFormed

-----------------------------------------------------------------------------
\* The fields of a frame that the reader looks at have their types.
LEMMA FrameFields ==
    ASSUME NEW f \in Frame
    PROVE  /\ f.type \in EventTypes /\ f.ordinal \in Nat /\ f.seq \in Nat
           /\ f.body \in Body /\ Source(f) \in Actor \X Channel
  BY DEF Frame, Source

\* Every frame of a stream is a frame.
LEMMA StreamFrames ==
    ASSUME TypeOK, NEW i \in 1..Len(stream)
    PROVE  stream[i] \in Frame
  BY DEF TypeOK

\* The frames of one source among finitely many are finitely many.
LEMMA FromSourceFinite ==
    ASSUME NEW s, NEW n \in Nat, NEW source
    PROVE  /\ IsFiniteSet(FromSource(s, n, source))
           /\ Cardinality(FromSource(s, n, source)) \in Nat
  <1>1. IsFiniteSet(1..n)
    BY FS_Interval
  <1>2. FromSource(s, n, source) \subseteq 1..n
    BY DEF FromSource
  <1>. QED  BY <1>1, <1>2, FS_Subset, FS_CardinalityType

\* Reading one more frame adds one to its own source and to no other.
LEMMA FromSourceStep ==
    ASSUME NEW s, NEW n \in Nat, NEW source
    PROVE  Cardinality(FromSource(s, n + 1, source)) =
               IF Source(s[n + 1]) = source THEN Cardinality(FromSource(s, n, source)) + 1
               ELSE Cardinality(FromSource(s, n, source))
  <1>1. CASE Source(s[n + 1]) = source
    <2>1. FromSource(s, n + 1, source) = FromSource(s, n, source) \cup {n + 1}
      BY <1>1 DEF FromSource
    <2>2. n + 1 \notin FromSource(s, n, source)
      BY DEF FromSource
    <2>. QED  BY <1>1, <2>1, <2>2, FromSourceFinite, FS_AddElement
  <1>2. CASE Source(s[n + 1]) # source
    <2>1. FromSource(s, n + 1, source) = FromSource(s, n, source)
      BY <1>2 DEF FromSource
    <2>. QED  BY <1>2, <2>1
  <1>. QED  BY <1>1, <1>2

\* SentBefore is the count of the source among the frames before i.
LEMMA SentBeforeIsCount ==
    ASSUME NEW s, NEW n \in Nat
    PROVE  SentBefore(s, n + 1) = Cardinality(FromSource(s, n, Source(s[n + 1])))
  <1>1. (n + 1) - 1 = n
    OBVIOUS
  <1>. QED  BY <1>1 DEF SentBefore, FromSource

-----------------------------------------------------------------------------
\* The reader starts in the invariant.
LEMMA InitInv == Init => IInv
  <1>. SUFFICES ASSUME Init PROVE IInv
    OBVIOUS
  <1>1. TypeOK
    <2>1. stream \in Seq(Frame)
      BY StreamsAssumption DEF Init
    <2>2. Len(stream) \in Nat
      BY <2>1
    <2>3. sequences \in [Actor \X Channel -> Nat]
      BY DEF Init
    <2>4. ended \in BOOLEAN /\ session \in SUBSET Body
      BY DEF Init
    <2>. QED  BY <2>1, <2>2, <2>3, <2>4 DEF Init, TypeOK
  <1>2. SequencesInv
    <2>. SUFFICES ASSUME NEW source \in Actor \X Channel
                  PROVE  sequences[source] = Cardinality(FromSource(stream, cursor, source))
      BY DEF SequencesInv
    <2>1. FromSource(stream, cursor, source) = {}
      BY DEF FromSource, Init
    <2>. QED  BY <2>1, FS_EmptySet DEF Init
  <1>3. PrefixInv /\ SessionInv
    BY DEF Init, PrefixInv, SessionInv
  <1>4. EndedInv /\ AcceptedInv /\ RefusedIsIllFormed
    BY DEF Init, EndedInv, AcceptedInv, RefusedIsIllFormed
  <1>. QED  BY <1>1, <1>2, <1>3, <1>4 DEF IInv

\* A frame that passes every check.
LEMMA CheckedFrame ==
    ASSUME NEW f, FrameError(f) = "none"
    PROVE  /\ ~ended /\ f.damage \notin Damage \ {"none"} /\ f.ordinal = cursor
           /\ f.kind = kind(f.type) /\ f.seq = sequences[Source(f)] /\ HasMarkerTuple(f)
           /\ f.type = "Session" => f.ordinal = 0
           /\ f.type = "Gap" => GapFlagMatches(f)
           /\ f.type \notin {"Session", "Gap"} => session # {}
           /\ f.type = "End" => EndMatches(f)
  <1>1. /\ ~ended /\ EnvelopeError(f) = "none" /\ f.seq = sequences[Source(f)]
        /\ HasMarkerTuple(f) /\ EventError(f) = "none"
    BY DEF FrameError, InSequence
  <1>2. /\ f.damage \notin Damage \ {"none"} /\ f.ordinal = cursor
        /\ f.kind = kind(f.type)
    BY <1>1 DEF EnvelopeError, Damage
  <1>3. /\ f.type = "Session" => f.ordinal = 0
        /\ f.type = "Gap" => GapFlagMatches(f)
        /\ f.type \notin {"Session", "Gap"} => session # {}
        /\ f.type = "End" => EndMatches(f)
    BY <1>1 DEF EventError
  <1>. QED  BY <1>1, <1>2, <1>3

\* Accepting a frame keeps the invariant.
LEMMA ReadFrameInv ==
    ASSUME IInv, ReadFrame
    PROVE  IInv'
  <1>. DEFINE f == stream[cursor + 1]
  <1>1. /\ cursor \in Nat /\ cursor + 1 \in 1..Len(stream) /\ cursor' = cursor + 1
        /\ stream' = stream /\ status' = status /\ status = "reading"
        /\ sequences' = [sequences EXCEPT ![Source(f)] = @ + 1]
        /\ session' = IF f.type = "Session" THEN {f.body} ELSE session
        /\ ended' \in BOOLEAN /\ (ended' <=> f.type = "End")
    <2>1. ended' = (f.type = "End")
      BY DEF ReadFrame
    <2>2. ended' \in BOOLEAN /\ (ended' <=> f.type = "End")
      BY <2>1
    <2>3. cursor \in Nat /\ Len(stream) \in Nat /\ cursor < Len(stream)
      BY DEF IInv, TypeOK, ReadFrame, HasFrame, Counted
    <2>. QED  BY <2>2, <2>3 DEF ReadFrame, HasFrame, Counted
  <1>2. f \in Frame
    BY <1>1, StreamFrames DEF IInv
  <1>3. /\ ~ended /\ f.damage = "none" /\ f.ordinal = cursor
        /\ f.kind = kind(f.type) /\ f.seq = sequences[Source(f)] /\ HasMarkerTuple(f)
        /\ f.type = "Session" => f.ordinal = 0
        /\ f.type = "Gap" => GapFlagMatches(f)
        /\ f.type \notin {"Session", "Gap"} => session # {}
        /\ f.type = "End" => EndMatches(f)
    <2>1. f.damage \in Damage
      BY <1>2 DEF Frame
    <2>2. FrameError(f) = "none"
      BY DEF ReadFrame
    <2>. QED  BY <2>1, <2>2, CheckedFrame
  <1>4. f.type \in EventTypes /\ f.body \in Body /\ Source(f) \in Actor \X Channel
    BY <1>2, FrameFields
  <1>5. TypeOK'
    BY <1>1, <1>4 DEF IInv, TypeOK
  <1>6. SequencesInv'
    <2>. SUFFICES ASSUME NEW source \in Actor \X Channel
                  PROVE  sequences'[source]
                           = Cardinality(FromSource(stream, cursor + 1, source))
      BY <1>1 DEF SequencesInv
    <2>1. sequences[source] = Cardinality(FromSource(stream, cursor, source))
      BY DEF IInv, SequencesInv
    <2>2. sequences'[source] = IF Source(f) = source THEN sequences[source] + 1
                               ELSE sequences[source]
      BY <1>1, <1>4 DEF IInv, TypeOK
    <2>. QED  BY <1>1, <2>1, <2>2, FromSourceStep
  <1>7. PrefixInv'
    <2>. SUFFICES ASSUME NEW i \in 1..(cursor + 1)
                  PROVE  /\ stream[i].damage = "none"
                         /\ stream[i].kind = kind(stream[i].type)
                         /\ stream[i].ordinal = i - 1
                         /\ stream[i].seq = SentBefore(stream, i)
                         /\ HasMarkerTuple(stream[i])
                         /\ stream[i].type = "Gap" => GapFlagMatches(stream[i])
                         /\ stream[i].type = "Session" => i = 1
                         /\ stream[i].type = "End" => (ended' /\ i = cursor + 1)
      BY <1>1 DEF PrefixInv, SentBefore, GapFlagMatches
    <2>1. CASE i \in 1..cursor
      BY <1>1, <1>3, <2>1 DEF IInv, PrefixInv
    <2>2. CASE i = cursor + 1
      <3>1. f.seq = SentBefore(stream, i)
        BY <1>1, <1>3, <1>4, <2>2, SentBeforeIsCount DEF IInv, SequencesInv
      <3>. QED  BY <1>1, <1>3, <2>2, <3>1
    <2>. QED  BY <1>1, <2>1, <2>2
  <1>8. SessionInv'
    <2>1. CASE f.type = "Session"
      BY <1>1, <1>3, <2>1 DEF SessionInv
    <2>2. CASE f.type # "Session" /\ session = {}
      BY <1>1, <1>3, <2>2 DEF IInv, SessionInv
    <2>3. CASE f.type # "Session" /\ session # {}
      BY <1>1, <1>3, <2>3 DEF IInv, SessionInv
    <2>. QED  BY <2>1, <2>2, <2>3
  <1>9. EndedInv'
    <2>. SUFFICES ASSUME f.type = "End"
                  PROVE  /\ session # {} /\ f.body.uuid = stream[1].body.uuid
                         /\ f.body.frame_count = cursor
      BY <1>1 DEF EndedInv
    <2>. QED  BY <1>1, <1>3 DEF IInv, SessionInv, EndMatches
  <1>10. AcceptedInv' /\ RefusedIsIllFormed'
    BY <1>1 DEF AcceptedInv, RefusedIsIllFormed
  <1>. QED  BY <1>5, <1>6, <1>7, <1>8, <1>9, <1>10 DEF IInv

\* The heart of "refuses no recording": with the invariant, no check fails on
\* the next frame of a well-formed stream.
LEMMA WellFormedPassesChecks ==
    ASSUME IInv, WellFormed(stream), cursor < Len(stream)
    PROVE  FrameError(stream[cursor + 1]) = "none"
  <1>. DEFINE f == stream[cursor + 1]
  <1>1. cursor \in Nat /\ Len(stream) \in Nat /\ cursor + 1 \in 1..Len(stream)
    BY DEF IInv, TypeOK
  <1>2. FrameWellFormed(stream, cursor + 1)
    BY <1>1 DEF WellFormed
  <1>3. ~ended
    <2>. SUFFICES ASSUME ended PROVE FALSE
      OBVIOUS
    <2>1. cursor \in 1..Len(stream) /\ stream[cursor].type = "End"
      BY <1>1 DEF IInv, EndedInv
    <2>. QED  BY <1>1, <2>1 DEF WellFormed, FrameWellFormed
  <1>4. EnvelopeError(f) = "none"
    BY <1>1, <1>2 DEF FrameWellFormed, EnvelopeError
  <1>5. f.seq = sequences[Source(f)]
    <2>1. f \in Frame
      BY <1>1, StreamFrames DEF IInv
    <2>2. Source(f) \in Actor \X Channel
      BY <2>1, FrameFields
    <2>. QED  BY <1>1, <1>2, <2>2, SentBeforeIsCount DEF FrameWellFormed, IInv, SequencesInv
  <1>6. cursor >= 1 => session = {stream[1].body}
    <2>. SUFFICES ASSUME cursor >= 1 PROVE session = {stream[1].body}
      OBVIOUS
    <2>1. 1 \in 1..cursor /\ 1 \in 1..Len(stream)
      BY <1>1
    <2>2. stream[1].type = "Session"
      BY <2>1 DEF WellFormed, FrameWellFormed
    <2>. QED  BY <2>1, <2>2 DEF IInv, SessionInv
  <1>7. EventError(f) = "none"
    <2>1. CASE cursor = 0
      BY <1>2, <2>1 DEF FrameWellFormed, EventError
    <2>2. CASE cursor >= 1
      <3>1. session = {stream[1].body} /\ f.type # "Session" /\ f.ordinal = cursor
        BY <1>1, <1>2, <1>6, <2>2 DEF FrameWellFormed
      <3>2. f.type = "End" => EndMatches(f)
        BY <1>1, <1>2, <3>1 DEF FrameWellFormed, WellFormed, EndMatches
      <3>. QED  BY <1>2, <3>1, <3>2 DEF FrameWellFormed, EventError
    <2>. QED  BY <1>1, <2>1, <2>2
  <1>. QED  BY <1>2, <1>3, <1>4, <1>5, <1>7 DEF FrameError, InSequence, FrameWellFormed

\* Refusing a frame keeps the invariant.
LEMMA RefuseFrameInv ==
    ASSUME IInv, RefuseFrame
    PROVE  IInv'
  <1>1. UNCHANGED <<stream, cursor, sequences, session, ended>>
    BY DEF RefuseFrame
  <1>2. status' \notin {"reading", "accepted"} /\ TypeOK'
    <2>. DEFINE e == FrameError(stream[cursor + 1])
    <2>1. e # "none" /\ status' = e
      BY DEF RefuseFrame
    <2>2. e \in {"none", "UnexpectedEnd", "Truncated", "BadMagic", "WrongEnvelopeVersion",
                  "UnknownKind", "NonContiguousOrdinal", "PayloadHashMismatch",
                  "MalformedPayload", "KindMismatch", "SequenceGap", "MalformedMarker",
                  "UnexpectedSession", "MissingSession", "EndMismatch"}
      BY DEF FrameError, InSequence, EnvelopeError, EventError
    <2>. HIDE DEF e
    <2>. QED  BY <1>1, <2>1, <2>2 DEF IInv, TypeOK
  <1>3. ~WellFormed(stream)
    BY WellFormedPassesChecks DEF RefuseFrame, HasFrame
  <1>4. RefusedIsIllFormed' /\ AcceptedInv'
    BY <1>1, <1>2, <1>3 DEF RefusedIsIllFormed, AcceptedInv
  <1>5. PrefixInv' /\ SequencesInv' /\ SessionInv' /\ EndedInv'
    BY <1>1 DEF IInv, PrefixInv, SequencesInv, SessionInv, EndedInv
  <1>. QED  BY <1>2, <1>4, <1>5 DEF IInv

\* The checks after the last frame keep the invariant.
LEMMA CloseStreamInv ==
    ASSUME IInv, CloseStream
    PROVE  IInv'
  <1>1. /\ UNCHANGED <<stream, cursor, sequences, session, ended>> /\ cursor = Len(stream)
        /\ status' \in {"MissingSession", "MissingEnd", "accepted"}
        /\ status' = "MissingSession" => session = {}
        /\ status' = "MissingEnd" => ~ended
        /\ status' = "accepted" => ended
    BY DEF CloseStream
  <1>2. TypeOK' /\ AcceptedInv'
    BY <1>1 DEF IInv, TypeOK, AcceptedInv
  <1>3. WellFormed(stream) => status' = "accepted"
    <2>. SUFFICES ASSUME WellFormed(stream) PROVE session # {} /\ ended
      BY <1>1
    <2>1. 1 \in 1..Len(stream) /\ Len(stream) \in 1..Len(stream)
      BY DEF WellFormed, IInv, TypeOK
    <2>2. stream[1].type = "Session" /\ stream[Len(stream)].type = "End"
      BY <2>1 DEF WellFormed, FrameWellFormed
    <2>. QED  BY <1>1, <2>1, <2>2 DEF IInv, SessionInv, PrefixInv
  <1>4. RefusedIsIllFormed'
    BY <1>1, <1>3 DEF RefusedIsIllFormed
  <1>5. PrefixInv' /\ SequencesInv' /\ SessionInv' /\ EndedInv'
    BY <1>1 DEF IInv, PrefixInv, SequencesInv, SessionInv, EndedInv
  <1>. QED  BY <1>2, <1>4, <1>5 DEF IInv

\* Every step of the reader keeps the invariant.
LEMMA NextInv == IInv /\ [Next]_vars => IInv'
  <1>. SUFFICES ASSUME IInv, [Next]_vars PROVE IInv'
    OBVIOUS
  <1>1. CASE ReadFrame
    BY <1>1, ReadFrameInv
  <1>2. CASE RefuseFrame
    BY <1>2, RefuseFrameInv
  <1>3. CASE CloseStream
    BY <1>3, CloseStreamInv
  <1>4. CASE UNCHANGED vars
    BY <1>4 DEF vars, IInv, TypeOK, PrefixInv, SequencesInv, SessionInv, EndedInv,
                AcceptedInv, RefusedIsIllFormed
  <1>. QED  BY <1>1, <1>2, <1>3, <1>4 DEF Next

\* Once the reader accepts, what it checked one frame at a time is the whole
\* declarative definition of a recording.
LEMMA InvAccepted == IInv => AcceptedIsWellFormed
  <1>. SUFFICES ASSUME IInv, status = "accepted" PROVE WellFormed(stream)
    BY DEF AcceptedIsWellFormed
  <1>1. cursor = Len(stream) /\ ended /\ Len(stream) \in Nat /\ Len(stream) >= 1
    BY DEF IInv, AcceptedInv, EndedInv, TypeOK
  <1>2. session = {stream[1].body} /\ stream[1].type = "Session"
    BY <1>1 DEF IInv, EndedInv, SessionInv
  <1>3. stream[Len(stream)].type = "End"
    BY <1>1 DEF IInv, EndedInv
  <1>4. \A i \in 1..Len(stream) : FrameWellFormed(stream, i)
    BY <1>1, <1>2, <1>3 DEF IInv, PrefixInv, FrameWellFormed
  <1>5. stream # <<>>
    BY <1>1
  <1>. QED  BY <1>1, <1>4, <1>5 DEF IInv, EndedInv, WellFormed

\* The invariant excludes accepted proper prefixes.
LEMMA InvNeverShorter == IInv => NeverAShorterRecording
  <1>. SUFFICES ASSUME IInv, status = "accepted", NEW t \in Written, Len(stream) < Len(t),
                       stream = SubSeq(t, 1, Len(stream)), WellFormed(t)
                PROVE  FALSE
    BY DEF NeverAShorterRecording
  <1>. DEFINE n == Len(stream)
  <1>1. n \in Nat /\ n >= 1 /\ stream[n].type = "End"
    BY DEF IInv, AcceptedInv, EndedInv, TypeOK
  <1>2. t \in Seq(Frame)
    BY StreamsAssumption
  <1>3. n \in 1..Len(t) /\ stream[n] = t[n]
    BY <1>1, <1>2
  <1>4. t[n].type = "End" <=> n = Len(t)
    BY <1>3 DEF WellFormed, FrameWellFormed
  <1>. QED  BY <1>1, <1>3, <1>4

\* The inductive invariant holds in every reachable state.
THEOREM Invariance == Spec => []IInv
  BY InitInv, NextInv, PTL DEF Spec

\* Type correctness of the reader.
THEOREM TypeCorrect == Spec => []TypeOK
  <1>1. IInv => TypeOK
    BY DEF IInv
  <1>. QED  BY <1>1, Invariance, PTL

\* decode_stream accepts only recordings and refuses none, for every stream of any
\* length.
THEOREM ReaderDecides == Spec => []DecidesWellFormed
  <1>1. IInv => DecidesWellFormed
    BY InvAccepted DEF IInv, DecidesWellFormed
  <1>. QED  BY <1>1, Invariance, PTL

\* A stream cut short by a dying recorder is never accepted.
THEOREM CrashIsNeverShorter == Spec => []NeverAShorterRecording
  BY InvNeverShorter, Invariance, PTL

-----------------------------------------------------------------------------
(***************************************************************************)
(* Events lost, repeated or reordered before they were numbered.           *)
(***************************************************************************)
\* Renumbering leaves the source and the place in it alone.
LEMMA RenumberedFrame ==
    ASSUME NEW s \in Seq(Frame), NEW i \in 1..Len(s)
    PROVE  /\ Source(Renumbered(s)[i]) = Source(s[i])
           /\ Renumbered(s)[i].seq = s[i].seq
  <1>. DEFINE f == s[i]
              b == IF f.type = "End" THEN [f.body EXCEPT !.frame_count = i - 1] ELSE f.body
  <1>1. f \in Frame /\ i \in DOMAIN s
    OBVIOUS
  <1>2. Renumbered(s)[i] = [f EXCEPT !.ordinal = i - 1, !.body = b]
    BY <1>1 DEF Renumbered
  <1>. HIDE DEF f, b
  <1>3. /\ Renumbered(s)[i].src = f.src /\ Renumbered(s)[i].channel = f.channel
        /\ Renumbered(s)[i].seq = f.seq
    BY <1>1, <1>2 DEF Frame
  <1>. QED  BY <1>3 DEF Source, f

LEMMA RenumberedLen ==
    ASSUME NEW x \in Seq(Frame), NEW r \in Seq(Frame), r = Renumbered(x)
    PROVE  Len(r) = Len(x)
  <1>1. DOMAIN Renumbered(x) = DOMAIN x
    BY DEF Renumbered
  <1>2. DOMAIN r = 1..Len(r) /\ DOMAIN x = 1..Len(x) /\ Len(r) \in Nat /\ Len(x) \in Nat
    OBVIOUS
  <1>. DEFINE m == Len(r)
              n == Len(x)
  <1>3. m \in Nat /\ n \in Nat /\ 1..m = 1..n
    BY <1>1, <1>2
  <1>. HIDE DEF m, n
  <1>4. m = n
    BY <1>3
  <1>. QED  BY <1>4 DEF m, n

\* In a recording a frame counts the earlier ones of its source.
LEMMA RecordedSeq ==
    ASSUME NEW s \in Seq(Frame), WellFormed(s), NEW i \in 1..Len(s)
    PROVE  s[i].seq = Cardinality(FromSource(s, i - 1, Source(s[i])))
  <1>1. s[i].seq = SentBefore(s, i)
    BY DEF WellFormed, FrameWellFormed
  <1>2. i - 1 \in Nat /\ (i - 1) + 1 = i
    OBVIOUS
  <1>3. SentBefore(s, (i - 1) + 1) = Cardinality(FromSource(s, i - 1, Source(s[(i - 1) + 1])))
    BY <1>2, SentBeforeIsCount
  <1>. QED  BY <1>1, <1>2, <1>3

\* A frame of the source counts as one.
LEMMA OneMore ==
    ASSUME NEW s, NEW i \in Nat, i > 0
    PROVE  /\ Cardinality(FromSource(s, i, Source(s[i]))) =
                  Cardinality(FromSource(s, i - 1, Source(s[i]))) + 1
           /\ Cardinality(FromSource(s, i - 1, Source(s[i]))) \in Nat
  <1>1. i - 1 \in Nat /\ (i - 1) + 1 = i
    OBVIOUS
  <1>2. Cardinality(FromSource(s, (i - 1) + 1, Source(s[i]))) =
            IF Source(s[(i - 1) + 1]) = Source(s[i])
            THEN Cardinality(FromSource(s, i - 1, Source(s[i]))) + 1
            ELSE Cardinality(FromSource(s, i - 1, Source(s[i])))
    BY <1>1, FromSourceStep
  <1>3. Cardinality(FromSource(s, i - 1, Source(s[i]))) \in Nat
    BY <1>1, FromSourceFinite
  <1>. QED  BY <1>1, <1>2, <1>3

\* A repeated event makes two neighbours of one source with one number.
LEMMA DuplicateRefused ==
    ASSUME NEW s \in Seq(Frame), NEW r \in Seq(Frame), WellFormed(r),
           NEW i \in 1..Len(s), r = Duplicate(s, i)
    PROVE  FALSE
  <1>. DEFINE x == InsertAt(s, i, s[i])
  <1>1. /\ x \in Seq(Frame) /\ Len(x) = Len(s) + 1 /\ x[i] = s[i] /\ x[i + 1] = s[i]
        /\ i \in 1..Len(x) /\ i + 1 \in 1..Len(x) /\ i \in Nat /\ i > 0
    <2>. DEFINE a == SubSeq(s, 1, i - 1)
                b == SubSeq(s, i, Len(s))
                e == <<s[i]>>
    <2>1. /\ a \in Seq(Frame) /\ b \in Seq(Frame) /\ e \in Seq(Frame)
          /\ Len(a) = i - 1 /\ Len(b) = Len(s) - i + 1 /\ Len(e) = 1
          /\ b[1] = s[i] /\ e[1] = s[i]
      OBVIOUS
    <2>2. x = (a \o e) \o b
      BY DEF InsertAt
    <2>. HIDE DEF a, b, e, x
    <2>. DEFINE c == a \o e
    <2>3. c \in Seq(Frame) /\ Joined(c, a, e) /\ x = c \o b
      BY <2>1, <2>2, ConcatShape
    <2>. HIDE DEF c
    <2>4. Len(c) = i /\ c[i] = s[i]
      <3>1. Len(c) = (i - 1) + 1 /\ \A k \in ((i - 1) + 1)..((i - 1) + 1) : c[k] = e[k - (i - 1)]
        BY <2>1, <2>3 DEF Joined
      <3>2. i \in ((i - 1) + 1)..((i - 1) + 1) /\ i - (i - 1) = 1 /\ (i - 1) + 1 = i
        OBVIOUS
      <3>3. c[i] = e[i - (i - 1)]
        BY <3>1, <3>2
      <3>. QED  BY <2>1, <3>1, <3>2, <3>3
    <2>5. x \in Seq(Frame) /\ Joined(x, c, b)
      BY <2>1, <2>3, ConcatShape
    <2>6. i \in 1..Len(c) /\ i + 1 \in (Len(c) + 1)..(Len(c) + Len(b)) /\ (i + 1) - Len(c) = 1
      BY <2>1, <2>4
    <2>7. x[i] = c[i] /\ x[i + 1] = b[(i + 1) - Len(c)] /\ Len(x) = Len(c) + Len(b)
      BY <2>5, <2>6 DEF Joined
    <2>8. b[(i + 1) - Len(c)] = s[i] /\ Len(x) = Len(s) + 1
      BY <2>1, <2>4, <2>6, <2>7
    <2>. QED  BY <2>4, <2>5, <2>7, <2>8
  <1>2. r = Renumbered(x)
    BY DEF Duplicate
  <1>. HIDE DEF x
  <1>3. Len(r) = Len(x)
    BY <1>1, <1>2, RenumberedLen
  <1>4. /\ Source(r[i]) = Source(s[i]) /\ r[i].seq = s[i].seq
        /\ Source(r[i + 1]) = Source(s[i]) /\ r[i + 1].seq = s[i].seq
    BY <1>1, <1>2, RenumberedFrame
  <1>5. r[i].seq = Cardinality(FromSource(r, i - 1, Source(r[i])))
    BY <1>1, <1>3, RecordedSeq
  <1>6. r[i + 1].seq = Cardinality(FromSource(r, i, Source(r[i])))
    <2>1. (i + 1) - 1 = i /\ i + 1 \in 1..Len(r)
      BY <1>1, <1>3
    <2>2. r[i + 1].seq = Cardinality(FromSource(r, (i + 1) - 1, Source(r[i + 1])))
      BY <2>1, RecordedSeq
    <2>. QED  BY <2>1, <2>2, <1>4
  <1>7. /\ Cardinality(FromSource(r, i, Source(r[i]))) =
               Cardinality(FromSource(r, i - 1, Source(r[i]))) + 1
        /\ Cardinality(FromSource(r, i - 1, Source(r[i]))) \in Nat
    BY <1>1, OneMore
  <1>. QED  BY <1>4, <1>5, <1>6, <1>7

\* An event that comes before one of its own source has a number too many.
LEMMA OvertakeRefused ==
    ASSUME NEW s \in Seq(Frame), WellFormed(s), NEW r \in Seq(Frame), WellFormed(r),
           NEW i \in 1..(Len(s) - 1), Source(s[i]) = Source(s[i + 1]), r = Overtake(s, i)
    PROVE  FALSE
  <1>. DEFINE x == Swapped(s, i)
  <1>1. /\ x \in Seq(Frame) /\ Len(x) = Len(s) /\ x[i] = s[i + 1] /\ i \in 1..Len(s)
        /\ i \in Nat /\ i > 0 /\ i + 1 \in 1..Len(s) /\ (i + 1) - 1 = i
        /\ \A k \in 1..(i - 1) : x[k] = s[k] /\ k \in 1..Len(s)
    BY DEF Swapped
  <1>2. r = Renumbered(x)
    BY DEF Overtake
  <1>. HIDE DEF x
  <1>3. Len(r) = Len(s)
    BY <1>1, <1>2, RenumberedLen
  <1>4. /\ Source(r[i]) = Source(s[i]) /\ r[i].seq = s[i + 1].seq
        /\ \A k \in 1..(i - 1) : Source(r[k]) = Source(s[k])
    BY <1>1, <1>2, RenumberedFrame
  <1>5. r[i].seq = Cardinality(FromSource(r, i - 1, Source(s[i])))
    BY <1>1, <1>3, <1>4, RecordedSeq
  <1>6. Cardinality(FromSource(r, i - 1, Source(s[i]))) =
            Cardinality(FromSource(s, i - 1, Source(s[i])))
    <2>1. FromSource(r, i - 1, Source(s[i])) = FromSource(s, i - 1, Source(s[i]))
      BY <1>4 DEF FromSource
    <2>. QED  BY <2>1
  <1>7. s[i + 1].seq = Cardinality(FromSource(s, i, Source(s[i])))
    <2>1. s[i + 1].seq = Cardinality(FromSource(s, (i + 1) - 1, Source(s[i + 1])))
      BY <1>1, RecordedSeq
    <2>. QED  BY <1>1, <2>1
  <1>8. /\ Cardinality(FromSource(s, i, Source(s[i]))) =
               Cardinality(FromSource(s, i - 1, Source(s[i]))) + 1
        /\ Cardinality(FromSource(s, i - 1, Source(s[i]))) \in Nat
    BY <1>1, OneMore
  <1>. DEFINE A == Cardinality(FromSource(s, i, Source(s[i])))
              B == Cardinality(FromSource(s, i - 1, Source(s[i])))
  <1>9. A = B + 1 /\ B \in Nat /\ A = B
    BY <1>4, <1>5, <1>6, <1>7, <1>8
  <1>. HIDE DEF A, B
  <1>. QED  BY <1>9

\* The next event of a source that lost one is a number ahead.
LEMMA LossRefused ==
    ASSUME NEW s \in Seq(Frame), WellFormed(s), NEW r \in Seq(Frame), WellFormed(r),
           NEW i \in 1..Len(s), SameSourceLater(s, i), r = Lose(s, i)
    PROVE  FALSE
  <1>. DEFINE T == {j \in (i + 1)..Len(s) : Source(s[j]) = Source(s[i])}
              x == RemoveAt(s, i)
              src == Source(s[i])
  <1>1. PICK j \in T : \A k \in T : j <= k
    <2>1. T \in SUBSET Nat /\ T # {}
      BY DEF SameSourceLater
    <2>. HIDE DEF T
    <2>. QED  BY <2>1, LeastNumber
  <1>2. /\ j \in 1..Len(s) /\ j > i /\ Source(s[j]) = src
        /\ \A k \in (i + 1)..(j - 1) : Source(s[k]) # src
    BY <1>1
  <1>3. /\ x \in Seq(Frame) /\ Len(x) = Len(s) - 1
        /\ \A k \in 1..(i - 1) : x[k] = s[k] /\ k \in 1..Len(x)
        /\ \A k \in i..(Len(s) - 1) : x[k] = s[k + 1] /\ k \in 1..Len(x)
    <2>. DEFINE a == SubSeq(s, 1, i - 1)
                b == SubSeq(s, i + 1, Len(s))
    <2>1. /\ a \in Seq(Frame) /\ b \in Seq(Frame)
          /\ Len(a) = i - 1 /\ Len(b) = Len(s) - i
          /\ \A k \in 1..(i - 1) : a[k] = s[k]
          /\ \A k \in 1..(Len(s) - i) : b[k] = s[i + k]
      <3>1. a \in Seq(Frame) /\ Len(a) = i - 1 /\ \A k \in 1..(i - 1) : a[k] = s[k]
        OBVIOUS
      <3>2. b \in Seq(Frame) /\ Len(b) = Len(s) - i
        OBVIOUS
      <3>3. \A k \in 1..(Len(s) - i) : b[k] = s[i + k]
        OBVIOUS
      <3>. QED  BY <3>1, <3>2, <3>3
    <2>2. x = a \o b
      BY DEF RemoveAt
    <2>. HIDE DEF a, b, x
    <2>a. x \in Seq(Frame) /\ Joined(x, a, b)
      BY <2>1, <2>2, ConcatShape
    <2>3. /\ x \in Seq(Frame) /\ Len(x) = Len(s) - 1
          /\ \A k \in 1..(i - 1) : x[k] = a[k]
          /\ \A k \in i..(Len(s) - 1) : x[k] = b[k - (i - 1)]
      BY <2>1, <2>a DEF Joined
    <2>4. ASSUME NEW k \in i..(Len(s) - 1) PROVE b[k - (i - 1)] = s[k + 1] /\ k \in 1..Len(x)
      <3>1. k - (i - 1) \in 1..(Len(s) - i) /\ i + (k - (i - 1)) = k + 1
        OBVIOUS
      <3>. QED  BY <2>1, <2>3, <3>1
    <2>. QED  BY <2>1, <2>3, <2>4
  <1>4. r = Renumbered(x)
    BY DEF Lose
  <1>. HIDE DEF x, T
  <1>5. Len(r) = Len(x)
    BY <1>3, <1>4, RenumberedLen
  <1>6. /\ \A k \in 1..(i - 1) : Source(r[k]) = Source(s[k])
        /\ \A k \in i..(Len(s) - 1) : Source(r[k]) = Source(s[k + 1]) /\ r[k].seq = s[k + 1].seq
    BY <1>3, <1>4, RenumberedFrame
  <1>7. j - 1 \in i..(Len(s) - 1) /\ (j - 1) + 1 = j /\ j - 1 \in 1..Len(r) /\ i \in Nat /\ i > 0
    BY <1>2, <1>3, <1>5
  <1>8. Source(r[j - 1]) = src /\ r[j - 1].seq = s[j].seq
    BY <1>2, <1>6, <1>7
  <1>9. r[j - 1].seq = Cardinality(FromSource(r, (j - 1) - 1, src))
    BY <1>7, <1>8, RecordedSeq
  <1>10. s[j].seq = Cardinality(FromSource(s, j - 1, src))
    BY <1>2, RecordedSeq
  <1>11. FromSource(s, j - 1, src) = FromSource(s, i, src)
    <2>1. \A k \in 1..(j - 1) : Source(s[k]) = src => k \in 1..i
      BY <1>2
    <2>2. 1..i \subseteq 1..(j - 1)
      BY <1>2
    <2>. HIDE DEF src
    <2>. QED  BY <2>1, <2>2 DEF FromSource
  <1>12. FromSource(r, (j - 1) - 1, src) = FromSource(s, i - 1, src)
    <2>1. ASSUME NEW k \in 1..((j - 1) - 1), Source(r[k]) = src
          PROVE  k \in 1..(i - 1) /\ Source(s[k]) = src
      <3>1. CASE k < i
        <4>1. k \in 1..(i - 1)
          BY <3>1
        <4>. QED  BY <4>1, <1>6, <2>1
      <3>2. CASE k >= i
        <4>1. k \in i..(Len(s) - 1) /\ k + 1 \in (i + 1)..(j - 1)
          BY <3>2, <1>2
        <4>2. Source(s[k + 1]) = src
          BY <4>1, <1>6, <2>1
        <4>. QED  BY <4>1, <4>2, <1>2
      <3>. QED  BY <3>1, <3>2
    <2>2. ASSUME NEW k \in 1..(i - 1)
          PROVE  k \in 1..((j - 1) - 1) /\ Source(r[k]) = Source(s[k])
      BY <1>2, <1>6
    <2>. HIDE DEF src
    <2>. QED  BY <2>1, <2>2 DEF FromSource
  <1>13. /\ Cardinality(FromSource(s, i, src)) = Cardinality(FromSource(s, i - 1, src)) + 1
         /\ Cardinality(FromSource(s, i - 1, src)) \in Nat
    BY <1>7, OneMore
  <1>14. /\ Cardinality(FromSource(s, j - 1, src)) = Cardinality(FromSource(s, i, src))
         /\ Cardinality(FromSource(r, (j - 1) - 1, src)) = Cardinality(FromSource(s, i - 1, src))
    BY <1>11, <1>12
  <1>. DEFINE A == Cardinality(FromSource(s, i, src))
              B == Cardinality(FromSource(s, i - 1, src))
  <1>15. A = B + 1 /\ B \in Nat /\ A = B
    BY <1>8, <1>9, <1>10, <1>13, <1>14
  <1>. HIDE DEF A, B
  <1>. QED  BY <1>15

\* What the reader accepted is none of them.
LEMMA InvTampered == IInv => TamperedIsRefused
  <1>. SUFFICES ASSUME IInv, status = "accepted", NEW s \in Written, WellFormed(s)
                PROVE  /\ \A i \in 1..Len(s) : stream # Duplicate(s, i)
                       /\ \A i \in 1..Len(s) : SameSourceLater(s, i) => stream # Lose(s, i)
                       /\ \A i \in 1..(Len(s) - 1) :
                            Source(s[i]) = Source(s[i + 1]) => stream # Overtake(s, i)
    BY DEF TamperedIsRefused
  <1>1. s \in Seq(Frame) /\ stream \in Seq(Frame) /\ WellFormed(stream)
    BY StreamsAssumption, InvAccepted DEF IInv, TypeOK, AcceptedIsWellFormed
  <1>2. ASSUME NEW i \in 1..Len(s), stream = Duplicate(s, i) PROVE FALSE
    BY <1>1, <1>2, DuplicateRefused
  <1>3. ASSUME NEW i \in 1..Len(s), SameSourceLater(s, i), stream = Lose(s, i) PROVE FALSE
    BY <1>1, <1>3, LossRefused
  <1>4. ASSUME NEW i \in 1..(Len(s) - 1), Source(s[i]) = Source(s[i + 1]), stream = Overtake(s, i)
        PROVE  FALSE
    BY <1>1, <1>4, OvertakeRefused
  <1>. QED  BY <1>2, <1>3, <1>4

\* An event lost before a later one of its source, repeated, or overtaken within
\* its source is refused, whatever was recorded.
THEOREM TamperingIsRefused == Spec => []TamperedIsRefused
  BY InvTampered, Invariance, PTL

-----------------------------------------------------------------------------
(***************************************************************************)
(* The hashes commit the interleaving.                                     *)
(***************************************************************************)
\* What the chains hold: envelopes, with and without their ordinal.
Held == {envelope(f) : f \in Frame} \cup {[envelope(f) EXCEPT !.ordinal = 0] : f \in Frame}

\* Envelopes and payloads of a stream, place by place.
LEMMA HeldShape ==
    ASSUME NEW s \in Seq(Frame)
    PROVE  /\ Envelopes(s) \in Seq(Held) /\ Len(Envelopes(s)) = Len(s)
           /\ Payloads(s) \in Seq(Held) /\ Len(Payloads(s)) = Len(s)
           /\ \A i \in 1..Len(s) : /\ Envelopes(s)[i] = envelope(s[i])
                                   /\ Payloads(s)[i] = [envelope(s[i]) EXCEPT !.ordinal = 0]
  <1>1. DOMAIN s = 1..Len(s) /\ Len(s) \in Nat /\ \A i \in 1..Len(s) : s[i] \in Frame
    OBVIOUS
  <1>2. Envelopes(s) \in [1..Len(s) -> Held]
    BY <1>1 DEF Envelopes, Held
  <1>3. Payloads(s) \in [1..Len(s) -> Held]
    BY <1>1 DEF Payloads, Held
  <1>4. \A i \in 1..Len(s) : /\ Envelopes(s)[i] = envelope(s[i])
                             /\ Payloads(s)[i] = [envelope(s[i]) EXCEPT !.ordinal = 0]
    BY <1>1 DEF Envelopes, Payloads
  <1>5. Envelopes(s) \in Seq(Held) /\ Len(Envelopes(s)) = Len(s)
    BY <1>1, <1>2, FunctionIsSeq
  <1>6. Payloads(s) \in Seq(Held) /\ Len(Payloads(s)) = Len(s)
    BY <1>1, <1>3, FunctionIsSeq
  <1>. QED  BY <1>4, <1>5, <1>6

\* Frames with the same payload differ in their ordinal if at all.
LEMMA SamePayload ==
    ASSUME NEW f, NEW g, [envelope(f) EXCEPT !.ordinal = 0] = [envelope(g) EXCEPT !.ordinal = 0]
    PROVE  /\ f.type = g.type /\ f.body = g.body
           /\ f.ordinal = g.ordinal => envelope(f) = envelope(g)
  <1>. DEFINE E(h) == [envelope(h) EXCEPT !.ordinal = 0]
  <1>1. ASSUME NEW h
        PROVE  /\ E(h).src = h.src /\ E(h).dst = h.dst /\ E(h).channel = h.channel
               /\ E(h).seq = h.seq /\ E(h).type = h.type /\ E(h).flags = h.flags
               /\ E(h).body = h.body
    BY DEF envelope
  <1>2. /\ f.src = g.src /\ f.dst = g.dst /\ f.channel = g.channel /\ f.seq = g.seq
        /\ f.type = g.type /\ f.flags = g.flags /\ f.body = g.body
    <2>1. E(f) = E(g)
      OBVIOUS
    <2>. HIDE DEF E
    <2>. QED  BY <1>1, <2>1
  <1>. QED  BY <1>2 DEF envelope

\* Two recordings of the same inputs are equally long: the End marker counts.
LEMMA SameInputsSameLen ==
    ASSUME NEW s \in Seq(Frame), NEW t \in Seq(Frame), WellFormed(s), WellFormed(t),
           Keep(Payloads(t), InputPlaces(t)) = Keep(Payloads(s), InputPlaces(s))
    PROVE  Len(t) = Len(s)
  <1>. DEFINE n == Len(t)
  <1>1. n \in 1..Len(t) /\ Len(s) \in Nat /\ Len(s) >= 1
    BY DEF WellFormed
  <1>2. t[n].type = "End"
    BY <1>1 DEF WellFormed, FrameWellFormed
  <1>3. n \in InputPlaces(t)
    BY <1>1, <1>2 DEF InputPlaces, EmitPlaces, IsEmit, kind, MarkerTypes
  <1>4. PICK m \in 1..Len(s) : m \in InputPlaces(s) /\ Payloads(t)[n] = Payloads(s)[m]
    <2>1. /\ Payloads(t) \in Seq(Held) /\ Len(Payloads(t)) = Len(t)
          /\ Payloads(s) \in Seq(Held) /\ Len(Payloads(s)) = Len(s)
      BY HeldShape
    <2>2. n \in 1..Len(Payloads(t))
      BY <1>1, <2>1
    <2>3. \E m \in 1..Len(Payloads(s)) : m \in InputPlaces(s) /\ Payloads(t)[n] = Payloads(s)[m]
      <3>. DEFINE p == Payloads(t)
                  q == Payloads(s)
                  I == InputPlaces(t)
                  J == InputPlaces(s)
      <3>1. p \in Seq(Held) /\ q \in Seq(Held) /\ Keep(p, I) = Keep(q, J) /\ n \in 1..Len(p) /\ n \in I
        BY <1>3, <2>1, <2>2
      <3>. HIDE DEF p, q, I, J, n
      <3>2. \E m \in 1..Len(q) : m \in J /\ p[n] = q[m]
        BY <3>1, KeptInBoth
      <3>. QED  BY <3>2 DEF p, q, J
    <2>. QED  BY <2>1, <2>3
  <1>5. [envelope(t[n]) EXCEPT !.ordinal = 0] = [envelope(s[m]) EXCEPT !.ordinal = 0]
    <2>1. Payloads(t)[n] = [envelope(t[n]) EXCEPT !.ordinal = 0]
      BY <1>1, HeldShape
    <2>2. Payloads(s)[m] = [envelope(s[m]) EXCEPT !.ordinal = 0]
      BY HeldShape
    <2>. QED  BY <1>4, <2>1, <2>2
  <1>6. s[m].type = "End" /\ s[m].body = t[n].body
    BY <1>2, <1>5, SamePayload
  <1>7. m = Len(s)
    BY <1>6 DEF WellFormed, FrameWellFormed
  <1>8. t[n].body.frame_count = Len(t) - 1 /\ s[m].body.frame_count = Len(s) - 1
    BY <1>7 DEF WellFormed
  <1>. QED  BY <1>1, <1>6, <1>8

\* Ordinals make kept envelopes name their places, so equal ones fix where the
\* frames stood and the rest falls into the places between.
LEMMA OneSideDetermines ==
    ASSUME NEW s \in Seq(Frame), NEW t \in Seq(Frame), WellFormed(s), WellFormed(t),
           Len(t) = Len(s), NEW I \in SUBSET (1..Len(s)), NEW J \in SUBSET (1..Len(s)),
           Keep(Envelopes(t), J) = Keep(Envelopes(s), I),
           NEW K, K = (1..Len(s)) \ I, NEW L, L = (1..Len(s)) \ J,
           Keep(Payloads(t), L) = Keep(Payloads(s), K)
    PROVE  Envelopes(t) = Envelopes(s)
  <1>1. /\ Envelopes(t) \in Seq(Held) /\ Len(Envelopes(t)) = Len(s)
        /\ Envelopes(s) \in Seq(Held) /\ Len(Envelopes(s)) = Len(s)
        /\ Payloads(t) \in Seq(Held) /\ Len(Payloads(t)) = Len(s)
        /\ Payloads(s) \in Seq(Held) /\ Len(Payloads(s)) = Len(s)
    BY HeldShape
  <1>2. ASSUME NEW k \in 1..Len(s)
        PROVE  /\ Envelopes(s)[k] = envelope(s[k]) /\ Envelopes(t)[k] = envelope(t[k])
               /\ s[k].ordinal = k - 1 /\ t[k].ordinal = k - 1
               /\ Payloads(s)[k] = [envelope(s[k]) EXCEPT !.ordinal = 0]
               /\ Payloads(t)[k] = [envelope(t[k]) EXCEPT !.ordinal = 0]
    BY HeldShape DEF WellFormed, FrameWellFormed
  <1>3. ASSUME NEW k \in 1..Len(s), NEW m \in 1..Len(s), Envelopes(s)[k] = Envelopes(t)[m]
        PROVE  k = m
    <2>1. envelope(s[k]) = envelope(t[m])
      <3>1. Envelopes(s)[k] = envelope(s[k])
        BY <1>2
      <3>2. Envelopes(t)[m] = envelope(t[m])
        BY <1>2
      <3>. QED  BY <1>3, <3>1, <3>2
    <2>2. envelope(s[k]).ordinal = s[k].ordinal /\ envelope(t[m]).ordinal = t[m].ordinal
      BY DEF envelope
    <2>a. s[k].ordinal = k - 1 /\ t[m].ordinal = m - 1
      BY <1>2
    <2>3. k - 1 = m - 1
      BY <2>a, <2>1, <2>2
    <2>. QED  BY <2>3
  <1>4. ASSUME NEW k \in I PROVE k \in J /\ Envelopes(s)[k] = Envelopes(t)[k]
    <2>1. \E m \in 1..Len(Envelopes(t)) : m \in J /\ Envelopes(s)[k] = Envelopes(t)[m]
      BY <1>1, KeptInBoth
    <2>2. PICK m \in 1..Len(s) : m \in J /\ Envelopes(s)[k] = Envelopes(t)[m]
      BY <1>1, <2>1
    <2>3. k = m
      BY <1>3, <2>2
    <2>. QED  BY <2>2, <2>3
  <1>5. ASSUME NEW k \in J PROVE k \in I
    <2>1. \E m \in 1..Len(Envelopes(s)) : m \in I /\ Envelopes(t)[k] = Envelopes(s)[m]
      BY <1>1, KeptInBoth
    <2>2. PICK m \in 1..Len(s) : m \in I /\ Envelopes(t)[k] = Envelopes(s)[m]
      BY <1>1, <2>1
    <2>3. m = k
      BY <1>3, <2>2
    <2>. QED  BY <2>2, <2>3
  <1>6. L = K
    BY <1>4, <1>5
  <1>7. ASSUME NEW k \in K PROVE Envelopes(s)[k] = Envelopes(t)[k]
    <2>a. k \in 1..Len(s) /\ Keep(Payloads(s), K) = Keep(Payloads(t), K)
      BY <1>6
    <2>b. \A i \in 1..Len(Payloads(s)) : i \in K => Payloads(s)[i] = Payloads(t)[i]
      <3>. DEFINE p == Payloads(s)
                  q == Payloads(t)
      <3>1. p \in Seq(Held) /\ q \in Seq(Held) /\ Len(p) = Len(q) /\ Keep(p, K) = Keep(q, K)
        BY <1>1, <2>a
      <3>. HIDE DEF p, q
      <3>2. AgreeAt(p, q, K)
        BY <3>1, KeepDetermines
      <3>. QED  BY <3>2 DEF p, q, AgreeAt
    <2>1. Payloads(s)[k] = Payloads(t)[k] /\ k \in 1..Len(s)
      BY <1>1, <2>a, <2>b
    <2>2. [envelope(s[k]) EXCEPT !.ordinal = 0] = [envelope(t[k]) EXCEPT !.ordinal = 0]
      BY <1>2, <2>1
    <2>3. s[k].ordinal = t[k].ordinal => envelope(s[k]) = envelope(t[k])
      BY <2>2, SamePayload
    <2>. QED  BY <1>2, <2>1, <2>3
  <1>8. \A k \in 1..Len(s) : Envelopes(s)[k] = Envelopes(t)[k]
    BY <1>4, <1>7
  <1>. QED  BY <1>1, <1>8, SeqEqual

\* What the reader accepted has hashes of its own among the interleavings.
LEMMA InvInterleaving == IInv => InterleavingCommitted
  <1>. SUFFICES ASSUME IInv, status = "accepted", NEW t \in Written, WellFormed(t),
                       Keep(Payloads(t), EmitPlaces(t)) = Keep(Payloads(stream), EmitPlaces(stream)),
                       Keep(Payloads(t), InputPlaces(t)) = Keep(Payloads(stream), InputPlaces(stream)),
                       Envelopes(t) # Envelopes(stream)
                PROVE  /\ trace_hash(t) # trace_hash(stream)
                       /\ run_hash(t) # run_hash(stream)
                       /\ output_digest(t) # output_digest(stream)
    BY DEF InterleavingCommitted
  <1>1. t \in Seq(Frame) /\ stream \in Seq(Frame) /\ WellFormed(stream)
    BY StreamsAssumption, InvAccepted DEF IInv, TypeOK, AcceptedIsWellFormed
  <1>2. Len(t) = Len(stream)
    BY <1>1, SameInputsSameLen
  <1>3. ASSUME NEW s \in Seq(Frame)
        PROVE  /\ EmitPlaces(s) \in SUBSET (1..Len(s)) /\ InputPlaces(s) \in SUBSET (1..Len(s))
               /\ InputPlaces(s) = (1..Len(s)) \ EmitPlaces(s)
               /\ EmitPlaces(s) = (1..Len(s)) \ InputPlaces(s)
    BY DEF EmitPlaces, InputPlaces
  <1>4. /\ EmitPlaces(t) \in SUBSET (1..Len(stream)) /\ InputPlaces(t) \in SUBSET (1..Len(stream))
        /\ InputPlaces(t) = (1..Len(stream)) \ EmitPlaces(t)
        /\ EmitPlaces(t) = (1..Len(stream)) \ InputPlaces(t)
    BY <1>1, <1>2, <1>3
  <1>5. trace_hash(t) # trace_hash(stream)
    <2>. SUFFICES ASSUME Keep(Envelopes(t), InputPlaces(t)) =
                            Keep(Envelopes(stream), InputPlaces(stream))
                  PROVE  FALSE
      BY DEF trace_hash
    <2>. QED  BY <1>1, <1>2, <1>3, <1>4, OneSideDetermines
  <1>6. output_digest(t) # output_digest(stream)
    <2>. SUFFICES ASSUME Keep(Envelopes(t), EmitPlaces(t)) =
                            Keep(Envelopes(stream), EmitPlaces(stream))
                  PROVE  FALSE
      BY DEF output_digest
    <2>. QED  BY <1>1, <1>2, <1>3, <1>4, OneSideDetermines
  <1>7. run_hash(t) # run_hash(stream)
    BY <1>5 DEF run_hash
  <1>. QED  BY <1>5, <1>6, <1>7

\* Two recordings that differ only in how inputs and effects interleave differ on
\* all three execution hashes, whatever was recorded.
THEOREM InterleavingIsCommitted == Spec => []InterleavingCommitted
  BY InvInterleaving, Invariance, PTL

-----------------------------------------------------------------------------
(***************************************************************************)
(* Goal correspondence.                                                    *)
(***************************************************************************)
\* A recorded goal and a goal of the run at the same place of their client.
Matches(r, i) ==
    /\ IsGoal(recording[r]) /\ SameChannel(frames[i], recording[r])
    /\ src_seq(frames, i) = src_seq(recording, r)

\* Their correspondence.
PairAt(r, i) == [request |-> r, recorded |-> recording[r].id,
                 replayed |-> frames[i].id, client |-> recording[r].client]

\* The goals of a client in a stream.
GoalsIn(s, c) == {j \in 1..Len(s) : IsGoal(s[j]) /\ s[j].client = c}

\* The types, with finitely many pairs.
GoalsTypeOK ==
    /\ enabled \in BOOLEAN
    /\ recording \in Seq(Effect) /\ frames \in Seq(Effect) /\ normalized \in Seq(Effect)
    /\ Len(normalized) = Len(frames) /\ counts \in [Client -> Nat]
    /\ phase \in {"loading", "running", "refused", "mismatch"}
    /\ IsFiniteSet(pairs)

\* A recorded cancel names every goal or a recorded one.
RecordedCancels ==
    \A i \in 1..Len(recording) :
        ~IsGoal(recording[i]) =>
            \/ recording[i].id = Zero
            \/ \E j \in 1..Len(recording) : recording[j] = [recording[i] EXCEPT !.type = "GoalSend"]

\* Goals::new let the recording pass before anything was issued.
PhaseInv ==
    /\ phase = "loading" => frames = <<>>
    /\ phase = "running" => RecordingAllowed

\* counts is how many goals the run issued.
CountsInv == \A c \in Client : counts[c] = Cardinality(GoalsIn(frames, c))

\* seen is what the run issued, and each goal has an id of its own.
SeenInv ==
    /\ \A x \in seen : \E i \in 1..Len(frames) :
          IsGoal(frames[i]) /\ x = <<frames[i].client, frames[i].id>>
    /\ \A i \in 1..Len(frames) : IsGoal(frames[i]) =>
          /\ frames[i].id # Zero /\ <<frames[i].client, frames[i].id>> \in seen
          /\ \A j \in 1..Len(frames) : frames[j] = frames[i] => j = i

\* pairs relates exactly the goals at the same place.
PairsInv ==
    /\ \A p \in pairs : \E r \in 1..Len(recording), i \in 1..Len(frames) :
          Matches(r, i) /\ p = PairAt(r, i)
    /\ \A r \in 1..Len(recording), i \in 1..Len(frames) :
          Matches(r, i) => PairAt(r, i) \in pairs

\* An effect was translated as the pairs of now would translate it, although it
\* was by the pairs of its time.
NormalizedInv ==
    \A i \in 1..Len(frames) :
        /\ \/ Replaying(frames[i].client, frames[i].id) = {} /\ normalized[i] = frames[i]
           \/ \E p \in Replaying(frames[i].client, frames[i].id) :
                 normalized[i] = Renamed(frames[i], p.recorded)
        /\ frames[i].id = Zero \/ <<frames[i].client, frames[i].id>> \in seen

\* The invariant of goal correspondence.
GoalsInv ==
    /\ GoalsTypeOK /\ RecordedCancels /\ PhaseInv /\ CountsInv /\ SeenInv
    /\ PairsInv /\ NormalizedInv


-----------------------------------------------------------------------------
\* The fields of an effect have their types.
LEMMA EffectFields ==
    ASSUME NEW e \in Effect
    PROVE  /\ e.client \in Client /\ e.id \in Id \cup {Zero}
           /\ e.type \in {"GoalSend", "CancelSend"}
  BY DEF Effect

\* What counts the frames before one is a number.
LEMMA PlaceIsNumber ==
    ASSUME NEW s, NEW i \in Nat
    PROVE  /\ IsFiniteSet({j \in 1..(i - 1) : SameChannel(s[j], s[i])})
           /\ src_seq(s, i) \in Nat
  <1>1. IsFiniteSet(1..(i - 1))
    BY FS_Interval
  <1>2. IsFiniteSet({j \in 1..(i - 1) : SameChannel(s[j], s[i])})
    BY <1>1, FS_Subset, {j \in 1..(i - 1) : SameChannel(s[j], s[i])} \in SUBSET (1..(i - 1))
  <1> QED
    BY <1>2, FS_CardinalityType DEF src_seq

\* Later frames of a channel have later places.
LEMMA PlacesGrow ==
    ASSUME NEW s, NEW i \in Nat \ {0}, NEW k \in Nat, i < k, SameChannel(s[i], s[k])
    PROVE  src_seq(s, i) < src_seq(s, k)
  <1> DEFINE A == {j \in 1..(i - 1) : SameChannel(s[j], s[i])}
             B == {j \in 1..(k - 1) : SameChannel(s[j], s[k])}
  <1>1. IsFiniteSet(A) /\ IsFiniteSet(B)
    BY PlaceIsNumber
  <1>2. A \cup {i} \in SUBSET B
    BY DEF SameChannel
  <1>3. i \notin A
    OBVIOUS
  <1>4. Cardinality(A \cup {i}) = Cardinality(A) + 1
    BY <1>1, <1>3, FS_AddElement
  <1>5. Cardinality(A \cup {i}) <= Cardinality(B)
    BY <1>1, <1>2, FS_Subset
  <1>6. Cardinality(A) \in Nat /\ Cardinality(B) \in Nat
    BY <1>1, FS_CardinalityType
  <1> HIDE DEF A, B
  <1>7. Cardinality(A) < Cardinality(B)
    BY <1>4, <1>5, <1>6
  <1> QED
    BY <1>7 DEF src_seq, A, B

\* Two frames of a channel have different places.
LEMMA PlaceIsUnique ==
    ASSUME NEW s, NEW i \in Nat \ {0}, NEW k \in Nat \ {0}, SameChannel(s[i], s[k]),
           src_seq(s, i) = src_seq(s, k)
    PROVE  i = k
  <1>1. src_seq(s, i) \in Nat /\ src_seq(s, k) \in Nat
    BY PlaceIsNumber
  <1>2. SameChannel(s[k], s[i])
    BY DEF SameChannel
  <1>3. ~(i < k)
    BY <1>1, PlacesGrow
  <1>4. ~(k < i)
    BY <1>1, <1>2, PlacesGrow
  <1> QED
    BY <1>3, <1>4

\* A frame keeps its place when another is added.
LEMMA PlaceIsKept ==
    ASSUME NEW S, NEW s \in Seq(S), NEW e \in S, NEW i \in 1..Len(s)
    PROVE  src_seq(Append(s, e), i) = src_seq(s, i)
  <1>1. \A j \in 1..i : Append(s, e)[j] = s[j]
    OBVIOUS
  <1>2. {j \in 1..(i - 1) : SameChannel(Append(s, e)[j], Append(s, e)[i])}
        = {j \in 1..(i - 1) : SameChannel(s[j], s[i])}
    BY <1>1
  <1> QED
    BY <1>2 DEF src_seq

\* The place of a goal that is added is the number of the client's goals.
LEMMA NewPlace ==
    ASSUME NEW s \in Seq(Effect), NEW e \in Effect, IsGoal(e)
    PROVE  src_seq(Append(s, e), Len(s) + 1) = Cardinality(GoalsIn(s, e.client))
  <1>1. Append(s, e)[Len(s) + 1] = e /\ \A j \in 1..Len(s) : Append(s, e)[j] = s[j]
    OBVIOUS
  <1>2. (Len(s) + 1) - 1 = Len(s)
    OBVIOUS
  <1>3. {j \in 1..((Len(s) + 1) - 1) : SameChannel(Append(s, e)[j], Append(s, e)[Len(s) + 1])}
        = GoalsIn(s, e.client)
    BY <1>1, <1>2 DEF GoalsIn, SameChannel, IsGoal
  <1> QED
    BY <1>3 DEF src_seq

\* A client has finitely many goals.
LEMMA GoalsInFinite ==
    ASSUME NEW s \in Seq(Effect), NEW c
    PROVE  IsFiniteSet(GoalsIn(s, c)) /\ Cardinality(GoalsIn(s, c)) \in Nat
  <1>1. IsFiniteSet(1..Len(s))
    BY FS_Interval
  <1>2. IsFiniteSet(GoalsIn(s, c))
    BY <1>1, FS_Subset, GoalsIn(s, c) \in SUBSET (1..Len(s)) DEF GoalsIn
  <1> QED
    BY <1>2, FS_CardinalityType

\* How the goals of a client grow.
LEMMA GoalsInGrow ==
    ASSUME NEW s \in Seq(Effect), NEW e \in Effect, NEW c
    PROVE  Cardinality(GoalsIn(Append(s, e), c))
           = IF IsGoal(e) /\ e.client = c THEN Cardinality(GoalsIn(s, c)) + 1
             ELSE Cardinality(GoalsIn(s, c))
  <1>1. Append(s, e)[Len(s) + 1] = e /\ \A j \in 1..Len(s) : Append(s, e)[j] = s[j]
    OBVIOUS
  <1>2. Len(Append(s, e)) = Len(s) + 1
    OBVIOUS
  <1>3. CASE IsGoal(e) /\ e.client = c
    <2>1. GoalsIn(Append(s, e), c) = GoalsIn(s, c) \cup {Len(s) + 1}
      BY <1>1, <1>2, <1>3 DEF GoalsIn
    <2>2. Len(s) + 1 \notin GoalsIn(s, c)
      BY DEF GoalsIn
    <2>3. IsFiniteSet(GoalsIn(s, c))
      BY GoalsInFinite
    <2>4. Cardinality(GoalsIn(s, c) \cup {Len(s) + 1}) = Cardinality(GoalsIn(s, c)) + 1
      BY <2>2, <2>3, FS_AddElement
    <2> QED
      BY <1>3, <2>1, <2>4
  <1>4. CASE ~(IsGoal(e) /\ e.client = c)
    <2>1. GoalsIn(Append(s, e), c) = GoalsIn(s, c)
      BY <1>1, <1>2, <1>4 DEF GoalsIn
    <2> QED
      BY <1>4, <2>1
  <1> QED
    BY <1>3, <1>4


-----------------------------------------------------------------------------
\* It holds before anything is loaded.
LEMMA GoalsInitInv == GoalsInit => GoalsInv
  <1> SUFFICES ASSUME GoalsInit PROVE GoalsInv
    OBVIOUS
  <1> USE DEF GoalsInit
  <1>1. IsFiniteSet(pairs) /\ Cardinality({}) = 0
    BY FS_EmptySet
  <1>2. Len(frames) = 0 /\ Len(recording) = 0 /\ Len(normalized) = 0
    OBVIOUS
  <1>3. GoalsTypeOK
    BY <1>1, <1>2 DEF GoalsTypeOK
  <1>4. \A c \in Client : GoalsIn(frames, c) = {}
    BY <1>2 DEF GoalsIn
  <1>5. CountsInv
    BY <1>1, <1>4 DEF CountsInv
  <1>6. RecordedCancels /\ PhaseInv /\ SeenInv /\ PairsInv /\ NormalizedInv
    BY <1>2 DEF RecordedCancels, PhaseInv, SeenInv, PairsInv, NormalizedInv
  <1> QED
    BY <1>3, <1>5, <1>6 DEF GoalsInv

\* Loading the recording: nothing is issued yet.
LEMMA LoadInv == GoalsInv /\ Load => GoalsInv'
  <1> SUFFICES ASSUME GoalsInv, Load PROVE GoalsInv'
    OBVIOUS
  <1>1. PICK e \in Effect :
           /\ IsGoal(e) \/ e.id = Zero
              \/ (\E i \in DOMAIN recording : recording[i] = [e EXCEPT !.type = "GoalSend"])
           /\ recording' = Append(recording, e)
    BY DEF Load
  <1>2. UNCHANGED <<enabled, counts, pairs, seen, frames, normalized, phase>> /\ phase = "loading"
    BY DEF Load
  <1>3. recording \in Seq(Effect) /\ frames = <<>> /\ Len(frames) = 0
    BY <1>2 DEF GoalsInv, GoalsTypeOK, PhaseInv
  <1>4. GoalsTypeOK'
    BY <1>1, <1>2, <1>3 DEF GoalsInv, GoalsTypeOK
  <1>5. pairs = {}
    BY <1>3 DEF GoalsInv, PairsInv
  <1>6. RecordedCancels'
    <2>1. /\ Len(recording') = Len(recording) + 1 /\ recording'[Len(recording) + 1] = e
          /\ \A i \in 1..Len(recording) : recording'[i] = recording[i]
          /\ DOMAIN recording = 1..Len(recording)
      BY <1>1, <1>3
    <2> SUFFICES ASSUME NEW i \in 1..Len(recording'), ~IsGoal(recording'[i]), recording'[i].id # Zero
                 PROVE  \E j \in 1..Len(recording') :
                           recording'[j] = [recording'[i] EXCEPT !.type = "GoalSend"]
      BY DEF RecordedCancels, IsGoal
    <2>2. Len(recording) \in Nat
      BY <1>3
    <2>3. CASE i = Len(recording) + 1
      BY <1>1, <2>1, <2>2, <2>3
    <2>4. CASE i \in 1..Len(recording)
      <3>1. PICK j \in 1..Len(recording) : recording[j] = [recording[i] EXCEPT !.type = "GoalSend"]
        BY <2>1, <2>4 DEF GoalsInv, RecordedCancels
      <3>2. j \in 1..Len(recording') /\ recording'[j] = recording[j] /\ recording'[i] = recording[i]
        BY <2>1, <2>2, <2>4
      <3> QED
        BY <3>1, <3>2
    <2> QED
      BY <2>1, <2>2, <2>3, <2>4
  <1>7. PhaseInv'
    BY <1>2, <1>3 DEF PhaseInv
  <1>8. CountsInv'
    BY <1>2 DEF GoalsInv, CountsInv
  <1>9. SeenInv'
    BY <1>2 DEF GoalsInv, SeenInv, IsGoal
  <1>10. PairsInv' /\ NormalizedInv'
    BY <1>2, <1>3, <1>5 DEF PairsInv, NormalizedInv
  <1> QED
    BY <1>4, <1>6, <1>7, <1>8, <1>9, <1>10 DEF GoalsInv

\* A step that leaves the run alone.
LEMMA UnchangedInv ==
    ASSUME GoalsInv, UNCHANGED <<enabled, recording, counts, pairs, seen, frames, normalized>>,
           phase' \in {"loading", "running", "refused", "mismatch"}, PhaseInv'
    PROVE  GoalsInv'
  <1>1. GoalsTypeOK' /\ RecordedCancels' /\ CountsInv' /\ SeenInv'
    BY DEF GoalsInv, GoalsTypeOK, RecordedCancels, CountsInv, SeenInv, IsGoal
  <1>2. PairsInv'
    <2>1. frames' = frames /\ recording' = recording /\ pairs' = pairs
      OBVIOUS
    <2>2. \A r \in 1..Len(recording), i \in 1..Len(frames) :
             /\ src_seq(frames', i) = src_seq(frames, i)
             /\ src_seq(recording', r) = src_seq(recording, r)
      BY <2>1
    <2>3. \A r \in 1..Len(recording), i \in 1..Len(frames) :
             (Matches(r, i)' <=> Matches(r, i)) /\ PairAt(r, i)' = PairAt(r, i)
      BY <2>1, <2>2 DEF Matches, PairAt, IsGoal, SameChannel
    <2> QED
      BY <2>1, <2>3 DEF GoalsInv, PairsInv
  <1>3. NormalizedInv'
    BY DEF GoalsInv, NormalizedInv, Replaying, Renamed
  <1> QED
    BY <1>1, <1>2, <1>3 DEF GoalsInv

\* Goals::new.
LEMMA NewInv == GoalsInv /\ New => GoalsInv'
  <1> SUFFICES ASSUME GoalsInv, New PROVE GoalsInv'
    OBVIOUS
  <1>1. UNCHANGED <<enabled, recording, counts, pairs, seen, frames, normalized>>
    BY DEF New
  <1>2. phase' \in {"running", "refused"} /\ (phase' = "running" => RecordingAllowed)
    BY DEF New
  <1>3. RecordingAllowed => RecordingAllowed'
    BY <1>1 DEF RecordingAllowed, IsGoal
  <1>4. PhaseInv'
    BY <1>2, <1>3 DEF PhaseInv
  <1> QED
    BY <1>1, <1>2, <1>4, UnchangedInv

\* An effect that is refused.
LEMMA MismatchInv == GoalsInv /\ Mismatch => GoalsInv'
  <1> SUFFICES ASSUME GoalsInv, Mismatch PROVE GoalsInv'
    OBVIOUS
  <1>1. PhaseInv' /\ phase' = "mismatch"
    BY DEF Mismatch, PhaseInv
  <1> QED
    BY <1>1, UnchangedInv DEF Mismatch


-----------------------------------------------------------------------------
(***************************************************************************)
(* An effect of the run is emitted.                                        *)
(***************************************************************************)
\* The frames after an effect, and what stays as it was.
LEMMA Emitted ==
    ASSUME GoalsInv, NEW e \in Effect, NEW canonical \in Effect, Emits(e, canonical)
    PROVE  /\ Len(frames) \in Nat /\ Len(frames') = Len(frames) + 1
           /\ frames'[Len(frames) + 1] = e /\ normalized'[Len(frames) + 1] = canonical
           /\ \A i \in 1..Len(frames) : frames'[i] = frames[i] /\ normalized'[i] = normalized[i]
           /\ frames' \in Seq(Effect) /\ normalized' \in Seq(Effect) /\ Len(normalized') = Len(frames')
           /\ UNCHANGED <<enabled, recording, phase>>
  BY DEF GoalsInv, GoalsTypeOK, Emits

\* The goals at the same place stay so.
LEMMA MatchesKept ==
    ASSUME GoalsInv, NEW e \in Effect, NEW canonical \in Effect, Emits(e, canonical),
           NEW r \in 1..Len(recording), NEW i \in 1..Len(frames)
    PROVE  /\ Matches(r, i)' <=> Matches(r, i)
           /\ PairAt(r, i)' = PairAt(r, i)
  <1>1. frames \in Seq(Effect) /\ frames' = Append(frames, e) /\ recording' = recording
    BY DEF Emits, GoalsInv, GoalsTypeOK
  <1>2. frames'[i] = frames[i]
    BY Emitted
  <1>3. src_seq(frames', i) = src_seq(frames, i) /\ src_seq(recording', r) = src_seq(recording, r)
    BY <1>1, PlaceIsKept
  <1> QED
    BY <1>1, <1>2, <1>3 DEF Matches, PairAt, IsGoal, SameChannel

\* What the phase and the recording promise is left alone.
LEMMA EmittedRecording ==
    ASSUME GoalsInv, NEW e \in Effect, NEW canonical \in Effect, Emits(e, canonical), phase = "running"
    PROVE  RecordedCancels' /\ PhaseInv'
  <1>1. UNCHANGED <<recording, phase>>
    BY DEF Emits
  <1>2. RecordedCancels'
    BY <1>1 DEF GoalsInv, RecordedCancels, IsGoal
  <1>3. PhaseInv'
    BY <1>1 DEF GoalsInv, PhaseInv, RecordingAllowed, IsGoal
  <1> QED
    BY <1>2, <1>3

\* A replayed id of the pairs was seen, and is not the wildcard.
LEMMA ReplayedSeen ==
    ASSUME GoalsInv, NEW p \in pairs
    PROVE  /\ <<p.client, p.replayed>> \in seen /\ p.replayed # Zero
           /\ p.recorded \in Id \cup {Zero}
           /\ p.request \in 1..Len(recording) /\ p.client = recording[p.request].client
           /\ p.recorded = recording[p.request].id /\ IsGoal(recording[p.request])
  <1>1. PICK r \in 1..Len(recording), i \in 1..Len(frames) : Matches(r, i) /\ p = PairAt(r, i)
    BY DEF GoalsInv, PairsInv
  <1>2. recording[r] \in Effect /\ frames[i] \in Effect
    BY DEF GoalsInv, GoalsTypeOK
  <1>3. IsGoal(frames[i]) /\ IsGoal(recording[r]) /\ frames[i].client = recording[r].client
    BY <1>1 DEF Matches, SameChannel, IsGoal
  <1>4. frames[i].id # Zero /\ <<frames[i].client, frames[i].id>> \in seen
    BY <1>3 DEF GoalsInv, SeenInv
  <1>5. /\ p.request = r /\ p.client = recording[r].client /\ p.replayed = frames[i].id
        /\ p.recorded = recording[r].id
    BY <1>1 DEF PairAt
  <1>6. recording[r].id \in Id \cup {Zero}
    BY <1>2, EffectFields
  <1> QED
    BY <1>3, <1>4, <1>5, <1>6

\* The translation of an effect is an effect.
LEMMA RenamedEffect ==
    ASSUME NEW e \in Effect, NEW id \in Id \cup {Zero}
    PROVE  Renamed(e, id) \in Effect
  BY DEF Renamed, Effect

\* The pair of a goal that is emitted: the recorded goal at its place.
LEMMA PairOfGoal ==
    ASSUME GoalsInv, NEW e \in Effect, IsGoal(e), NEW canonical \in Effect, Emits(e, canonical),
           NEW n \in Nat, n = Len(frames) + 1
    PROVE  /\ \A r \in 1..Len(recording) :
                 Matches(r, n)' => PairAt(r, n)' \in PairOf(e.client, e.id)
           /\ \A p \in PairOf(e.client, e.id) :
                 p.request \in 1..Len(recording) /\ Matches(p.request, n)' /\ p = PairAt(p.request, n)'
           /\ \A p, q \in PairOf(e.client, e.id) : p = q
  <1>1. frames \in Seq(Effect) /\ frames' = Append(frames, e) /\ recording' = recording
        /\ recording \in Seq(Effect) /\ DOMAIN recording = 1..Len(recording)
    BY DEF Emits, GoalsInv, GoalsTypeOK
  <1>2. frames'[n] = e
    BY Emitted
  <1>3. src_seq(frames', n) = counts[e.client]
    BY <1>1, NewPlace, EffectFields DEF GoalsInv, CountsInv
  <1>4. \A r \in 1..Len(recording) :
           Matches(r, n)' <=> (r \in issuances(e.client) /\ src_seq(recording, r) = counts[e.client])
    BY <1>1, <1>2, <1>3 DEF Matches, issuances, SameChannel, IsGoal
  <1>5. \A r \in issuances(e.client) :
           PairAt(r, n)' = [request |-> r, recorded |-> recording[r].id,
                            replayed |-> e.id, client |-> e.client]
    BY <1>1, <1>2 DEF PairAt, issuances
  <1>6. \A r, k \in issuances(e.client) : src_seq(recording, r) = src_seq(recording, k) => r = k
    <2> SUFFICES ASSUME NEW r \in issuances(e.client), NEW k \in issuances(e.client),
                        src_seq(recording, r) = src_seq(recording, k)
                 PROVE  r = k
      OBVIOUS
    <2>1. SameChannel(recording[r], recording[k]) /\ r \in Nat \ {0} /\ k \in Nat \ {0}
      BY <1>1 DEF issuances, SameChannel, IsGoal
    <2> QED
      BY <2>1, PlaceIsUnique
  <1>7. issuances(e.client) \subseteq 1..Len(recording)
    BY <1>1 DEF issuances
  <1>8. \A r \in 1..Len(recording) : Matches(r, n)' => PairAt(r, n)' \in PairOf(e.client, e.id)
    BY <1>4, <1>5 DEF PairOf
  <1>9. \A p \in PairOf(e.client, e.id) :
           p.request \in 1..Len(recording) /\ Matches(p.request, n)' /\ p = PairAt(p.request, n)'
    BY <1>4, <1>5, <1>7 DEF PairOf
  <1>10. \A p, q \in PairOf(e.client, e.id) : p = q
    BY <1>6 DEF PairOf
  <1> QED
    BY <1>8, <1>9, <1>10


\* A goal of the run: its id is new to its client, so no pair of before is about
\* it, and no translation of before changes.
LEMMA EmitGoalInv ==
    ASSUME GoalsInv, phase = "running", NEW e \in Effect, EmitGoal(e)
    PROVE  GoalsInv'
  <1>1. CASE DuplicateIds(e)
    BY <1>1, MismatchInv DEF EmitGoal
  <1>2. CASE ~DuplicateIds(e)
    <2> DEFINE pair == PairOf(e.client, e.id)
               translated == IF pair = {} THEN e
                             ELSE Renamed(e, (CHOOSE p \in pair : TRUE).recorded)
    <2>1. /\ IsGoal(e) /\ e.id # Zero /\ <<e.client, e.id>> \notin seen
          /\ seen' = seen \cup {<<e.client, e.id>>}
          /\ counts' = [counts EXCEPT ![e.client] = counts[e.client] + 1]
          /\ pairs' = pairs \cup pair
          /\ Emits(e, translated)
      BY <1>2 DEF EmitGoal, DuplicateIds
    <2>2. \A p \in pair : p.recorded \in Id \cup {Zero} /\ p.replayed = e.id /\ p.client = e.client
      BY EffectFields DEF PairOf, issuances, GoalsInv, GoalsTypeOK
    <2>3. translated \in Effect
      BY <2>2, RenamedEffect
    <2>4. /\ pair # {} => \E p \in pair : translated = Renamed(e, p.recorded)
          /\ pair = {} => translated = e
      OBVIOUS
    <2> HIDE DEF translated, pair
    <2>5. PICK canonical \in Effect : canonical = translated
      BY <2>3
    <2>6. IsGoal(e) /\ Emits(e, canonical)
      BY <2>1, <2>5
    <2>7. /\ pair # {} => \E p \in pair : canonical = Renamed(e, p.recorded)
          /\ pair = {} => canonical = e
      BY <2>4, <2>5
    <2>8. PICK n \in Nat : n = Len(frames) + 1
      BY <2>6, Emitted
    <2>9. /\ \A r \in 1..Len(recording) : Matches(r, n)' => PairAt(r, n)' \in pair
          /\ \A p \in pair : \E r \in 1..Len(recording) : Matches(r, n)' /\ p = PairAt(r, n)'
          /\ \A p, q \in pair : p = q
      <3>1. n = Len(frames) + 1 /\ IsGoal(e) /\ Emits(e, canonical)
        BY <2>6, <2>8
      <3>2. \A r \in 1..Len(recording) : Matches(r, n)' => PairAt(r, n)' \in PairOf(e.client, e.id)
        BY <3>1, PairOfGoal
      <3>3. \A p \in PairOf(e.client, e.id) :
               p.request \in 1..Len(recording) /\ Matches(p.request, n)' /\ p = PairAt(p.request, n)'
        BY <3>1, PairOfGoal
      <3>4. \A p, q \in PairOf(e.client, e.id) : p = q
        BY <3>1, PairOfGoal
      <3> QED
        BY <3>2, <3>3, <3>4 DEF pair
    <2>10. /\ Len(frames) \in Nat /\ Len(frames') = n /\ frames'[n] = e /\ normalized'[n] = canonical
           /\ \A i \in 1..Len(frames) : frames'[i] = frames[i] /\ normalized'[i] = normalized[i]
           /\ frames' \in Seq(Effect) /\ normalized' \in Seq(Effect) /\ Len(normalized') = Len(frames')
           /\ UNCHANGED <<enabled, recording, phase>>
           /\ frames' = Append(frames, e) /\ frames \in Seq(Effect)
      BY <2>6, <2>8, Emitted DEF Emits, GoalsInv, GoalsTypeOK
    <2>11. \A i \in 1..Len(frames') : i \in 1..Len(frames) \/ i = n
      BY <2>8, <2>10
    <2>12. n \in 1..Len(frames') /\ 1..Len(frames) \subseteq 1..Len(frames') /\ n \notin 1..Len(frames)
      BY <2>8, <2>10
    <2>13. GoalsTypeOK'
      <3>1. IsFiniteSet(pair)
        <4>1. CASE pair = {}
          BY <4>1, FS_EmptySet
        <4>2. CASE pair # {}
          <5>1. PICK p \in pair : TRUE
            BY <4>2
          <5>2. pair = {p}
            BY <5>1, <2>9
          <5> QED
            BY <5>2, FS_Singleton
        <4> QED
          BY <4>1, <4>2
      <3>2. IsFiniteSet(pairs')
        BY <3>1, <2>1, FS_Union DEF GoalsInv, GoalsTypeOK
      <3>3. counts' \in [Client -> Nat]
        BY <2>1, EffectFields DEF GoalsInv, GoalsTypeOK
      <3> QED
        BY <3>2, <3>3, <2>10 DEF GoalsInv, GoalsTypeOK
    <2>14. RecordedCancels' /\ PhaseInv'
      BY <2>6, EmittedRecording
    <2>15. CountsInv'
      <3> SUFFICES ASSUME NEW c \in Client PROVE counts'[c] = Cardinality(GoalsIn(frames', c))
        BY DEF CountsInv
      <3>1. Cardinality(GoalsIn(frames', c))
            = IF e.client = c THEN Cardinality(GoalsIn(frames, c)) + 1
              ELSE Cardinality(GoalsIn(frames, c))
        BY <2>1, <2>10, GoalsInGrow
      <3>2. counts[c] = Cardinality(GoalsIn(frames, c)) /\ counts \in [Client -> Nat]
        BY DEF GoalsInv, CountsInv, GoalsTypeOK
      <3> QED
        BY <3>1, <3>2, <2>1
    <2>16. \A i \in 1..Len(frames) : IsGoal(frames[i]) => frames[i] # e
      BY <2>1 DEF GoalsInv, SeenInv
    <2>17. SeenInv'
      <3>1. \A x \in seen' : \E i \in 1..Len(frames') :
               IsGoal(frames'[i]) /\ x = <<frames'[i].client, frames'[i].id>>
        <4> SUFFICES ASSUME NEW x \in seen'
                     PROVE  \E i \in 1..Len(frames') :
                               IsGoal(frames'[i]) /\ x = <<frames'[i].client, frames'[i].id>>
          OBVIOUS
        <4>1. CASE x = <<e.client, e.id>>
          BY <4>1, <2>1, <2>10, <2>12
        <4>2. CASE x \in seen
          <5>1. PICK i \in 1..Len(frames) : IsGoal(frames[i]) /\ x = <<frames[i].client, frames[i].id>>
            BY <4>2 DEF GoalsInv, SeenInv
          <5> QED
            BY <5>1, <2>10, <2>12
        <4> QED
          BY <4>1, <4>2, <2>1
      <3>2. ASSUME NEW i \in 1..Len(frames'), IsGoal(frames'[i])
            PROVE  /\ frames'[i].id # Zero /\ <<frames'[i].client, frames'[i].id>> \in seen'
                   /\ \A j \in 1..Len(frames') : frames'[j] = frames'[i] => j = i
        <4>1. CASE i = n
          BY <4>1, <3>2, <2>1, <2>10, <2>11, <2>16
        <4>2. CASE i \in 1..Len(frames)
          BY <4>2, <3>2, <2>1, <2>10, <2>11, <2>16 DEF GoalsInv, SeenInv
        <4> QED
          BY <4>1, <4>2, <2>11
      <3> QED
        BY <3>1, <3>2 DEF SeenInv, IsGoal
    <2>18. \A r \in 1..Len(recording), i \in 1..Len(frames) :
              (Matches(r, i)' <=> Matches(r, i)) /\ PairAt(r, i)' = PairAt(r, i)
      BY <2>6, MatchesKept
    <2>19. PairsInv'
      <3>1. \A p \in pairs' : \E r \in 1..Len(recording), i \in 1..Len(frames') :
               Matches(r, i)' /\ p = PairAt(r, i)'
        <4> SUFFICES ASSUME NEW p \in pairs'
                     PROVE  \E r \in 1..Len(recording), i \in 1..Len(frames') :
                               Matches(r, i)' /\ p = PairAt(r, i)'
          OBVIOUS
        <4>1. CASE p \in pair
          BY <4>1, <2>9, <2>12
        <4>2. CASE p \in pairs
          <5>1. PICK r \in 1..Len(recording), i \in 1..Len(frames) : Matches(r, i) /\ p = PairAt(r, i)
            BY <4>2 DEF GoalsInv, PairsInv
          <5> QED
            BY <5>1, <2>12, <2>18
        <4> QED
          BY <4>1, <4>2, <2>1
      <3>2. \A r \in 1..Len(recording), i \in 1..Len(frames') : Matches(r, i)' => PairAt(r, i)' \in pairs'
        BY <2>1, <2>9, <2>11, <2>18 DEF GoalsInv, PairsInv
      <3> QED
        BY <3>1, <3>2, <2>10 DEF PairsInv
    <2>20. NormalizedInv'
      <3> DEFINE Now(c, id) == {p \in pairs' : p.client = c /\ p.replayed = id}
      <3> SUFFICES ASSUME NEW i \in 1..Len(frames')
                   PROVE  /\ \/ Now(frames'[i].client, frames'[i].id) = {} /\ normalized'[i] = frames'[i]
                             \/ \E p \in Now(frames'[i].client, frames'[i].id) :
                                   normalized'[i] = Renamed(frames'[i], p.recorded)
                          /\ frames'[i].id = Zero \/ <<frames'[i].client, frames'[i].id>> \in seen'
        BY <2>10 DEF NormalizedInv, Replaying, Renamed
      <3>1. CASE i = n
        <4>1. Now(e.client, e.id) = pair
          BY <2>1, <2>2, ReplayedSeen
        <4> HIDE DEF Now
        <4> QED
          BY <3>1, <4>1, <2>1, <2>7, <2>10
      <3>2. CASE i \in 1..Len(frames)
        <4>1. /\ \/ Replaying(frames[i].client, frames[i].id) = {} /\ normalized[i] = frames[i]
                 \/ \E p \in Replaying(frames[i].client, frames[i].id) :
                       normalized[i] = Renamed(frames[i], p.recorded)
              /\ frames[i].id = Zero \/ <<frames[i].client, frames[i].id>> \in seen
          BY <3>2 DEF GoalsInv, NormalizedInv
        <4>2. ~(frames[i].client = e.client /\ frames[i].id = e.id)
          BY <4>1, <2>1
        <4>3. Now(frames[i].client, frames[i].id) = Replaying(frames[i].client, frames[i].id)
          BY <4>2, <2>1, <2>2 DEF Replaying
        <4> HIDE DEF Now
        <4> QED
          BY <3>2, <4>1, <4>3, <2>1, <2>10
      <3> QED
        BY <3>1, <3>2, <2>11
    <2> QED
      BY <2>13, <2>14, <2>15, <2>17, <2>19, <2>20 DEF GoalsInv
  <1> QED
    BY <1>1, <1>2


\* A cancel changes no correspondence.
LEMMA EmitCancelInv ==
    ASSUME GoalsInv, phase = "running", NEW e \in Effect, EmitCancel(e)
    PROVE  GoalsInv'
  <1> DEFINE pair == Replaying(e.client, e.id)
             translated == IF pair = {} THEN e
                           ELSE Renamed(e, (CHOOSE p \in pair : TRUE).recorded)
  <1>1. CASE e.id # Zero /\ pair = {} /\ <<e.client, e.id>> \notin seen
    BY <1>1, MismatchInv DEF EmitCancel
  <1>2. CASE ~(e.id # Zero /\ pair = {} /\ <<e.client, e.id>> \notin seen)
    <2>1. /\ ~IsGoal(e) /\ Emits(e, translated) /\ UNCHANGED <<counts, pairs, seen>>
      BY <1>2 DEF EmitCancel
    <2>2. pair \subseteq pairs /\ \A p \in pair : p.client = e.client /\ p.replayed = e.id
      BY DEF Replaying
    <2>3. \A p \in pair : p.recorded \in Id \cup {Zero} /\ <<e.client, e.id>> \in seen
      BY <2>2, ReplayedSeen
    <2>4. translated \in Effect
      BY <2>3, RenamedEffect
    <2>5. /\ pair # {} => \E p \in pair : translated = Renamed(e, p.recorded)
          /\ pair = {} => translated = e
      OBVIOUS
    <2>6. e.id = Zero \/ <<e.client, e.id>> \in seen
      BY <1>2, <2>3
    <2> HIDE DEF translated
    <2>6a. PICK canonical \in Effect : canonical = translated
      BY <2>4
    <2>6b. Emits(e, canonical)
      BY <2>1, <2>6a
    <2>7. PICK n \in Nat : n = Len(frames) + 1
      BY <2>6b, Emitted
    <2>8. /\ Len(frames) \in Nat /\ Len(frames') = n /\ frames'[n] = e /\ normalized'[n] = canonical
          /\ \A i \in 1..Len(frames) : frames'[i] = frames[i] /\ normalized'[i] = normalized[i]
          /\ frames' \in Seq(Effect) /\ normalized' \in Seq(Effect) /\ Len(normalized') = Len(frames')
          /\ UNCHANGED <<enabled, recording, phase>>
          /\ frames' = Append(frames, e) /\ frames \in Seq(Effect)
      BY <2>6b, <2>7, Emitted DEF Emits, GoalsInv, GoalsTypeOK
    <2>9. /\ \A i \in 1..Len(frames') : i \in 1..Len(frames) \/ i = n
          /\ n \in 1..Len(frames') /\ 1..Len(frames) \subseteq 1..Len(frames')
      BY <2>7, <2>8
    <2>10. GoalsTypeOK'
      BY <2>1, <2>8 DEF GoalsInv, GoalsTypeOK
    <2>11. RecordedCancels' /\ PhaseInv'
      BY <2>6b, EmittedRecording
    <2>12. CountsInv'
      <3>1. \A c \in Client : Cardinality(GoalsIn(frames', c)) = Cardinality(GoalsIn(frames, c))
        BY <2>1, <2>8, GoalsInGrow
      <3> QED
        BY <3>1, <2>1 DEF GoalsInv, CountsInv
    <2>13. \A i \in 1..Len(frames') : IsGoal(frames'[i]) => i \in 1..Len(frames)
      BY <2>1, <2>8, <2>9
    <2>14. SeenInv'
      <3>1. ASSUME NEW x \in seen'
            PROVE  \E i \in 1..Len(frames') :
                      IsGoal(frames'[i]) /\ x = <<frames'[i].client, frames'[i].id>>
        <4>1. PICK i \in 1..Len(frames) : IsGoal(frames[i]) /\ x = <<frames[i].client, frames[i].id>>
          BY <2>1 DEF GoalsInv, SeenInv
        <4>2. i \in 1..Len(frames') /\ frames'[i] = frames[i]
          BY <2>8, <2>9
        <4> QED
          BY <4>1, <4>2
      <3>2. \A i \in 1..Len(frames') : IsGoal(frames'[i]) =>
               /\ frames'[i].id # Zero /\ <<frames'[i].client, frames'[i].id>> \in seen'
               /\ \A j \in 1..Len(frames') : frames'[j] = frames'[i] => j = i
        BY <2>1, <2>8, <2>13 DEF GoalsInv, SeenInv
      <3> QED
        BY <3>1, <3>2 DEF SeenInv, IsGoal
    <2>15. \A r \in 1..Len(recording), i \in 1..Len(frames) :
              (Matches(r, i)' <=> Matches(r, i)) /\ PairAt(r, i)' = PairAt(r, i)
      BY <2>6b, MatchesKept
    <2>16. PairsInv'
      <3>1. \A p \in pairs' : \E r \in 1..Len(recording), i \in 1..Len(frames') :
               Matches(r, i)' /\ p = PairAt(r, i)'
        BY <2>1, <2>9, <2>15 DEF GoalsInv, PairsInv
      <3>2. \A r \in 1..Len(recording), i \in 1..Len(frames') : Matches(r, i)' => i \in 1..Len(frames)
        <4> SUFFICES ASSUME NEW r \in 1..Len(recording), NEW i \in 1..Len(frames'), Matches(r, i)'
                     PROVE  i \in 1..Len(frames)
          OBVIOUS
        <4>1. IsGoal(frames'[i])
          BY DEF Matches, SameChannel, IsGoal
        <4> QED
          BY <4>1, <2>13
      <3>3. \A r \in 1..Len(recording), i \in 1..Len(frames') : Matches(r, i)' => PairAt(r, i)' \in pairs'
        BY <3>2, <2>1, <2>15 DEF GoalsInv, PairsInv
      <3> QED
        BY <3>1, <3>3, <2>8 DEF PairsInv
    <2>17. NormalizedInv'
      <3> SUFFICES ASSUME NEW i \in 1..Len(frames')
                   PROVE  /\ \/ Replaying(frames'[i].client, frames'[i].id) = {} /\ normalized'[i] = frames'[i]
                             \/ \E p \in Replaying(frames'[i].client, frames'[i].id) :
                                   normalized'[i] = Renamed(frames'[i], p.recorded)
                          /\ frames'[i].id = Zero \/ <<frames'[i].client, frames'[i].id>> \in seen'
        BY <2>1, <2>8 DEF NormalizedInv, Replaying, Renamed
      <3>1. CASE i = n
        BY <3>1, <2>1, <2>5, <2>6, <2>8, <2>6a
      <3>2. CASE i \in 1..Len(frames)
        BY <3>2, <2>1, <2>8 DEF GoalsInv, NormalizedInv
      <3> QED
        BY <3>1, <3>2, <2>9
    <2> QED
      BY <2>10, <2>11, <2>12, <2>14, <2>16, <2>17 DEF GoalsInv
  <1> QED
    BY <1>1, <1>2

\* The correspondence is kept by every step.
LEMMA GoalsNextInv == GoalsInv /\ [GoalsNext]_goalVars => GoalsInv'
  <1> SUFFICES ASSUME GoalsInv, [GoalsNext]_goalVars PROVE GoalsInv'
    OBVIOUS
  <1>1. CASE Load
    BY <1>1, LoadInv
  <1>2. CASE New
    BY <1>2, NewInv
  <1>3. CASE Emit
    BY <1>3, EmitGoalInv, EmitCancelInv DEF Emit
  <1>4. CASE UNCHANGED goalVars
    <2>1. UNCHANGED <<enabled, recording, counts, pairs, seen, frames, normalized, phase>>
      BY <1>4 DEF goalVars
    <2>2. PhaseInv'
      BY <2>1 DEF GoalsInv, PhaseInv, RecordingAllowed, IsGoal
    <2> QED
      BY <2>1, <2>2, UnchangedInv DEF GoalsInv, GoalsTypeOK
  <1> QED
    BY <1>1, <1>2, <1>3, <1>4 DEF GoalsNext

\* In every run the correspondence is that of issuance.
THEOREM GoalsInvariance == GoalsSpec => []GoalsInv
  BY GoalsInitInv, GoalsNextInv, PTL DEF GoalsSpec


-----------------------------------------------------------------------------
(***************************************************************************)
(* What the correspondence means for responses and for the comparison.     *)
(***************************************************************************)
\* An effect is its type, its client and its id.
LEMMA SameEffect ==
    ASSUME NEW e \in Effect, NEW f \in Effect, e.type = f.type, e.client = f.client, e.id = f.id
    PROVE  e = f
  BY DEF Effect

\* The correspondence of a client is one to one.
LEMMA OneToOne ==
    ASSUME GoalsInv, phase = "running", NEW p \in pairs, NEW q \in pairs, p.client = q.client,
           p.recorded = q.recorded \/ p.replayed = q.replayed
    PROVE  p = q
  <1>1. PICK r \in 1..Len(recording), i \in 1..Len(frames) : Matches(r, i) /\ p = PairAt(r, i)
    BY DEF GoalsInv, PairsInv
  <1>2. PICK k \in 1..Len(recording), j \in 1..Len(frames) : Matches(k, j) /\ q = PairAt(k, j)
    BY DEF GoalsInv, PairsInv
  <1>3. /\ recording[r] \in Effect /\ recording[k] \in Effect
        /\ frames[i] \in Effect /\ frames[j] \in Effect
        /\ r \in Nat \ {0} /\ k \in Nat \ {0} /\ i \in Nat \ {0} /\ j \in Nat \ {0}
        /\ DOMAIN recording = 1..Len(recording) /\ Len(recording) \in Nat
    BY DEF GoalsInv, GoalsTypeOK
  <1>4. /\ IsGoal(recording[r]) /\ IsGoal(recording[k]) /\ IsGoal(frames[i]) /\ IsGoal(frames[j])
        /\ recording[r].client = recording[k].client /\ frames[i].client = frames[j].client
    BY <1>1, <1>2 DEF Matches, PairAt, SameChannel, IsGoal
  <1>5. SameChannel(recording[r], recording[k]) /\ SameChannel(frames[i], frames[j])
    BY <1>4 DEF SameChannel, IsGoal
  <1>6. src_seq(frames, i) = src_seq(recording, r) /\ src_seq(frames, j) = src_seq(recording, k)
    BY <1>1, <1>2 DEF Matches
  <1>7. CASE p.recorded = q.recorded
    <2>1. recording[r] = recording[k]
      BY <1>1, <1>2, <1>3, <1>4, <1>7, SameEffect DEF PairAt, IsGoal
    <2>2. RecordingAllowed
      BY DEF GoalsInv, PhaseInv
    <2>3. r = k
      BY <1>3, <1>4, <2>1, <2>2 DEF RecordingAllowed
    <2>4. i = j
      BY <1>3, <1>5, <1>6, <2>3, PlaceIsUnique
    <2> QED
      BY <1>1, <1>2, <2>3, <2>4
  <1>8. CASE p.replayed = q.replayed
    <2>1. frames[i] = frames[j]
      BY <1>1, <1>2, <1>3, <1>4, <1>8, SameEffect DEF PairAt, IsGoal
    <2>2. i = j
      BY <1>4, <2>1 DEF GoalsInv, SeenInv
    <2>3. r = k
      BY <1>3, <1>5, <1>6, <2>2, PlaceIsUnique
    <2> QED
      BY <1>1, <1>2, <2>2, <2>3
  <1> QED
    BY <1>7, <1>8

\* One frame of the run is at the place of a recorded one.
LEMMA IssuedOnce ==
    ASSUME GoalsInv, NEW r \in 1..Len(recording), NEW i \in Issued(r), NEW j \in Issued(r)
    PROVE  i = j
  <1>1. i \in Nat \ {0} /\ j \in Nat \ {0}
    BY DEF Issued, GoalsInv, GoalsTypeOK
  <1>2. SameChannel(frames[i], frames[j]) /\ src_seq(frames, i) = src_seq(frames, j)
    BY DEF Issued, SameChannel
  <1> QED
    BY <1>1, <1>2, PlaceIsUnique

\* The ids of a cancel response are counted through the pairs they name.
LEMMA InvGoalsStayApart == GoalsInv /\ phase = "running" => GoalsStayApart
  <1> SUFFICES ASSUME GoalsInv, phase = "running",
                      NEW r \in DOMAIN recording, ~IsGoal(recording[r]),
                      NEW ids \in SUBSET Id, NEW out \in cancel_response(r, ids)
               PROVE  /\ Cardinality(out) = Cardinality(ids)
                      /\ \A id \in out : <<recording[r].client, id>> \in seen
    BY DEF GoalsStayApart
  <1> DEFINE named == {p \in pairs : p.client = recording[r].client /\ p.recorded \in ids}
             toRecorded == [p \in named |-> p.recorded]
             toReplayed == [p \in named |-> p.replayed]
  <1>1. ids = {p.recorded : p \in named} /\ out = {p.replayed : p \in named}
    BY DEF cancel_response
  <1>2. \A id \in out : <<recording[r].client, id>> \in seen
    BY <1>1, ReplayedSeen
  <1>3. \A p, q \in named : p.recorded = q.recorded \/ p.replayed = q.replayed => p = q
    BY OneToOne
  <1>4. IsFiniteSet(named)
    BY FS_Subset, named \in SUBSET pairs DEF GoalsInv, GoalsTypeOK
  <1> HIDE DEF named
  <1>5. toRecorded \in Surjection(named, ids) /\ toRecorded \in Injection(named, ids)
    <2>1. toRecorded \in [named -> ids]
      BY <1>1
    <2>2. \A id \in ids : \E p \in named : toRecorded[p] = id
      BY <1>1
    <2>3. \A p, q \in named : toRecorded[p] = toRecorded[q] => p = q
      BY <1>3
    <2> HIDE DEF toRecorded
    <2> QED
      BY <2>1, <2>2, <2>3 DEF Surjection, Injection, IsInjective
  <1>6. toReplayed \in Surjection(named, out) /\ toReplayed \in Injection(named, out)
    <2>1. toReplayed \in [named -> out]
      BY <1>1
    <2>2. \A id \in out : \E p \in named : toReplayed[p] = id
      BY <1>1
    <2>3. \A p, q \in named : toReplayed[p] = toReplayed[q] => p = q
      BY <1>3
    <2> HIDE DEF toReplayed
    <2> QED
      BY <2>1, <2>2, <2>3 DEF Surjection, Injection, IsInjective
  <1> HIDE DEF toRecorded, toReplayed
  <1>7. Cardinality(ids) = Cardinality(named)
    BY <1>4, <1>5, FS_Surjection
  <1>8. Cardinality(out) = Cardinality(named)
    BY <1>4, <1>6, FS_Surjection
  <1> QED
    BY <1>2, <1>7, <1>8

\* The one frame at the place of a recorded cancel was translated to it.
LEMMA InvCancelsItsGoal == GoalsInv => CancelsItsGoal
  <1> SUFFICES ASSUME GoalsInv, enabled, NEW r \in DOMAIN recording, ~IsGoal(recording[r]),
                      recording[r].id # Zero, Equivalent(r), NEW i \in Issued(r)
               PROVE  \/ \E p \in pairs : /\ p.client = frames[i].client
                                          /\ p.recorded = recording[r].id
                                          /\ p.replayed = frames[i].id
                      \/ /\ frames[i].id = recording[r].id
                         /\ <<frames[i].client, frames[i].id>> \in seen
                         /\ Replaying(frames[i].client, frames[i].id) = {}
    BY DEF CancelsItsGoal
  <1>1. /\ DOMAIN recording = 1..Len(recording) /\ DOMAIN frames = 1..Len(frames)
        /\ frames \in Seq(Effect)
    BY DEF GoalsInv, GoalsTypeOK
  <1>2. normalized[i] = recording[r] /\ i \in 1..Len(frames)
    BY <1>1, IssuedOnce DEF Equivalent, Issued
  <1>3. frames[i] \in Effect
    BY <1>1, <1>2
  <1>4. CASE Replaying(frames[i].client, frames[i].id) = {} /\ normalized[i] = frames[i]
    BY <1>2, <1>4 DEF GoalsInv, NormalizedInv
  <1>5. CASE \E p \in Replaying(frames[i].client, frames[i].id) :
                normalized[i] = Renamed(frames[i], p.recorded)
    <2>1. PICK p \in Replaying(frames[i].client, frames[i].id) :
                  normalized[i] = Renamed(frames[i], p.recorded)
      BY <1>5
    <2>2. normalized[i].id = p.recorded
      BY <1>3, <2>1 DEF Renamed, Effect
    <2> QED
      BY <1>2, <2>1, <2>2 DEF Replaying
  <1> QED
    BY <1>2, <1>4, <1>5 DEF GoalsInv, NormalizedInv

\* The pair of a recorded goal leads to the one frame at its place.
LEMMA InvResponse == GoalsInv => ResponseReachesItsGoal
  <1> SUFFICES ASSUME GoalsInv, phase = "running",
                      NEW r \in DOMAIN recording, IsGoal(recording[r]),
                      NEW id \in Id, NEW out \in goal_response(r, id)
               PROVE  id = recording[r].id /\ {frames[i].id : i \in Issued(r)} = {out}
    BY InvGoalsStayApart, InvCancelsItsGoal DEF ResponseReachesItsGoal
  <1>1. DOMAIN recording = 1..Len(recording) /\ DOMAIN frames = 1..Len(frames)
    BY DEF GoalsInv, GoalsTypeOK
  <1>2. PICK q \in pairs : q.request = r /\ q.recorded = id /\ out = q.replayed
    BY DEF goal_response, Answers, PairFor
  <1>3. PICK k \in 1..Len(recording), i \in 1..Len(frames) : Matches(k, i) /\ q = PairAt(k, i)
    BY DEF GoalsInv, PairsInv
  <1>4. k = r /\ id = recording[r].id /\ out = frames[i].id
    BY <1>2, <1>3 DEF PairAt
  <1>5. i \in Issued(r)
    BY <1>1, <1>3, <1>4 DEF Matches, Issued
  <1>6. \A j \in Issued(r) : j = i
    BY <1>1, <1>5, IssuedOnce
  <1> QED
    BY <1>4, <1>5, <1>6


\* When the run has the recording's channels, every goal of the recording has
\* its pair.
LEMMA AllPaired ==
    ASSUME GoalsInv, Len(frames) = Len(recording),
           \A i \in 1..Len(frames) : SameChannel(frames[i], recording[i]),
           NEW k \in 1..Len(recording), IsGoal(recording[k])
    PROVE  PairAt(k, k) \in pairs
  <1>1. Len(recording) \in Nat
    BY DEF GoalsInv, GoalsTypeOK
  <1>2. \A j \in 1..(k - 1) : j \in 1..Len(frames)
    BY <1>1
  <1>3. \A j \in 1..(k - 1) :
           SameChannel(frames[j], frames[k]) <=> SameChannel(recording[j], recording[k])
    BY <1>2 DEF SameChannel
  <1>4. {j \in 1..(k - 1) : SameChannel(frames[j], frames[k])}
        = {j \in 1..(k - 1) : SameChannel(recording[j], recording[k])}
    BY <1>3
  <1>5. src_seq(frames, k) = src_seq(recording, k)
    BY <1>4 DEF src_seq
  <1>6. Matches(k, k)
    BY <1>5 DEF Matches
  <1> QED
    BY <1>6 DEF GoalsInv, PairsInv

\* A translated effect keeps its channel.
LEMMA NormalizedChannel ==
    ASSUME GoalsInv, NEW i \in 1..Len(frames)
    PROVE  SameChannel(frames[i], normalized[i]) /\ frames[i] \in Effect
  <1>1. frames[i] \in Effect
    BY DEF GoalsInv, GoalsTypeOK
  <1>2. \A id : SameChannel(frames[i], Renamed(frames[i], id))
    BY <1>1 DEF Effect, Renamed, SameChannel
  <1> QED
    BY <1>1, <1>2 DEF GoalsInv, NormalizedInv, SameChannel

\* The wildcard is not translated.
LEMMA WildcardKept ==
    ASSUME GoalsInv, NEW i \in 1..Len(frames), frames[i].id = Zero
    PROVE  normalized[i] = frames[i]
  <1>1. Replaying(frames[i].client, frames[i].id) = {}
    BY ReplayedSeen DEF Replaying
  <1> QED
    BY <1>1 DEF GoalsInv, NormalizedInv

\* A run that agrees with the recording renames it.
LEMMA AgreementRenames ==
    ASSUME GoalsInv, phase = "running", enabled, normalized = recording
    PROVE  IsRenaming
  <1>1. /\ Len(frames) = Len(recording) /\ DOMAIN frames = 1..Len(frames)
        /\ recording \in Seq(Effect) /\ DOMAIN recording = 1..Len(recording)
    BY DEF GoalsInv, GoalsTypeOK
  <1>2. \A i \in 1..Len(frames) : SameChannel(frames[i], recording[i]) /\ frames[i] \in Effect
    BY NormalizedChannel
  <1>3. ASSUME NEW i \in 1..Len(frames), frames[i].id # Zero
        PROVE  \E p \in pairs : /\ p.client = frames[i].client /\ p.replayed = frames[i].id
                                /\ p.recorded = recording[i].id
    <2>1. PICK k \in 1..Len(frames) :
             /\ IsGoal(frames[k])
             /\ <<frames[i].client, frames[i].id>> = <<frames[k].client, frames[k].id>>
      BY <1>3 DEF GoalsInv, NormalizedInv, SeenInv
    <2>2. IsGoal(recording[k]) /\ frames[k].client = recording[k].client
      BY <1>2, <2>1 DEF SameChannel, IsGoal
    <2>3. PairAt(k, k) \in pairs
      BY <1>1, <1>2, <2>2, AllPaired
    <2>4. PairAt(k, k) \in Replaying(frames[i].client, frames[i].id)
      BY <2>1, <2>2, <2>3 DEF Replaying, PairAt
    <2>5. PICK p \in Replaying(frames[i].client, frames[i].id) :
                  normalized[i] = Renamed(frames[i], p.recorded)
      BY <2>4 DEF GoalsInv, NormalizedInv
    <2>6. normalized[i].id = p.recorded
      BY <1>2, <2>5 DEF Renamed, Effect
    <2> QED
      BY <2>5, <2>6 DEF Replaying
  <1>4. \A i \in 1..Len(frames) : frames[i].id = Zero => recording[i].id = Zero
    BY WildcardKept
  <1>5. \A p \in pairs : p.recorded # Zero
    <2>1. RecordingAllowed
      BY DEF GoalsInv, PhaseInv
    <2> QED
      BY <1>1, <2>1, ReplayedSeen DEF RecordingAllowed
  <1>6. \A i \in 1..Len(frames) : (frames[i].id = Zero) <=> (recording[i].id = Zero)
    BY <1>3, <1>4, <1>5
  <1>7. ASSUME NEW i \in 1..Len(frames), NEW j \in 1..Len(frames), frames[i].client = frames[j].client
        PROVE  (frames[i].id = frames[j].id) <=> (recording[i].id = recording[j].id)
    <2>1. CASE frames[i].id = Zero \/ frames[j].id = Zero
      BY <1>6, <2>1
    <2>2. CASE frames[i].id # Zero /\ frames[j].id # Zero
      <3>1. PICK p \in pairs : /\ p.client = frames[i].client /\ p.replayed = frames[i].id
                               /\ p.recorded = recording[i].id
        BY <1>3, <2>2
      <3>2. PICK q \in pairs : /\ q.client = frames[j].client /\ q.replayed = frames[j].id
                               /\ q.recorded = recording[j].id
        BY <1>3, <2>2
      <3> QED
        BY <1>7, <3>1, <3>2, OneToOne
    <2> QED
      BY <2>1, <2>2
  <1> QED
    BY <1>1, <1>2, <1>6, <1>7 DEF IsRenaming

\* A renaming of the recording agrees with it.
LEMMA RenamingAgrees ==
    ASSUME GoalsInv, phase = "running", enabled, IsRenaming
    PROVE  normalized = recording
  <1>1. /\ Len(frames) = Len(recording) /\ DOMAIN frames = 1..Len(frames)
        /\ recording \in Seq(Effect) /\ DOMAIN recording = 1..Len(recording)
        /\ normalized \in Seq(Effect) /\ Len(normalized) = Len(recording)
    BY DEF GoalsInv, GoalsTypeOK, IsRenaming
  <1>2. \A i \in 1..Len(frames) : SameChannel(frames[i], recording[i])
    BY <1>1 DEF IsRenaming
  <1>3. ASSUME NEW i \in 1..Len(frames)
        PROVE  normalized[i] = recording[i]
    <2>1. frames[i] \in Effect /\ recording[i] \in Effect /\ normalized[i] \in Effect
      BY <1>1, NormalizedChannel
    <2>2. SameChannel(normalized[i], recording[i])
      BY <1>2, NormalizedChannel DEF SameChannel
    <2>3. normalized[i].id = recording[i].id
      <3>1. CASE frames[i].id = Zero
        BY <1>1, <3>1, WildcardKept DEF IsRenaming
      <3>2. CASE frames[i].id # Zero
        <4>1. recording[i].id # Zero
          BY <1>1, <3>2 DEF IsRenaming
        <4>2. PICK k \in 1..Len(recording) : /\ IsGoal(recording[k]) /\ recording[k].id = recording[i].id
                                             /\ recording[k].client = recording[i].client
          <5>1. CASE IsGoal(recording[i])
            BY <1>1, <5>1
          <5>2. CASE ~IsGoal(recording[i])
            <6>1. PICK k \in 1..Len(recording) : recording[k] = [recording[i] EXCEPT !.type = "GoalSend"]
              BY <1>1, <4>1, <5>2 DEF GoalsInv, RecordedCancels
            <6> QED
              BY <2>1, <6>1 DEF Effect, IsGoal
          <5> QED
            BY <5>1, <5>2
        <4>3. frames[k].client = frames[i].client
          BY <1>1, <1>2, <4>2 DEF SameChannel
        <4>4. frames[k].id = frames[i].id
          BY <1>1, <4>2, <4>3 DEF IsRenaming
        <4>5. PairAt(k, k) \in pairs
          BY <1>1, <1>2, <4>2, AllPaired
        <4>6. /\ PairAt(k, k).replayed = frames[i].id /\ PairAt(k, k).client = frames[i].client
              /\ PairAt(k, k).recorded = recording[i].id
          BY <1>2, <4>2, <4>3, <4>4 DEF PairAt, SameChannel
        <4>7. PICK p \in Replaying(frames[i].client, frames[i].id) :
                      normalized[i] = Renamed(frames[i], p.recorded)
          BY <4>5, <4>6 DEF GoalsInv, NormalizedInv, Replaying
        <4>8. p \in pairs /\ p.client = frames[i].client /\ p.replayed = frames[i].id
          BY <4>7 DEF Replaying
        <4>9. p = PairAt(k, k)
          BY <4>5, <4>6, <4>8, OneToOne
        <4>10. normalized[i].id = p.recorded
          BY <2>1, <4>7 DEF Renamed, Effect
        <4> QED
          BY <4>6, <4>9, <4>10
      <3> QED
        BY <3>1, <3>2
    <2> QED
      BY <2>1, <2>2, <2>3, SameEffect DEF SameChannel
  <1> QED
    BY <1>1, <1>3, SeqEqual

\* Both directions, and the policy without normalization.
LEMMA InvAgreement == GoalsInv => AgreementIsRenaming
  <1> SUFFICES ASSUME GoalsInv, phase = "running"
               PROVE  (normalized = recording) <=> (IF enabled THEN IsRenaming ELSE frames = recording)
    BY DEF AgreementIsRenaming
  <1>1. CASE enabled
    BY <1>1, AgreementRenames, RenamingAgrees
  <1>2. CASE ~enabled
    <2>1. \A i \in 1..Len(frames) : normalized[i] = frames[i]
      BY <1>2 DEF GoalsInv, NormalizedInv, Renamed
    <2>2. normalized = frames
      BY <2>1, SeqEqual DEF GoalsInv, GoalsTypeOK
    <2> QED
      BY <1>2, <2>2
  <1> QED
    BY <1>1, <1>2

-----------------------------------------------------------------------------
\* A recorded response is delivered to the goal at the place of the goal it
\* answered and to no other, and the goals that cancels and their responses name
\* keep to the same correspondence, for every set of clients and ids and every
\* recording and run (Goals::effect, Goals::input).
THEOREM ResponsesReachTheirGoals == GoalsSpec => []ResponseReachesItsGoal
  BY GoalsInvariance, InvResponse, PTL

\* Under goal-ids-in-order@1 the comparison accepts exactly the renamings of the
\* recording, and under raw-bytes-in-order@1 the recording itself, for every set
\* of clients and ids (Goals::effect).
THEOREM AgreementMeansRenaming == GoalsSpec => []AgreementIsRenaming
  BY GoalsInvariance, InvAgreement, PTL
=============================================================================
