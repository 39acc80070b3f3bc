--------------------------- MODULE MCNativeStream ---------------------------
(***************************************************************************)
(* Small recordings and what can happen to them on the way to the reader:  *)
(* events lost, duplicated or reordered before the recorder numbered them  *)
(* or in the file afterwards, a recorder that died, a torn last frame,     *)
(* damaged bytes, two recordings in one file, wrong markers.               *)
(***************************************************************************)
EXTENDS NativeStream, TLC

CONSTANT MaxEvents   \* events between the starting state and the End marker

MCActor   == 0..3
MCChannel == {0, 10, 12, 20}
MCUuid    == {"u", "v"}
MCBody    == [uuid : MCUuid]
               \cup [uuid : MCUuid, frame_count : 0..(MaxEvents + 4)]
               \cup [lost_known : BOOLEAN] \cup [data : {"a", "b"}]

-----------------------------------------------------------------------------
Event(type, src, dst, channel, body) ==
    [type |-> type, src |-> src, dst |-> dst, channel |-> channel, body |-> body]

Opening == <<Event("Session", 0, 0, 0, [uuid |-> "u"]),
             Event("StartingState", 0, 1, 0, [data |-> "a"])>>

Middle == {Event("Message", 2, 1, 10, [data |-> "a"]),
           Event("GoalResponse", 3, 1, 12, [data |-> "a"]),
           Event("GoalSend", 1, 3, 20, [data |-> "b"]),
           Event("Gap", 0, 0, 0, [lost_known |-> TRUE])}

\* What a recorder writes: each event numbered as it is pushed.
Record(events) ==
    [i \in DOMAIN events |->
        events[i] @@
        [kind |-> kind(events[i].type), ordinal |-> i - 1,
         seq |-> Cardinality({j \in 1..(i - 1) : Source(events[j]) = Source(events[i])}),
         flags |-> {}, observed_ns |-> i, damage |-> "none"]]

Closing(n) == <<Event("End", 0, 0, 0, [uuid |-> "u", frame_count |-> n])>>

Recordings ==
    {Record(Opening \o m \o Closing(Len(m) + 2)) :
        m \in UNION {[1..n -> Middle] : n \in 0..MaxEvents}}

-----------------------------------------------------------------------------
Torn(s, n, how) == Append(SubSeq(s, 1, n - 1), [s[n] EXCEPT !.damage = how])

Tampered(s) ==
    UNION {{Lose(s, i), Duplicate(s, i), RemoveAt(s, i), InsertAt(s, i, s[i])} : i \in DOMAIN s}
    \cup UNION {{Overtake(s, i), Swapped(s, i)} : i \in 1..(Len(s) - 1)}
    \cup {SubSeq(s, 1, n) : n \in 0..Len(s)}
    \cup {Torn(s, n, how) : n \in DOMAIN s, how \in {"short_header", "short_payload"}}
    \cup {[s EXCEPT ![i].damage = how] : i \in DOMAIN s, how \in Damage}
    \cup {s \o s}
    \cup {[s EXCEPT ![i].dst = 2] : i \in DOMAIN s}
    \cup {[s EXCEPT ![i].kind = "Emit"] : i \in DOMAIN s}
    \cup {[s EXCEPT ![i].flags = {"COUNT_UNKNOWN"}] : i \in DOMAIN s}
    \cup {[s EXCEPT ![Len(s)].body.uuid = "v"],
          [s EXCEPT ![Len(s)].body.frame_count = @ + 1]}

MCStreams == UNION {Tampered(s) : s \in Recordings}

-----------------------------------------------------------------------------
OfLength(n) == {s \in Recordings : Len(s) = n}

\* "a missing or duplicated event from one endpoint a refusal at decode time"
\* (native-contract.md section 3) taken at its word: no missing event is
\* accepted, the last event of an endpoint included (TamperedIsRefused says what
\* does hold).
MissingEventRefused ==
    status = "accepted" =>
        \A s \in OfLength(Len(stream) + 1) : \A i \in 2..(Len(s) - 1) : stream # Lose(s, i)
=============================================================================
