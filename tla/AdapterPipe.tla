----------------------------- MODULE AdapterPipe -----------------------------
(***************************************************************************)
(* struct AdapterProcess of crates/rook-verify/src/runner.rs, which runs   *)
(* the adapter and the property program: the child writes to a pipe, a     *)
(* reader thread that nobody joins hands the lines over through a bounded  *)
(* channel, the runner takes them with a timeout, waits for the child to   *)
(* exit with another, and kills what is left when the process is dropped.  *)
(*                                                                         *)
(* The child is any program: it may write too much, too little, a line     *)
(* without end, or nothing, exit, or die.  Time is not modelled: a timeout *)
(* may fire whenever what is waited for has not happened.                  *)
(***************************************************************************)
EXTENDS Integers, Sequences, SequencesExt, FiniteSets

CONSTANTS
    ChannelBound,   \* the capacity of the channel
    PipeBound,      \* lines the operating system's pipe holds
    MaxLines        \* lines the child writes at most

ASSUME BoundsAssumption == /\ ChannelBound \in Nat \ {0} /\ PipeBound \in Nat \ {0}
                           /\ MaxLines \in Nat

Good(n)     == [n |-> n, kind |-> "good"]
Bad(n)      == [n |-> n, kind |-> "bad"]      \* over 1 MiB, or cut before its newline
Closed      == [n |-> 0, kind |-> "closed"]   \* end of file, not a line
Line        == {Good(n) : n \in 1..MaxLines} \cup {Bad(n) : n \in 1..MaxLines}

VARIABLES
    child,      \* "alive", "exited" (with a code) or "killed" (by a signal)
    written,    \* how many lines it has written
    pipe,       \* written and not yet read
    reader,     \* the reader thread: "reading", "sending" or "ended"
    held,       \* what it is sending: <<>> or one item
    channel,    \* sent and not yet received
    runner,     \* "idle", "receiving", "finishing", "dropping" or "gone"
    got         \* the last line the runner received

pipeVars == <<child, written, pipe, reader, held, channel, runner, got>>

PipeInit ==
    /\ child = "alive" /\ written = 0 /\ pipe = <<>>
    /\ reader = "reading" /\ held = <<>> /\ channel = <<>>
    /\ runner = "idle" /\ got = {}

-----------------------------------------------------------------------------
\* The child.  A full pipe blocks it.
Write ==
    /\ child = "alive" /\ Len(pipe) < PipeBound /\ written < MaxLines
    /\ written' = written + 1
    /\ \E l \in {Good(written'), Bad(written')} : pipe' = Append(pipe, l)
    /\ UNCHANGED <<child, reader, held, channel, runner, got>>

\* It ends by itself, possibly in the middle of a line.
ChildEnds ==
    /\ child = "alive" /\ child' \in {"exited", "killed"}
    /\ \/ UNCHANGED <<written, pipe>>
       \/ /\ Len(pipe) < PipeBound /\ written < MaxLines
          /\ written' = written + 1 /\ pipe' = Append(pipe, Bad(written'))
    /\ UNCHANGED <<reader, held, channel, runner, got>>

-----------------------------------------------------------------------------
\* The reader thread: read_line, with the limit and the newline checked.
Read ==
    /\ reader = "reading" /\ pipe # <<>>
    /\ held' = <<Head(pipe)>> /\ pipe' = Tail(pipe)
    /\ reader' = "sending"
    /\ UNCHANGED <<child, written, channel, runner, got>>

ReadEnd ==
    /\ reader = "reading" /\ pipe = <<>> /\ child # "alive"
    /\ held' = <<Closed>> /\ reader' = "sending"
    /\ UNCHANGED <<child, written, pipe, channel, runner, got>>

Disconnected == runner = "gone"
AfterSend == IF Head(held).kind = "good" THEN "reading" ELSE "ended"

Sends(next) ==
    /\ reader = "sending" /\ ~Disconnected
    /\ channel' = next /\ held' = <<>>
    /\ reader' = AfterSend
    /\ UNCHANGED <<child, written, pipe, runner, got>>

\* send blocks while the channel is full, fails once the receiver is dropped.
SendOrLose == Sends(IF Len(channel) < ChannelBound THEN channel \o held ELSE channel)
SendLine == Len(channel) < ChannelBound /\ Sends(channel \o held)

SendFails ==
    /\ reader = "sending" /\ Disconnected
    /\ held' = <<>> /\ reader' = "ended"
    /\ UNCHANGED <<child, written, pipe, channel, runner, got>>

Reader == Read \/ ReadEnd \/ SendLine \/ SendFails

-----------------------------------------------------------------------------
\* The runner's calls: line, finish, and the drop that every return leads to.
Call ==
    /\ runner = "idle" /\ runner' \in {"receiving", "finishing", "dropping"}
    /\ UNCHANGED <<child, written, pipe, reader, held, channel, got>>

\* An error among the received items is returned like a missing line.
Receive ==
    /\ runner = "receiving" /\ channel # <<>>
    /\ channel' = Tail(channel)
    /\ got' = IF Head(channel).kind = "closed" THEN got ELSE {Head(channel)}
    /\ runner' = IF Head(channel).kind = "good" THEN "idle" ELSE "dropping"
    /\ UNCHANGED <<child, written, pipe, reader, held>>

\* recv_timeout gives up after ten seconds, or at once when the sender is gone.
ReceiveTimesOut ==
    /\ runner = "receiving" /\ channel = <<>>
    /\ runner' = "dropping"
    /\ UNCHANGED <<child, written, pipe, reader, held, channel, got>>

\* finish polls try_wait: the child's code, or an error after ten seconds or
\* when a signal ended it.  Either way the process is dropped next.
Finish ==
    /\ runner = "finishing"
    /\ runner' = "dropping"
    /\ UNCHANGED <<child, written, pipe, reader, held, channel, got>>

\* Drop: kill and wait; then the receiver goes, and the channel's lines with it.
KillNothing == child
Kill == IF child = "alive" THEN "killed" ELSE child

Drop ==
    /\ runner = "dropping"
    /\ child' = Kill
    /\ runner' = "gone" /\ channel' = <<>>
    /\ UNCHANGED <<written, pipe, reader, held, got>>

Runner == Receive \/ ReceiveTimesOut \/ Finish \/ Drop

PipeNext == Write \/ ChildEnds \/ Reader \/ Call \/ Runner

PipeSpec == PipeInit /\ [][PipeNext]_pipeVars

\* The reader thread and the runner are scheduled; of the child, and of the
\* runner's next call, nothing is assumed.
PipeFairSpec == PipeSpec /\ WF_pipeVars(Reader) /\ WF_pipeVars(Runner)

-----------------------------------------------------------------------------
\* The lines between child and runner: what is under way up to the first item
\* that is not a good line.  The reader stops at a bad one, so what is behind it
\* is as good as lost; the end of file is not a line.
Items == channel \o held \o pipe
Stops(items) == {i \in DOMAIN items : items[i].kind # "good"}
FirstStop(items) == CHOOSE i \in Stops(items) : \A j \in Stops(items) : i <= j
LinesAmong(items) ==
    LET n == FirstStop(items)
    IN  IF Stops(items) = {} THEN items
        ELSE SubSeq(items, 1, IF items[n].kind = "bad" THEN n ELSE n - 1)

OnTheWay ==
    IF Disconnected \/ \E l \in got : l.kind = "bad" THEN <<>> ELSE LinesAmong(Items)

Lines == INSTANCE AdapterLines WITH responses <- OnTheWay

\* Pipe, thread and channel implement the queue: however full they are and
\* whoever waits for whom, no line is lost, doubled or overtaken on its way.
ImplementsLines == Lines!Spec

\* A receive comes back whatever the child does, and a runner that keeps asking
\* gets every line on its way or gives up, however full the channel is.
ReceiveReturns ==
    /\ (runner = "receiving") ~> (runner # "receiving")
    /\ []<>(runner \in {"receiving", "gone"}) =>
          \A n \in 1..MaxLines : (Good(n) \in ToSet(OnTheWay)) ~> (Good(n) \notin ToSet(OnTheWay))

\* No call hangs and nothing stays behind: besides, a process that is dropped
\* leaves no child and, in the end, no reader thread, though the thread may be
\* blocked in a full channel at that moment (Process::line, Process::drop).
NothingLeftBehind ==
    /\ ReceiveReturns
    /\ (runner = "gone") ~> (child # "alive" /\ reader = "ended")
=============================================================================
