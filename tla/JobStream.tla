------------------------------ MODULE JobStream ------------------------------
(***************************************************************************)
(* The live log of one job (sse.go handleJobEvents): the job's goroutine   *)
(* appends to the log file and then records its status in the store; every *)
(* browser that watches has a handler that polls the file and, in a later  *)
(* step, the status.  Nothing links the two but the order of their reads   *)
(* and writes.  The job manager around them is module Jobs: here a job     *)
(* only has a row, a log and an end.                                       *)
(*                                                                         *)
(* The log is a sequence of characters; the character at position i is i,  *)
(* or NL.  What was lost, repeated or swapped then shows in the numbers.   *)
(***************************************************************************)
EXTENDS Naturals, Sequences, SequencesExt

CONSTANTS Watchers,       \* concurrent streams of the job
          MaxLog,         \* bound: characters written
          StoreMayFail    \* whether reading the job row may return an error

ASSUME JobStreamAssumption == MaxLog \in Nat /\ StoreMayFail \in BOOLEAN

VARIABLES job,            \* the goroutine: "created", "writing", "ended", "dead"
          log,            \* the log file
          status,         \* the status column of the job's row
          stream          \* stream[w]: the state of watcher w's handler

vars == <<job, log, status, stream>>

NL == 0
Chars == 0..MaxLog
Texts == UNION {[1..n -> Chars] : n \in 0..MaxLog}

\* at: where the handler stands; path: whether the row it read once had a
\* log path; sent: the lines of its "append" events; final: its "done" event.
\* History: late, the stream was opened after the job ended; err, its last
\* read of the row failed.
Closed == [at |-> "off", path |-> FALSE, offset |-> 0, pending |-> <<>>,
           sent |-> <<>>, final |-> "none", late |-> FALSE, err |-> FALSE]

TypeOK ==
  /\ job \in {"created", "writing", "ended", "dead"}
  /\ log \in Texts
  /\ status \in {"running", "ok", "failed"}
  /\ \A w \in Watchers :
       LET s == stream[w] IN
         /\ s.at \in {"off", "poll", "check", "wait", "done"}
         /\ s.offset \in 0..Len(log)
         /\ s.pending \in Texts
         /\ \A i \in DOMAIN s.sent : s.sent[i] \in Texts
         /\ s.final \in {"none", "ok", "failed"}

\* The row has been inserted, its log path not yet set.
Init == /\ job = "created"
        /\ log = <<>>
        /\ status = "running"
        /\ stream = [w \in Watchers |-> Closed]
-----------------------------------------------------------------------------
(* The job.                                                                *)

\* Start sets the log path and launches the goroutine.
Launch == /\ job = "created"
          /\ job' = "writing"
          /\ UNCHANGED <<log, status, stream>>

\* One Write of the job; every way of cutting the output into writes is a
\* sequence of these.
Write == /\ job = "writing"
         /\ Len(log) < MaxLog
         /\ \E c \in {Len(log) + 1, NL} : log' = Append(log, c)
         /\ UNCHANGED <<job, status, stream>>

\* fn has returned and FinishJob records the status.
End == /\ job = "writing"
       /\ job' = "ended"
       /\ status' \in {"ok", "failed"}
       /\ UNCHANGED <<log, stream>>

\* The process dies: streams break (jobs.ts closes on an error and does not
\* reconnect); the next process sweeps the row before it serves anybody.
Die == /\ job \in {"created", "writing", "ended"}
       /\ job' = "dead"
       /\ status' = IF status = "running" THEN "failed" ELSE status
       /\ stream' = [w \in Watchers |-> IF stream[w].at = "done" THEN stream[w] ELSE Closed]
       /\ UNCHANGED log
-----------------------------------------------------------------------------
(* The handler of one watcher.                                             *)

Step(w, s) == /\ stream' = [stream EXCEPT ![w] = s]
              /\ UNCHANGED <<job, log, status>>

\* Broken form of the next: the status is looked at before the file.
FirstStatus == "check"
FirstRead == "poll"

\* The row is read once; its LogPath is empty until Launch.
Connect(w) ==
  /\ stream[w].at = "off"
  /\ Step(w, [Closed EXCEPT !.at = FirstRead, !.path = (job # "created"),
                            !.late = (status # "running")])

\* Broken form of the next: only the first newline is found.
SplitOnce(text) ==
  LET split[i \in 0..Len(text)] ==
        IF i = 0 THEN [lines |-> <<>>, rest |-> <<>>]
        ELSE IF text[i] = NL /\ split[i - 1].lines = <<>>
          THEN [lines |-> <<split[i - 1].rest>>, rest |-> <<>>]
          ELSE [split[i - 1] EXCEPT !.rest = Append(@, text[i])]
  IN  split[Len(text)]

\* strings.Split at newlines: the complete lines, and the rest.
Split(text) ==
  LET split[i \in 0..Len(text)] ==
        IF i = 0 THEN [lines |-> <<>>, rest |-> <<>>]
        ELSE IF text[i] = NL
          THEN [lines |-> Append(split[i - 1].lines, split[i - 1].rest), rest |-> <<>>]
          ELSE [split[i - 1] EXCEPT !.rest = Append(@, text[i])]
  IN  split[Len(text)]

\* Broken forms of the next: the partial line is overwritten; it is counted twice.
ReadOverwriting(s) ==
  LET new == Split(SubSeq(log, s.offset + 1, Len(log))) IN
    [s EXCEPT !.offset = Len(log), !.pending = new.rest, !.sent = @ \o new.lines]

ReadOverCounting(s) ==
  LET text == s.pending \o SubSeq(log, s.offset + 1, Len(log)) IN
    [s EXCEPT !.offset = @ + Len(text), !.pending = Split(text).rest, !.sent = @ \o Split(text).lines]

\* What one read of the file does: everything from offset on, cut into lines.
Read(s) ==
  LET text == Split(s.pending \o SubSeq(log, s.offset + 1, Len(log))) IN
    [s EXCEPT !.offset = Len(log), !.pending = text.rest, !.sent = @ \o text.lines]

\* A handler without a path cannot open the file and reads nothing.
Poll(w) ==
  /\ stream[w].at = "poll"
  /\ Step(w, [(IF stream[w].path THEN Read(stream[w]) ELSE stream[w])
              EXCEPT !.at = "check"])

Flush(s) == IF s.pending = <<>> THEN s.sent ELSE Append(s.sent, s.pending)

Ended(s, final) == [s EXCEPT !.at = "done", !.sent = Flush(s), !.pending = <<>>,
                             !.final = final]

\* Broken forms of the next: success by default; only a success ends the stream.
EndOkByDefault(s, current) == Ended(s, IF current = "error" THEN "ok" ELSE current)
EndOnlyIfOk(s, current) ==
  IF current = "ok" THEN Ended(s, current) ELSE [s EXCEPT !.at = "wait"]

\* The stream ends with the partial line and the status, "failed" on an error.
EndOf(s, current) == Ended(s, IF current = "error" THEN "failed" ELSE current)

\* The status read after the file; only "running" keeps the stream open.
Check(w) ==
  /\ stream[w].at = "check"
  /\ \E current \in {status} \union (IF StoreMayFail THEN {"error"} ELSE {}) :
       Step(w, IF current = "running" THEN [stream[w] EXCEPT !.at = "wait"]
               ELSE EndOf([stream[w] EXCEPT !.err = (current = "error")], current))

Tick(w) == /\ stream[w].at = "wait"
           /\ Step(w, [stream[w] EXCEPT !.at = "poll"])

\* The browser leaves, at any time; it may come back with a new stream.
Leave(w) == /\ stream[w].at # "off"
            /\ Step(w, Closed)
-----------------------------------------------------------------------------
Job == Launch \/ Write \/ End

Handler(w) == Poll(w) \/ Check(w) \/ Tick(w)

Next == \/ Job \/ Die
        \/ \E w \in Watchers : Connect(w) \/ Handler(w) \/ Leave(w)

(***************************************************************************)
(* Fairness: a handler goes on polling (a ticker and file reads), and the  *)
(* job ends (fn's commands are assumed to).  Nobody has to watch.          *)
(***************************************************************************)
Spec == Init /\ [][Next]_vars
FairSpec == Spec /\ WF_vars(Launch \/ End) /\ \A w \in Watchers : WF_vars(Handler(w))
-----------------------------------------------------------------------------
(* Properties.                                                             *)

Shown(s) == FlattenSeq([i \in DOMAIN s.sent |-> Append(s.sent[i], NL)])

\* While a stream is open, what the browser shows, with the partial line the
\* handler holds back, is exactly what has been read of the log: no character
\* lost, repeated or moved, however writes and polls interleave (sse.go:265-282).
StreamIsPrefix ==
  \A w \in Watchers :
    LET s == stream[w] IN
      s.at \notin {"off", "done"} => Shown(s) \o s.pending = SubSeq(log, 1, s.offset)

\* An event is one line: a newline inside would end the SSE event early and
\* drop what follows it (sse.go:272-277).
LinesAreWhole ==
  \A w \in Watchers : /\ \A i \in DOMAIN stream[w].sent : ~ Contains(stream[w].sent[i], NL)
                      /\ ~ Contains(stream[w].pending, NL)

\* "done" carries the job's final status, never a guess while the job runs;
\* if the row cannot be read it says "failed" (sse.go:232-233, 284-294).
DoneIsTrue ==
  \A w \in Watchers :
    LET s == stream[w] IN
      s.final # "none" => s.final = IF s.err THEN "failed" ELSE status

WholeLogShown(s) == Shown(s) \in {log, Append(log, NL)}

\* A stream opened when the job is over, in this process or after a restart,
\* replays the log from its first to its last character before its "done"
\* (sse.go:233-235).
ReplayIsWhole ==
  \A w \in Watchers :
    LET s == stream[w] IN s.late /\ s.at = "done" /\ s.path => WholeLogShown(s)

\* Every stream that stays open gets its "done" (sse.go:284-296).
EveryStreamEnds ==
  \A w \in Watchers : stream[w].at = "poll" ~> stream[w].at \in {"off", "done"}

\* Every stream that got its "done" from the row has shown the whole log, the
\* live ones too (sse.go:231-233: "streams a job's log", "done ... ends the
\* stream").
NothingLost ==
  \A w \in Watchers :
    LET s == stream[w] IN s.at = "done" /\ s.path /\ ~s.err => WholeLogShown(s)
=============================================================================
